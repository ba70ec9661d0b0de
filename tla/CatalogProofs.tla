---------------------------- MODULE CatalogProofs ----------------------------
(***************************************************************************)
(* Lifecycle, with one process at a time, implements ReleaseCatalog.       *)
(* View says what the mapping of LifecycleCatalog amounts to in a state of *)
(* the invariant; with it, before and after, a step is compared with the   *)
(* step of the catalog row by row.                                         *)
(***************************************************************************)
EXTENDS SerialProofs, LifecycleCatalog

\* The rows of the release of id i, if it is built.
Shown(i) ==
    IF rows[i].state \notin Built THEN None
    ELSE IF partition[i] = None THEN "gone" ELSE partition[i]

\* What the catalog shows of the rows, the partitions and the processes.
View ==
    /\ \A i \in Ids : Exists(i) => ServedRows(rows[i].name) = Shown(i)
    /\ \A n \in Names : IdsNamed(n) = {} => ServedRows(n) = None
    /\ \A i \in Ids : Exists(i) /\ rows[i].state = "active"
                        => LiveRelease(FamilyOf[rows[i].name]) = rows[i].name
    /\ \A f \in Families : ActiveIds(f) = {} => LiveRelease(f) = None
    /\ \A p \in Importers : Live(p) => InProgress = ImportRequested(imp[p].req)
    /\ \A o \in Operators : Busy(o) => InProgress = CommandRequested(ops[o].req)
    /\ (\A p \in Importers : ~Live(p)) /\ (\A o \in Operators : ~Busy(o)) => InProgress = None

\* It shows it in every state in which one process at most is at work.
LEMMA ViewHolds == Inv /\ SerialInv => View
<1> SUFFICES ASSUME Inv, SerialInv
             PROVE  View
  OBVIOUS
<1>1. ASSUME NEW i \in Ids, Exists(i)
      PROVE  ServedRows(rows[i].name) = Shown(i)
  <2> DEFINE n == rows[i].name
  <2>1. \A j \in IdsNamed(n) : j = i
    BY <1>1 DEF SerialInv, NamesAreUnique, IdsNamed
  <2>2. i \in IdsNamed(n)
    BY <1>1 DEF IdsNamed
  <2>3. CASE rows[i].state \in Built
    <3> DEFINE j == CHOOSE j \in IdsNamed(n) : rows[j].state \in Built
    <3>1. j = i
      BY <2>1, <2>2, <2>3
    <3>2. ServedRows(n) = IF partition[j] = None THEN "gone" ELSE partition[j]
      BY <2>2, <2>3 DEF ServedRows
    <3> HIDE DEF j
    <3> QED
      BY <2>3, <3>1, <3>2 DEF Shown
  <2>4. CASE rows[i].state \notin Built
    BY <2>1, <2>4 DEF ServedRows, Shown
  <2> QED
    BY <2>3, <2>4
<1>2. \A n \in Names : IdsNamed(n) = {} => ServedRows(n) = None
  BY DEF ServedRows
<1>3. ASSUME NEW i \in Ids, Exists(i), rows[i].state = "active"
      PROVE  LiveRelease(FamilyOf[rows[i].name]) = rows[i].name
  <2> DEFINE f == FamilyOf[rows[i].name]
             j == CHOOSE j \in ActiveIds(f) : TRUE
  <2>1. i \in ActiveIds(f)
    BY <1>3 DEF ActiveIds, FamilyOfId
  <2>2. \A k \in ActiveIds(f) : k = i
    BY <1>3 DEF ActiveIds, FamilyOfId, Inv, OneActivePerFamily, UniqueActive, Exists
  <2>3. j = i
    BY <2>1, <2>2
  <2>4. LiveRelease(f) = rows[j].name
    BY <2>1 DEF LiveRelease
  <2> HIDE DEF j
  <2> QED
    BY <2>3, <2>4
<1>4. \A f \in Families : ActiveIds(f) = {} => LiveRelease(f) = None
  BY DEF LiveRelease
<1>5. ASSUME NEW p \in Importers, Live(p)
      PROVE  InProgress = ImportRequested(imp[p].req)
  <2> DEFINE r == CHOOSE r \in Importers : Live(r)
  <2>1. r = p
    BY <1>5 DEF SerialInv, OneAtATime
  <2>2. ~ \E o \in Operators : Busy(o)
    BY <1>5 DEF SerialInv, OneAtATime
  <2>3. InProgress = ImportRequested(imp[r].req)
    BY <1>5, <2>2 DEF InProgress
  <2> HIDE DEF r
  <2> QED
    BY <2>1, <2>3
<1>6. ASSUME NEW o \in Operators, Busy(o)
      PROVE  InProgress = CommandRequested(ops[o].req)
  <2> DEFINE u == CHOOSE u \in Operators : Busy(u)
  <2>1. u = o
    BY <1>6 DEF SerialInv, OneAtATime
  <2>2. ~ \E p \in Importers : Live(p)
    BY <1>6 DEF SerialInv, OneAtATime
  <2>3. InProgress = CommandRequested(ops[u].req)
    BY <1>6, <2>2 DEF InProgress
  <2> HIDE DEF u
  <2> QED
    BY <2>1, <2>3
<1>7. (\A p \in Importers : ~Live(p)) /\ (\A o \in Operators : ~Busy(o)) => InProgress = None
  BY DEF InProgress
<1> QED
  BY <1>1, <1>2, <1>3, <1>4, <1>5, <1>6, <1>7 DEF View

-----------------------------------------------------------------------------
(* Comparing the catalog before and after a step                           *)

ServedView == [n \in Names |-> ServedRows(n)]
LiveView == [f \in Families |-> LiveRelease(f)]

\* Row j keeps its name, if it stays, and nobody takes a name that is not free.
NameKept(j) == rows[j] # None /\ rows'[j] # None => rows'[j].name = rows[j].name

\* What is shown of row j does not change.
ShownKept(j) ==
    /\ rows[j] # None => rows'[j] # None /\ Shown(j)' = Shown(j)
    /\ rows[j] = None /\ rows'[j] # None => Shown(j)' = None

\* Nor whether it is ACTIVE.
ActiveKept(j) ==
    /\ rows[j] # None /\ rows[j].state = "active" => rows'[j] # None /\ rows'[j].state = "active"
    /\ rows'[j] # None /\ rows'[j].state = "active" => rows[j] # None /\ rows[j].state = "active"

\* A release is served as before if no row of its name is shown otherwise.
LEMMA ServedStays ==
    ASSUME View, View', NEW n \in Names, \A j \in Ids : NameKept(j),
           \A j \in Ids : rows[j] # None /\ rows[j].name = n => ShownKept(j),
           \A j \in Ids : rows[j] = None => ShownKept(j)
    PROVE  ServedRows(n)' = ServedRows(n)
<1>1. CASE \E j \in Ids : rows[j] # None /\ rows[j].name = n
  <2>1. PICK j \in Ids : rows[j] # None /\ rows[j].name = n
    BY <1>1
  <2>2. rows'[j] # None /\ rows'[j].name = n /\ Shown(j)' = Shown(j)
    BY <2>1 DEF NameKept, ShownKept
  <2>3. ServedRows(n) = Shown(j)
    BY <2>1 DEF View, Exists
  <2>4. ServedRows(n)' = Shown(j)'
    BY <2>2 DEF View, Exists
  <2> QED
    BY <2>2, <2>3, <2>4
<1>2. CASE ~ \E j \in Ids : rows[j] # None /\ rows[j].name = n
  <2>1. ServedRows(n) = None
    BY <1>2 DEF View, IdsNamed, Exists
  <2>2. CASE \E j \in Ids : rows'[j] # None /\ rows'[j].name = n
    <3>1. PICK j \in Ids : rows'[j] # None /\ rows'[j].name = n
      BY <2>2
    <3>2. rows[j] = None
      BY <1>2, <3>1 DEF NameKept
    <3>3. Shown(j)' = None
      BY <3>1, <3>2 DEF ShownKept
    <3>4. ServedRows(n)' = Shown(j)'
      BY <3>1 DEF View, Exists
    <3> QED
      BY <2>1, <3>3, <3>4
  <2>3. CASE ~ \E j \in Ids : rows'[j] # None /\ rows'[j].name = n
    <3>1. IdsNamed(n)' = {}
      BY <2>3 DEF IdsNamed, Exists
    <3> QED
      BY <2>1, <3>1 DEF View
  <2> QED
    BY <2>2, <2>3
<1> QED
  BY <1>1, <1>2

\* A family has the live release it had if its ACTIVE rows stay what they are.
LEMMA LiveStays ==
    ASSUME View, View', NEW f \in Families, \A j \in Ids : NameKept(j),
           \A j \in Ids : \/ rows[j] # None /\ FamilyOf[rows[j].name] = f
                          \/ rows'[j] # None /\ FamilyOf[rows'[j].name] = f
                          => ActiveKept(j)
    PROVE  LiveRelease(f)' = LiveRelease(f)
<1>1. CASE \E j \in Ids : rows[j] # None /\ FamilyOf[rows[j].name] = f /\ rows[j].state = "active"
  <2>1. PICK j \in Ids : rows[j] # None /\ FamilyOf[rows[j].name] = f /\ rows[j].state = "active"
    BY <1>1
  <2>2. rows'[j] # None /\ rows'[j].name = rows[j].name /\ rows'[j].state = "active"
    BY <2>1 DEF NameKept, ActiveKept
  <2>3. LiveRelease(f) = rows[j].name
    BY <2>1 DEF View, Exists
  <2>4. LiveRelease(f)' = rows'[j].name
    BY <2>1, <2>2 DEF View, Exists
  <2> QED
    BY <2>2, <2>3, <2>4
<1>2. CASE ~ \E j \in Ids : /\ rows[j] # None /\ FamilyOf[rows[j].name] = f
                            /\ rows[j].state = "active"
  <2>1. ActiveIds(f) = {}
    BY <1>2 DEF ActiveIds, Exists, FamilyOfId
  <2>2. ~ \E j \in Ids : rows'[j] # None /\ FamilyOf[rows'[j].name] = f /\ rows'[j].state = "active"
    BY <1>2 DEF NameKept, ActiveKept
  <2>3. ActiveIds(f)' = {}
    BY <2>2 DEF ActiveIds, Exists, FamilyOfId
  <2> QED
    BY <2>1, <2>3 DEF View
<1> QED
  BY <1>1, <1>2

\* A release is live exactly if its row is ACTIVE.
LEMMA LiveIsActive ==
    ASSUME Inv, SerialInv, View, NEW i \in Ids, rows[i] # None
    PROVE  LiveRelease(FamilyOf[rows[i].name]) = rows[i].name <=> rows[i].state = "active"
<1> DEFINE f == FamilyOf[rows[i].name]
<1>1. rows[i].name \in Names /\ f \in Families
  BY RegistryAssumption DEF Inv, TypeOK, RegistryTypeOK, Row
<1>2. ASSUME LiveRelease(f) = rows[i].name
      PROVE  rows[i].state = "active"
  <2>1. LiveRelease(f) # None
    BY <1>1, <1>2, RegistryAssumption
  <2>2. PICK j \in Ids : rows[j] # None /\ rows[j].state = "active" /\ FamilyOf[rows[j].name] = f
    BY <1>1, <2>1 DEF View, ActiveIds, Exists, FamilyOfId
  <2>3. rows[j].name = rows[i].name
    BY <1>2, <2>2 DEF View, Exists
  <2>4. i = j
    BY <2>2, <2>3 DEF SerialInv, NamesAreUnique, Exists
  <2> QED
    BY <2>2, <2>4
<1> QED
  BY <1>2 DEF View, Exists

\* Where every row and every partition is shown as before, nothing is to be seen.
LEMMA NothingSeen ==
    ASSUME View, View', \A j \in Ids : NameKept(j) /\ ShownKept(j) /\ ActiveKept(j)
    PROVE  UNCHANGED <<ServedView, LiveView>>
<1>1. \A n \in Names : ServedRows(n)' = ServedRows(n)
  BY ServedStays
<1>2. \A f \in Families : LiveRelease(f)' = LiveRelease(f)
  BY LiveStays
<1> QED
  BY <1>1, <1>2 DEF ServedView, LiveView

\* In particular where there is no change.
LEMMA TablesUnseen ==
    ASSUME View, View', UNCHANGED <<rows, partition>>
    PROVE  UNCHANGED <<ServedView, LiveView>>
<1>1. \A j \in Ids : NameKept(j) /\ ShownKept(j) /\ ActiveKept(j)
  BY DEF NameKept, ShownKept, ActiveKept, Shown
<1> QED
  BY <1>1, NothingSeen

-----------------------------------------------------------------------------
(* What is being done                                                      *)

\* A process that goes on goes on with what it was asked.
LEMMA StillAsked ==
    ASSUME View, View', NEW p \in Importers, Live(p), Live(p)', imp'[p].req = imp[p].req
    PROVE  UNCHANGED InProgress
BY DEF View, ImportRequested

\* So does a command.
LEMMA StillCommanded ==
    ASSUME View, View', NEW o \in Operators, Busy(o), Busy(o)', ops'[o].req = ops[o].req
    PROVE  UNCHANGED InProgress
BY DEF View, CommandRequested

\* The last thing that a process does leaves nothing in progress.
LEMMA NoLongerAsked ==
    ASSUME Inv, SerialInv, View', NEW p \in Importers, Live(p), ~Live(p)', UNCHANGED ops,
           \A q \in Importers \ {p} : imp'[q] = imp[q]
    PROVE  InProgress' = None
BY AtWorkAlone DEF View, OnlyAttempt, Live, Busy

\* So does the last thing that a command does.
LEMMA NoLongerCommanded ==
    ASSUME Inv, SerialInv, View', NEW o \in Operators, Busy(o), ~Busy(o)', UNCHANGED imp,
           \A u \in Operators \ {o} : ops'[u] = ops[u]
    PROVE  InProgress' = None
BY AtWorkAlone DEF View, OnlyCommand, Live, Busy

\* An attempt or a command at work is asked something.
LEMMA SomethingAsked ==
    ASSUME Inv, SerialInv, View
    PROVE  /\ \A p \in Importers : Live(p) =>
                 /\ InProgress = ImportRequested(imp[p].req) /\ InProgress # None
                 /\ imp[p].req \in Request
           /\ \A o \in Operators : Busy(o) =>
                 /\ InProgress = CommandRequested(ops[o].req) /\ InProgress # None
                 /\ ops[o].req \in Command
<1>1. ASSUME NEW p \in Importers, Live(p)
      PROVE  /\ InProgress = ImportRequested(imp[p].req) /\ InProgress # None
             /\ imp[p].req \in Request
  <2>1. InProgress = ImportRequested(imp[p].req)
    BY <1>1 DEF View
  <2>2. imp[p].req \in Request
    BY <1>1 DEF Inv, AttemptOK, TypeOK, ImportTypeOK, Attempt, Live
  <2> QED
    BY <2>1, <2>2, CatalogAssumption
<1>2. ASSUME NEW o \in Operators, Busy(o)
      PROVE  /\ InProgress = CommandRequested(ops[o].req) /\ InProgress # None
             /\ ops[o].req \in Command
  <2>1. InProgress = CommandRequested(ops[o].req)
    BY <1>2 DEF View
  <2>2. ops[o].req \in Command
    BY <1>2, MaintenanceAssumption DEF SerialInv, CommandNow
  <2> QED
    BY <2>1, <2>2, CatalogAssumption
<1> QED
  BY <1>1, <1>2

\* A step of an attempt goes on with what was asked or ends it.
LEMMA AttemptProceeds ==
    ASSUME Inv, SerialInv, View, View', NEW p \in Importers, Live(p), UNCHANGED ops,
           \A q \in Importers \ {p} : imp'[q] = imp[q], Live(p)' => imp'[p].req = imp[p].req
    PROVE  InProgress' \in {InProgress, None}
<1>1. CASE Live(p)'
  BY <1>1, StillAsked
<1>2. CASE ~Live(p)'
  BY <1>2, NoLongerAsked
<1> QED
  BY <1>1, <1>2

\* So does a step of a command.
LEMMA CommandProceeds ==
    ASSUME Inv, SerialInv, View, View', NEW o \in Operators, Busy(o), UNCHANGED imp,
           \A u \in Operators \ {o} : ops'[u] = ops[u], Busy(o)' => ops'[o].req = ops[o].req
    PROVE  InProgress' \in {InProgress, None}
<1>1. CASE Busy(o)'
  BY <1>1, StillCommanded
<1>2. CASE ~Busy(o)'
  BY <1>2, NoLongerCommanded
<1> QED
  BY <1>1, <1>2

\* A step that nothing is to be seen of is no step of the catalog, or the end of
\* what was asked.
LEMMA Unseen ==
    ASSUME UNCHANGED <<ServedView, LiveView>>, InProgress # None,
           InProgress' \in {InProgress, None}
    PROVE  [Catalog!CatalogNext]_Catalog!catalogVars
BY DEF Catalog!CatalogNext, Catalog!End, Catalog!catalogVars, ServedView, LiveView

\* A step of an attempt is for what it was asked.
LEMMA AskedOnce ==
    ASSUME Inv, NEW p \in Importers, ImportStep(p) \/ ImportFault(p)
    PROVE  Live(p)' => imp'[p].req = imp[p].req
<1>1. imp \in [Importers -> Attempt] /\ imp[p] \in Attempt
  BY DEF Inv, TypeOK, ImportTypeOK
<1>2. CASE Raise(p) \/ Unrecorded(p) \/ \E l \in ImportEnded : Finish(p, l)
  <2>1. CASE Raise(p)
    BY <1>1, <2>1 DEF Raise, NewAttempt
  <2>2. CASE Unrecorded(p)
    BY <1>1, <2>2 DEF Unrecorded, NewAttempt, Live, TryBlock, Recording
  <2>3. ASSUME NEW l \in ImportEnded, Finish(p, l)
        PROVE  ~Live(p)'
    BY <1>1, <2>3 DEF Finish, NewAttempt, Live, TryBlock, Recording, ImportEnded
  <2> QED
    BY <1>2, <2>1, <2>2, <2>3
<1>3. CASE \E l : Goto(p, l)
  BY <1>3, GotoFields
<1>4. {"done", "failed", "crashed"} \subseteq ImportEnded
  BY DEF ImportEnded
<1>5. CASE ImportFault(p)
  BY <1>2, <1>4, <1>5 DEF ImportFault, DatabaseError, RecorderError, Crash
<1>6. CASE \/ SyncFamily(p) \/ RefuseActive(p) \/ OpenRun(p) \/ OpenRunFails(p) \/ PhaseA(p)
           \/ PhaseB1Fails(p) \/ SwapFails(p) \/ FinalizeCommitFails(p)
           \/ ActivateImportedFails(p) \/ ReportSkip(p) \/ Cleanup(p)
           \/ RecordCommit(p) \/ RecordCommitFails(p)
  BY <1>2, <1>3, <1>4, <1>6 DEF SyncFamily, RefuseActive, OpenRun, OpenRunFails, PhaseA,
     PhaseB1Fails, SwapFails, FinalizeCommitFails, ActivateImportedFails, ReportSkip, Cleanup,
     RecordCommit, RecordCommitFails
<1>7. CASE OpenNewRelease(p) \/ PhaseB1(p) \/ Swap(p) \/ FinalizeCommit(p)
  BY <1>1, <1>7 DEF OpenNewRelease, PhaseB1, Swap, FinalizeCommit, Attempt
<1>8. CASE LockTimeout(p)
  BY <1>1, <1>2, <1>8 DEF LockTimeout, Attempt
<1>9. CASE SkipUnchanged(p)
  <2>1. ASSUME NEW i, NEW c,
               imp' = [imp EXCEPT ![p].pc = "skipActivate", ![p].target = i, ![p].current = c]
        PROVE  imp'[p].req = imp[p].req
    BY <1>1, <2>1 DEF Attempt
  <2> QED
    BY <1>2, <1>4, <1>9, <2>1 DEF SkipUnchanged
<1>10. CASE OpenRelease(p)
  <2>1. ASSUME NEW i, NEW a,
               imp' = [imp EXCEPT ![p].pc = "openRun", ![p].rid = i, ![p].wasActive = a]
        PROVE  imp'[p].req = imp[p].req
    BY <1>1, <2>1 DEF Attempt
  <2> QED
    BY <1>10, <2>1 DEF OpenRelease
<1>11. CASE Finalize(p)
  <2>1. ASSUME NEW i, NEW r,
               imp' = [imp EXCEPT ![p].pc = "finalizeCommit", ![p].target = i, ![p].loaded = r]
        PROVE  imp'[p].req = imp[p].req
    BY <1>1, <2>1 DEF Attempt
  <2> QED
    BY <1>2, <1>11, <2>1 DEF Finalize
<1>12. CASE ReadBack(p)
  <2>1. ASSUME NEW i, NEW c,
               imp' = [imp EXCEPT ![p].pc = "activate", ![p].target = i, ![p].current = c]
        PROVE  imp'[p].req = imp[p].req
    BY <1>1, <2>1 DEF Attempt
  <2> QED
    BY <1>2, <1>3, <1>12, <2>1 DEF ReadBack
<1>13. CASE ActivateImported(p)
  <2>1. ASSUME NEW l, imp' = [imp EXCEPT ![p].pc = l, ![p].current = None]
        PROVE  imp'[p].req = imp[p].req
    BY <1>1, <2>1 DEF Attempt
  <2> QED
    BY <1>13, <2>1 DEF ActivateImported
<1>14. CASE Record(p)
  <2>1. ASSUME NEW i, NEW r,
               imp' = [imp EXCEPT ![p].pc = "recordCommit", ![p].target = i, ![p].loaded = r]
        PROVE  imp'[p].req = imp[p].req
    BY <1>1, <2>1 DEF Attempt
  <2> QED
    BY <1>14, <2>1 DEF Record
<1>15. CASE ReadRunId(p)
  <2>1. ASSUME imp' = [imp EXCEPT ![p].pc = "stage", ![p].runId = TRUE]
        PROVE  imp'[p].req = imp[p].req
    BY <1>1, <2>1 DEF Attempt
  <2> QED
    BY <1>2, <1>15, <2>1 DEF ReadRunId
<1> QED
  BY <1>5, <1>6, <1>7, <1>8, <1>9, <1>10, <1>11, <1>12, <1>13, <1>14, <1>15 DEF ImportStep

\* A step of a command is no step of another, and for what it was asked.
LEMMA CommandedOnce ==
    ASSUME Inv, NEW o \in Operators, OperatorStep(o) \/ Interrupt(o)
    PROVE  /\ \A u \in Operators \ {o} : ops'[u] = ops[u]
           /\ Busy(o)' => ops'[o].req = ops[o].req
<1>1. ops \in [Operators -> Invocation] /\ ops[o] \in Invocation
  BY DEF Inv, TypeOK, MaintenanceTypeOK
<1>2. CASE \E l \in OperatorEnded : EndOperation(o, l)
  BY <1>1, <1>2 DEF EndOperation, NewInvocation, Busy, OperatorEnded
<1>3. {"done", "failed", "crashed"} \subseteq OperatorEnded
  BY DEF OperatorEnded
<1>4. CASE \/ ActivateNothing(o) \/ ActivateCommit(o) \/ DeactivateCommit(o) \/ RemoveRow(o)
           \/ ValidateCommit(o) \/ CleanStaging(o) \/ UnknownRelease(o) \/ Interrupt(o)
           \/ DetachFails(o)
  BY <1>2, <1>3, <1>4 DEF ActivateNothing, ActivateCommit, DeactivateCommit, RemoveRow,
     ValidateCommit, CleanStaging, UnknownRelease, Interrupt, DetachFails
<1>5. CASE AwaitLock(o) \/ RemovePartition(o)
  BY <1>1, <1>5 DEF AwaitLock, RemovePartition, Invocation
<1>6. CASE ValidatePartition(o)
  BY <1>1, <1>2, <1>3, <1>6 DEF ValidatePartition, Invocation
<1>7. CASE Activate(o)
  <2>1. ASSUME NEW i, NEW c,
               ops' = [ops EXCEPT ![o].pc = "commit", ![o].rid = i, ![o].current = c]
        PROVE  ops'[o].req = ops[o].req /\ \A u \in Operators \ {o} : ops'[u] = ops[u]
    BY <1>1, <2>1 DEF Invocation
  <2> QED
    BY <1>7, <2>1 DEF Activate
<1>8. CASE Deactivate(o)
  <2>1. ASSUME NEW i, ops' = [ops EXCEPT ![o].pc = "commit", ![o].rid = i]
        PROVE  ops'[o].req = ops[o].req /\ \A u \in Operators \ {o} : ops'[u] = ops[u]
    BY <1>1, <2>1 DEF Invocation
  <2> QED
    BY <1>2, <1>3, <1>8, <2>1 DEF Deactivate
<1>9. CASE Remove(o)
  <2>1. ASSUME NEW i, NEW t,
               ops' = [ops EXCEPT ![o].pc = "drop", ![o].rid = i, ![o].prod = t]
        PROVE  ops'[o].req = ops[o].req /\ \A u \in Operators \ {o} : ops'[u] = ops[u]
    BY <1>1, <2>1 DEF Invocation
  <2> QED
    BY <1>2, <1>3, <1>9, <2>1 DEF Remove
<1>10. CASE Validate(o)
  <2>1. ASSUME NEW i, ops' = [ops EXCEPT ![o].pc = "check", ![o].rid = i]
        PROVE  ops'[o].req = ops[o].req /\ \A u \in Operators \ {o} : ops'[u] = ops[u]
    BY <1>1, <2>1 DEF Invocation
  <2> QED
    BY <1>2, <1>3, <1>10, <2>1 DEF Validate
<1> QED
  BY <1>4, <1>5, <1>6, <1>7, <1>8, <1>9, <1>10 DEF OperatorStep

-----------------------------------------------------------------------------
(* What a step shows                                                       *)

\* The one release whose row is shown otherwise is served otherwise.
LEMMA ServedChanges ==
    ASSUME View, View', NEW i \in Ids, rows[i] # None, rows[i].name \in Names, rows'[i] # None,
           \A j \in Ids : NameKept(j), \A j \in Ids \ {i} : ShownKept(j)
    PROVE  ServedView' = [ServedView EXCEPT ![rows[i].name] = Shown(i)']
<1> PICK m \in Names : m = rows[i].name
  OBVIOUS
<1>1. ServedRows(m)' = Shown(i)'
  <2>1. rows'[i].name = m
    BY DEF NameKept
  <2> QED
    BY <2>1 DEF View, Exists
<1>2. ASSUME NEW n \in Names, n # m
      PROVE  ServedRows(n)' = ServedRows(n)
  BY <1>2, ServedStays
<1> QED
  BY <1>1, <1>2 DEF ServedView

\* The family of a release that is ACTIVE after the step has it live.
LEMMA LiveChanges ==
    ASSUME View, View', NEW i \in Ids, rows[i] # None, FamilyOf[rows[i].name] \in Families,
           rows'[i] # None, rows'[i].state = "active", \A j \in Ids : NameKept(j),
           \A j \in Ids : rows[j] # None /\ FamilyOf[rows[j].name] # FamilyOf[rows[i].name]
                             => ActiveKept(j),
           \A j \in Ids : rows[j] = None => ActiveKept(j)
    PROVE  LiveView' = [LiveView EXCEPT ![FamilyOf[rows[i].name]] = rows[i].name]
<1> PICK g \in Families : g = FamilyOf[rows[i].name]
  OBVIOUS
<1>1. LiveRelease(g)' = rows[i].name
  <2>1. rows'[i].name = rows[i].name
    BY DEF NameKept
  <2> QED
    BY <2>1 DEF View, Exists
<1>2. ASSUME NEW f \in Families, f # g
      PROVE  LiveRelease(f)' = LiveRelease(f)
  <2>1. ASSUME NEW j \in Ids, \/ rows[j] # None /\ FamilyOf[rows[j].name] = f
                              \/ rows'[j] # None /\ FamilyOf[rows'[j].name] = f
        PROVE  ActiveKept(j)
    BY <1>2, <2>1 DEF NameKept
  <2> QED
    BY <2>1, LiveStays
<1> QED
  BY <1>1, <1>2 DEF LiveView

\* The family of a release that was ACTIVE and is not has none live.
LEMMA LiveEnds ==
    ASSUME Inv, View, View', NEW i \in Ids, rows[i] # None, rows[i].state = "active",
           FamilyOf[rows[i].name] \in Families,
           rows'[i] # None => rows'[i].state # "active",
           \A j \in Ids : NameKept(j), \A j \in Ids \ {i} : ActiveKept(j)
    PROVE  LiveView' = [LiveView EXCEPT ![FamilyOf[rows[i].name]] = None]
<1> PICK g \in Families : g = FamilyOf[rows[i].name]
  OBVIOUS
<1>1. LiveRelease(g)' = None
  <2>1. \A j \in Ids : rows[j] # None /\ rows[j].state = "active"
                         /\ FamilyOf[rows[j].name] = g => j = i
    BY DEF Inv, OneActivePerFamily, UniqueActive
  <2>2. ActiveIds(g)' = {}
    <3>1. ASSUME NEW j \in Ids, rows'[j] # None, rows'[j].state = "active",
                 FamilyOf[rows'[j].name] = g
          PROVE  FALSE
      BY <2>1, <3>1 DEF NameKept, ActiveKept
    <3> QED
      BY <3>1 DEF ActiveIds, Exists, FamilyOfId
  <2> QED
    BY <2>2 DEF View
<1>2. ASSUME NEW f \in Families, f # g
      PROVE  LiveRelease(f)' = LiveRelease(f)
  <2>1. ASSUME NEW j \in Ids, \/ rows[j] # None /\ FamilyOf[rows[j].name] = f
                              \/ rows'[j] # None /\ FamilyOf[rows'[j].name] = f
        PROVE  ActiveKept(j)
    BY <1>2, <2>1 DEF NameKept
  <2> QED
    BY <2>1, LiveStays
<1> QED
  BY <1>1, <1>2 DEF LiveView

\* Where no row changes its state nobody goes live and nobody stops being it.
LEMMA LiveAsItIs ==
    ASSUME View, View', \A j \in Ids : NameKept(j) /\ ActiveKept(j)
    PROVE  UNCHANGED LiveView
BY LiveStays DEF LiveView

\* Where no row changes what it shows, queries are answered from what they were.
LEMMA ServedAsItIs ==
    ASSUME View, View', \A j \in Ids : NameKept(j) /\ ShownKept(j)
    PROVE  UNCHANGED ServedView
BY ServedStays DEF ServedView

\* A release that exists is one the code defines.
LEMMA NamesAndFamilies ==
    ASSUME Inv
    PROVE  \A i \in Ids : rows[i] # None =>
              /\ rows[i] \in Row /\ rows[i].name \in Names
              /\ FamilyOf[rows[i].name] \in Families
BY RegistryAssumption DEF Inv, TypeOK, RegistryTypeOK, Row

-----------------------------------------------------------------------------
(* Attempts                                                                *)

\* A step of the abstract catalog, or none.
CatalogStep == [Catalog!CatalogNext]_Catalog!catalogVars

\* What is in progress before and after a step of an attempt.
LEMMA AttemptInProgress ==
    ASSUME Inv, SerialInv, View, View', NEW p \in Importers, ImportStep(p) \/ ImportFault(p),
           UNCHANGED ops
    PROVE  /\ InProgress = ImportRequested(imp[p].req) /\ InProgress # None
           /\ imp[p].req \in Request
           /\ InProgress' \in {InProgress, None}
BY SomethingAsked, StepperIsLive, OneMoves, AskedOnce, AttemptProceeds

\* Most steps of an attempt touch neither a row nor a partition.
LEMMA QuietAttemptSeen ==
    ASSUME Inv, SerialInv, View, View', NEW p \in Importers, ImportStep(p) \/ ImportFault(p),
           UNCHANGED <<rows, partition, ops>>
    PROVE  CatalogStep
BY AttemptInProgress, TablesUnseen, Unseen DEF CatalogStep

\* A release that is opened is not built.
LEMMA OpenRunSeen ==
    ASSUME Inv, SerialInv, View, View', NEW p \in Importers, OpenRun(p), UNCHANGED ops
    PROVE  CatalogStep
<1>1. ImportStep(p)
  BY DEF ImportStep
<1>2. CASE imp[p].rid # p
  BY <1>1, <1>2, QuietAttemptSeen DEF OpenRun
<1>3. CASE imp[p].rid = p
  <2>1. /\ rows' = [rows EXCEPT ![p] = NewRow(imp[p].req.name)] /\ p \in Ids
        /\ rows \in [Ids -> Row \cup {None}] /\ UNCHANGED partition
    BY <1>3 DEF OpenRun, Ids, Inv, TypeOK, RegistryTypeOK
  <2>2. rows[p] = None
    BY <1>3, <2>1 DEF OpenRun, At, Inv, RowsOK, Issued, Exists
  <2>3. rows'[p].state = "registered"
    BY <2>1 DEF NewRow
  <2>4. \A j \in Ids : j # p => rows'[j] = rows[j]
    BY <2>1
  <2>5. \A j \in Ids : NameKept(j) /\ ShownKept(j) /\ ActiveKept(j)
    BY <2>1, <2>2, <2>3, <2>4 DEF NameKept, ShownKept, ActiveKept, Shown, Built
  <2> QED
    BY <1>1, <2>5, NothingSeen, AttemptInProgress, Unseen DEF CatalogStep
<1> QED
  BY <1>2, <1>3

\* What Publish asks for.
LEMMA PublishStep ==
    ASSUME NEW q \in Request, InProgress = ImportRequested(q), InProgress # None, Checked(q.src),
           LiveView[FamilyOf[q.name]] = q.name => q.mode = "force",
           ServedView' = [ServedView EXCEPT ![q.name] = q.src], UNCHANGED LiveView,
           InProgress' \in {InProgress, None}
    PROVE  CatalogStep
<1>1. /\ InProgress.kind = "import" /\ InProgress.name = q.name /\ InProgress.src = q.src
      /\ InProgress.force = (q.mode = "force")
  BY DEF ImportRequested
<1>2. q.src \in {t \in Sources : StagingStatus[t] # "failed" /\ ProductionStatus[t] # "failed"}
  BY DEF Checked, Request
<1>3. Catalog!Publish
  BY <1>1, <1>2 DEF Catalog!Publish, Catalog!For, Catalog!IsLive, Catalog!Proceeds, ServedView,
                    LiveView
<1> QED
  BY <1>3 DEF CatalogStep, Catalog!CatalogNext

\* The swap publishes the rows of a release that is built.
LEMMA SwapSeen ==
    ASSUME Inv, SerialInv, View, View', NEW p \in Importers, Swap(p), UNCHANGED ops
    PROVE  CatalogStep
<1> DEFINE q == imp[p].req
<1> PICK i \in Ids : i = imp[p].rid
  BY DEF Swap, SerialInv, AttemptNow, At, OwnRelease, Found
<1>1. ImportStep(p)
  BY DEF ImportStep
<1>2. /\ OwnRelease(p) /\ incoming[i] = q.src /\ Checked(q.src)
      /\ partition \in [Ids -> Sources \cup {None}] /\ UNCHANGED rows
  BY DEF Swap, SerialInv, AttemptNow, At, Inv, TypeOK, RegistryTypeOK
<1>3. /\ rows[i] # None /\ rows[i].name = q.name /\ (rows[i].state = "active" => q.mode = "force")
  BY <1>2 DEF OwnRelease, Found, Exists
<1>4. partition' = [partition EXCEPT ![i] = q.src]
  BY <1>2 DEF Swap
<1>5. \A j \in Ids : NameKept(j) /\ ActiveKept(j)
  BY <1>2 DEF NameKept, ActiveKept
<1>6. \A j \in Ids \ {i} : ShownKept(j)
  BY <1>2, <1>4 DEF ShownKept, Shown
<1>7. CASE rows[i].state \in Built
  <2>1. Shown(i)' = q.src
    BY <1>2, <1>4, <1>7, AttemptInProgress, <1>1, RegistryAssumption DEF Shown, Request
  <2>2. ServedView' = [ServedView EXCEPT ![q.name] = q.src]
    BY <1>2, <1>3, <1>5, <1>6, <2>1, ServedChanges, NamesAndFamilies
  <2>3. LiveView[FamilyOf[q.name]] = q.name => q.mode = "force"
    BY <1>3, LiveIsActive, NamesAndFamilies DEF LiveView
  <2> QED
    BY <1>1, <1>2, <1>5, <2>2, <2>3, LiveAsItIs, AttemptInProgress, PublishStep
<1>8. CASE rows[i].state \notin Built
  <2>1. ShownKept(i)
    BY <1>2, <1>3, <1>8 DEF ShownKept, Shown
  <2> QED
    BY <1>1, <1>5, <1>6, <2>1, NothingSeen, AttemptInProgress, Unseen DEF CatalogStep
<1> QED
  BY <1>7, <1>8

\* The finalize commit publishes the rows of one that was not, and is not seen
\* where it was.
LEMMA FinalizeCommitSeen ==
    ASSUME Inv, SerialInv, View, View', NEW p \in Importers, FinalizeCommit(p), UNCHANGED ops
    PROVE  CatalogStep
<1> DEFINE q == imp[p].req
           r == FinalRow(p)
<1>0. OwnRelease(p) /\ rows' = [rows EXCEPT ![imp[p].rid] = r] /\ imp[p].imported = q.src
      /\ partition[imp[p].rid] = q.src /\ UNCHANGED partition
  BY FinalizeEffect
<1> PICK i \in Ids : i = imp[p].rid
  BY <1>0 DEF OwnRelease, Found
<1>1. ImportStep(p)
  BY DEF ImportStep
<1>2. /\ rows' = [rows EXCEPT ![i] = r] /\ partition[i] = q.src /\ Checked(q.src)
      /\ rows \in [Ids -> Row \cup {None}] /\ r # None
  <2>1. Checked(q.src)
    BY DEF FinalizeCommit, SerialInv, AttemptNow, At
  <2>2. r # None
    BY FinalRowType, RegistryAssumption
  <2> QED
    BY <1>0, <2>1, <2>2 DEF Inv, TypeOK, RegistryTypeOK
<1>3. /\ rows[i] # None /\ rows[i].name = q.name /\ (rows[i].state = "active" => q.mode = "force")
      /\ (imp[p].wasActive <=> rows[i].state = "active")
  BY <1>0 DEF OwnRelease, Found, Exists
<1>4. /\ r.name = q.name /\ r.state \in Built
      /\ (r.state = "active" <=> rows[i].state = "active")
  BY <1>3 DEF FinalRow, FinalState, Built
<1> HIDE DEF r
<1>5. rows'[i] = r /\ \A j \in Ids \ {i} : rows'[j] = rows[j]
  BY <1>2
<1>6. \A j \in Ids : NameKept(j) /\ ActiveKept(j)
  BY <1>2, <1>3, <1>4, <1>5 DEF NameKept, ActiveKept
<1>7. \A j \in Ids \ {i} : ShownKept(j)
  BY <1>0, <1>5 DEF ShownKept, Shown
<1>8. q.src # None
  BY <1>1, AttemptInProgress, RegistryAssumption DEF Request
<1>9. Shown(i)' = q.src
  BY <1>0, <1>2, <1>4, <1>5, <1>8 DEF Shown
<1>10. CASE rows[i].state \in Built
  <2>1. ShownKept(i)
    BY <1>2, <1>3, <1>5, <1>8, <1>9, <1>10 DEF ShownKept, Shown
  <2> QED
    BY <1>1, <1>6, <1>7, <2>1, NothingSeen, AttemptInProgress, Unseen DEF CatalogStep
<1>11. CASE rows[i].state \notin Built
  <2>1. ServedView' = [ServedView EXCEPT ![q.name] = q.src]
    BY <1>2, <1>3, <1>5, <1>6, <1>7, <1>9, ServedChanges, NamesAndFamilies
  <2>2. LiveView[FamilyOf[q.name]] = q.name => q.mode = "force"
    BY <1>3, LiveIsActive, NamesAndFamilies DEF LiveView
  <2> QED
    BY <1>1, <1>2, <1>6, <2>1, <2>2, LiveAsItIs, AttemptInProgress, PublishStep
<1> QED
  BY <1>10, <1>11

\* What a failure recorder writes is not seen.
LEMMA RecordCommitSeen ==
    ASSUME Inv, SerialInv, View, View', NEW p \in Importers, RecordCommit(p), UNCHANGED ops
    PROVE  CatalogStep
<1>1. ImportStep(p) /\ UNCHANGED partition
  BY DEF ImportStep, RecordCommit
<1>2. CASE UNCHANGED rows
  BY <1>1, <1>2, QuietAttemptSeen
<1>3. ASSUME NEW i \in Ids, Exists(i), rows' = [rows EXCEPT ![i] = RecordedRow(rows[i])],
             RecordedRow(rows[i]) \in Row,
             RecordedState(rows[i]) # rows[i].state =>
                 RecordedState(rows[i]) = "failed" /\ rows[i].state \in {"registered", "failed"}
      PROVE  CatalogStep
  <2> DEFINE r == RecordedRow(rows[i])
  <2>1. /\ r # None /\ r.name = rows[i].name
        /\ \/ r.state = rows[i].state
           \/ r.state = "failed" /\ rows[i].state \in {"registered", "failed"}
    BY <1>3, RegistryAssumption DEF RecordedRow
  <2> HIDE DEF r
  <2>2. rows'[i] = r /\ rows[i] # None /\ \A j \in Ids \ {i} : rows'[j] = rows[j]
    BY <1>3 DEF Inv, TypeOK, RegistryTypeOK, Exists, r
  <2>3. \A j \in Ids \ {i} : NameKept(j) /\ ShownKept(j) /\ ActiveKept(j)
    BY <1>1, <2>2 DEF NameKept, ShownKept, ActiveKept, Shown
  <2>4. NameKept(i) /\ ShownKept(i) /\ ActiveKept(i)
    BY <1>1, <2>1, <2>2 DEF NameKept, ShownKept, ActiveKept, Shown, Built
  <2> QED
    BY <1>1, <2>3, <2>4, NothingSeen, AttemptInProgress, Unseen DEF CatalogStep
<1> QED
  BY <1>2, <1>3, RecordEffect

\* What GoLive asks for, of an import or a command.
LEMMA GoLiveStep ==
    ASSUME InProgress # None, InProgress.kind \in {"import", "activate"}, InProgress.activate,
           NEW n \in Names, InProgress.name = n, ServedView[n] # None,
           LiveView' = [LiveView EXCEPT ![FamilyOf[n]] = n], UNCHANGED ServedView,
           InProgress' \in {InProgress, None}
    PROVE  CatalogStep
<1>1. Catalog!GoLive
  BY DEF Catalog!GoLive, Catalog!For, Catalog!Proceeds, ServedView, LiveView
<1> QED
  BY <1>1 DEF CatalogStep, Catalog!CatalogNext

\* An activation makes the release live, and is seen in no other family.
LEMMA ActivationSeen ==
    ASSUME Inv, SerialInv, View, View', NEW i \in Ids, NEW c, NEW n, Found(i, n, Activatable),
           Supersedes(c, n), ActivationCommits(i, c), rows' = WithActive(i, c), UNCHANGED partition
    PROVE  /\ n \in Names /\ ServedView[n] # None
           /\ LiveView' = [LiveView EXCEPT ![FamilyOf[n]] = n] /\ UNCHANGED ServedView
<1>1. rows[i] # None /\ rows[i].name = n /\ rows[i].state \in Activatable
  BY DEF Found, Exists
<1>2. n \in Names /\ FamilyOf[n] \in Families
  BY <1>1, NamesAndFamilies
<1>3. c # None => /\ c \in Ids /\ rows[c] # None /\ FamilyOf[rows[c].name] = FamilyOf[n]
                  /\ rows[c].state = "active"
  BY DEF Supersedes, ActiveIds, FamilyOfId, Exists
<1>4. \A j \in Ids : j # None
  BY RegistryAssumption
<1>5. \A j \in Ids :
         /\ rows'[j] # None <=> rows[j] # None
         /\ rows[j] # None =>
               /\ rows'[j].name = rows[j].name
               /\ rows'[j].state = IF j = i THEN "active"
                                   ELSE IF j = c THEN "superseded" ELSE rows[j].state
  BY ActivationEffect
<1>6. \A j \in Ids : NameKept(j) /\ ShownKept(j)
  <2> TAKE j \in Ids
  <2>1. rows[j] # None => (rows'[j].state \in Built <=> rows[j].state \in Built)
    BY <1>1, <1>3, <1>4, <1>5 DEF Built, Activatable
  <2> QED
    BY <1>5, <2>1 DEF NameKept, ShownKept, Shown
<1>7. \A j \in Ids : rows[j] # None /\ FamilyOf[rows[j].name] # FamilyOf[rows[i].name]
                        => ActiveKept(j)
  BY <1>1, <1>3, <1>4, <1>5 DEF ActiveKept
<1>8. \A j \in Ids : rows[j] = None => ActiveKept(j)
  BY <1>5 DEF ActiveKept
<1>9. rows'[i] # None /\ rows'[i].state = "active"
  BY <1>1, <1>5
<1>10. LiveView' = [LiveView EXCEPT ![FamilyOf[n]] = n]
  BY <1>1, <1>2, <1>6, <1>7, <1>8, <1>9, LiveChanges
<1>11. Shown(i) # None
  BY <1>1, CatalogAssumption DEF Shown, Activatable, Built
<1>12. ServedView[n] # None
  BY <1>1, <1>2, <1>11 DEF ServedView, View, Exists
<1> QED
  BY <1>2, <1>6, <1>10, <1>12, ServedAsItIs

\* The activation at the end of an import or after a skip.
LEMMA ActivateImportedSeen ==
    ASSUME Inv, SerialInv, View, View', NEW p \in Importers, ActivateImported(p), UNCHANGED ops
    PROVE  CatalogStep
<1> DEFINE q == imp[p].req
           i == imp[p].target
           c == imp[p].current
<1>1. /\ ImportStep(p) /\ ActivationCommits(i, c) /\ rows' = WithActive(i, c)
      /\ UNCHANGED partition
  BY DEF ImportStep, ActivateImported
<1>2. i \in Ids /\ Found(i, q.name, Activatable) /\ Supersedes(c, q.name) /\ q.activate
  BY DEF ActivateImported, SerialInv, AttemptNow, At, Published, Found, Activatable
<1>3. /\ InProgress = ImportRequested(q) /\ InProgress # None /\ InProgress' \in {InProgress, None}
  BY <1>1, AttemptInProgress
<1>4. InProgress.kind = "import" /\ InProgress.activate /\ InProgress.name = q.name
  BY <1>2, <1>3 DEF ImportRequested
<1> HIDE DEF i, c
<1>5. /\ q.name \in Names /\ ServedView[q.name] # None
      /\ LiveView' = [LiveView EXCEPT ![FamilyOf[q.name]] = q.name] /\ UNCHANGED ServedView
  BY <1>1, <1>2, ActivationSeen
<1> QED
  BY <1>3, <1>4, <1>5, GoLiveStep

\* Every step of an attempt.
LEMMA AttemptSeen ==
    ASSUME Inv, SerialInv, View, View', NEW p \in Importers, ImportStep(p) \/ ImportFault(p),
           UNCHANGED ops
    PROVE  CatalogStep
<1>1. CASE AttemptWrites(p) \/ Swap(p)
  BY <1>1, OpenRunSeen, FinalizeCommitSeen, ActivateImportedSeen, RecordCommitSeen, SwapSeen
     DEF AttemptWrites
<1>2. CASE ~AttemptWrites(p) /\ ~Swap(p)
  <2>1. UNCHANGED <<rows, partition>>
    <3>1. CASE ImportFault(p)
      BY <3>1 DEF ImportFault, DatabaseError, RecorderError, Crash, registryVars
    <3>2. CASE SyncFamily(p) \/ PhaseA(p) \/ PhaseB1(p) \/ Cleanup(p)
      BY <3>2 DEF SyncFamily, PhaseA, PhaseB1, Cleanup
    <3>3. CASE \/ OpenNewRelease(p) \/ SkipUnchanged(p) \/ RefuseActive(p) \/ OpenRelease(p)
               \/ OpenRunFails(p) \/ ReadRunId(p) \/ ReportSkip(p) \/ PhaseB1Fails(p) \/ SwapFails(p) \/ LockTimeout(p)
               \/ Finalize(p) \/ FinalizeCommitFails(p) \/ ReadBack(p) \/ ActivateImportedFails(p)
               \/ Record(p) \/ RecordCommitFails(p)
      BY <3>3 DEF OpenNewRelease, SkipUnchanged, RefuseActive, OpenRelease, OpenRunFails,
         ReadRunId, ReportSkip,
         PhaseB1Fails, SwapFails, LockTimeout, Finalize, FinalizeCommitFails, ReadBack,
         ActivateImportedFails, Record, RecordCommitFails, registryVars
    <3> QED
      BY <1>2, <3>1, <3>2, <3>3 DEF ImportStep, AttemptWrites
  <2> QED
    BY <2>1, QuietAttemptSeen
<1> QED
  BY <1>1, <1>2

-----------------------------------------------------------------------------
(* Commands                                                                *)

\* What is in progress before and after a step of a command.
LEMMA CommandInProgress ==
    ASSUME Inv, SerialInv, View, View', NEW o \in Operators, OperatorStep(o) \/ Interrupt(o),
           UNCHANGED imp
    PROVE  /\ InProgress = CommandRequested(ops[o].req) /\ InProgress # None
           /\ ops[o].req \in Command
           /\ InProgress' \in {InProgress, None}
BY SomethingAsked, CommanderIsBusy, CommandedOnce, CommandProceeds

\* Most steps of a command touch neither a row nor a partition.
LEMMA QuietCommandSeen ==
    ASSUME Inv, SerialInv, View, View', NEW o \in Operators, OperatorStep(o) \/ Interrupt(o),
           UNCHANGED <<rows, partition, imp>>
    PROVE  CatalogStep
BY CommandInProgress, TablesUnseen, Unseen DEF CatalogStep

\* The commit of `activate` is the catalog's activation, or fails unseen.
LEMMA ActivateCommitSeen ==
    ASSUME Inv, SerialInv, View, View', NEW o \in Operators, ActivateCommit(o), UNCHANGED imp
    PROVE  CatalogStep
<1> DEFINE q == ops[o].req
           i == ops[o].rid
           c == ops[o].current
<1>1. OperatorStep(o) /\ UNCHANGED partition /\ q.kind = "activate"
  BY DEF OperatorStep, ActivateCommit, Asked
<1>2. CASE UNCHANGED rows
  BY <1>1, <1>2, QuietCommandSeen
<1>3. CASE ActivationCommits(i, c) /\ rows' = WithActive(i, c)
  <2>1. i \in Ids /\ Found(i, q.name, Activatable) /\ Supersedes(c, q.name)
    BY DEF ActivateCommit, SerialInv, CommandNow, Found
  <2>2. /\ InProgress = CommandRequested(q) /\ InProgress # None
        /\ InProgress' \in {InProgress, None}
    BY <1>1, CommandInProgress
  <2>3. InProgress.kind = "activate" /\ InProgress.activate /\ InProgress.name = q.name
    BY <1>1, <2>2 DEF CommandRequested
  <2> HIDE DEF i, c
  <2>4. /\ q.name \in Names /\ ServedView[q.name] # None
        /\ LiveView' = [LiveView EXCEPT ![FamilyOf[q.name]] = q.name] /\ UNCHANGED ServedView
    BY <1>1, <1>3, <2>1, ActivationSeen
  <2> QED
    BY <2>2, <2>3, <2>4, GoLiveStep
<1> QED
  BY <1>2, <1>3 DEF ActivateCommit

\* `deactivate` retracts the release that is live.
LEMMA DeactivateCommitSeen ==
    ASSUME Inv, SerialInv, View, View', NEW o \in Operators, DeactivateCommit(o), UNCHANGED imp
    PROVE  CatalogStep
<1> DEFINE q == ops[o].req
<1> PICK i \in Ids : i = ops[o].rid
  BY DeactivateEffect DEF Found
<1> DEFINE r == WithState(rows[i], "superseded")
<1>1. OperatorStep(o) /\ UNCHANGED partition /\ q.kind = "deactivate"
  BY DEF OperatorStep, DeactivateCommit, Asked
<1>2. /\ rows[i] # None /\ rows[i].name = q.name /\ rows[i].state = "active"
      /\ rows' = [rows EXCEPT ![i] = r] /\ r # None /\ r.name = rows[i].name
      /\ r.state = "superseded" /\ rows \in [Ids -> Row \cup {None}]
  BY DeactivateEffect, RegistryAssumption DEF Found, Exists, Inv, TypeOK, RegistryTypeOK
<1> HIDE DEF r
<1>3. rows'[i] = r /\ \A j \in Ids \ {i} : rows'[j] = rows[j]
  BY <1>2
<1>4. \A j \in Ids \ {i} : NameKept(j) /\ ShownKept(j) /\ ActiveKept(j)
  BY <1>1, <1>3 DEF NameKept, ShownKept, ActiveKept, Shown
<1>5. NameKept(i) /\ ShownKept(i)
  BY <1>1, <1>2, <1>3 DEF NameKept, ShownKept, Shown, Built
<1>6. q.name \in Names /\ FamilyOf[q.name] \in Families
  BY <1>2, NamesAndFamilies
<1>7. LiveView[FamilyOf[q.name]] = q.name
  BY <1>2, <1>6, LiveIsActive DEF LiveView
<1>8. LiveView' = [LiveView EXCEPT ![FamilyOf[q.name]] = None]
  BY <1>2, <1>3, <1>4, <1>5, <1>6, LiveEnds
<1>9. UNCHANGED ServedView
  BY <1>4, <1>5, ServedAsItIs
<1>10. /\ InProgress = CommandRequested(q) /\ InProgress # None
       /\ InProgress' \in {InProgress, None}
  BY <1>1, CommandInProgress
<1>11. InProgress.kind = "deactivate" /\ InProgress.name = q.name
  BY <1>1, <1>10 DEF CommandRequested
<1>12. Catalog!Retract
  BY <1>7, <1>8, <1>9, <1>10, <1>11
     DEF Catalog!Retract, Catalog!For, Catalog!IsLive, Catalog!Proceeds, ServedView, LiveView
<1> QED
  BY <1>12 DEF CatalogStep, Catalog!CatalogNext

\* What a removal knows of its release.
LEMMA RemovalKnows ==
    ASSUME Inv, SerialInv, View, View', NEW o \in Operators, UNCHANGED imp,
           RemovePartition(o) \/ RemoveRow(o)
    PROVE  LET q == ops[o].req  i == ops[o].rid IN
           /\ i \in Ids /\ rows[i] # None /\ rows[i].name = q.name /\ q.name \in Names
           /\ FamilyOf[q.name] \in Families
           /\ LiveView[FamilyOf[q.name]] = q.name <=> rows[i].state = "active"
           /\ rows[i].state = "active" => q.force
           /\ rows[i].state \in Built => ops[o].prod
           /\ ServedView[q.name] = Shown(i)
           /\ InProgress # None /\ InProgress' \in {InProgress, None}
           /\ InProgress.kind = "remove" /\ InProgress.name = q.name
           /\ InProgress.force = q.force
<1> DEFINE q == ops[o].req
           i == ops[o].rid
<1>1. /\ OperatorStep(o)
      /\ Asked(o, "drop", "remove") \/ Asked(o, "wait", "remove") \/ Asked(o, "delete", "remove")
  BY DEF OperatorStep, RemovePartition, RemoveRow
<1>2. Found(i, q.name, States) /\ (rows[i].state = "active" => q.force)
      /\ (ops[o].prod <=> rows[i].table)
  BY <1>1 DEF SerialInv, CommandNow, Asked
<1>3. i \in Ids /\ rows[i] # None /\ rows[i].name = q.name
  BY <1>2 DEF Found, Exists
<1> HIDE DEF i
<1>4. q.name \in Names /\ FamilyOf[q.name] \in Families
  BY <1>3, NamesAndFamilies
<1>5. LiveView[FamilyOf[q.name]] = q.name <=> rows[i].state = "active"
  BY <1>3, <1>4, LiveIsActive DEF LiveView
<1>6. rows[i].state \in Built => ops[o].prod
  BY <1>2, <1>3 DEF Inv, RowsOK, Exists
<1>7. ServedView[q.name] = Shown(i)
  BY <1>3, <1>4 DEF ServedView, View, Exists
<1>8. InProgress = CommandRequested(q) /\ InProgress # None /\ InProgress' \in {InProgress, None}
  BY <1>1, CommandInProgress
<1>9. InProgress.kind = "remove" /\ InProgress.name = q.name /\ InProgress.force = q.force
  BY <1>1, <1>8 DEF CommandRequested, Asked
<1> QED
  BY <1>2, <1>3, <1>4, <1>5, <1>6, <1>7, <1>8, <1>9 DEF i

\* The drop of a partition is seen if its release is built.
LEMMA RemovePartitionSeen ==
    ASSUME Inv, SerialInv, View, View', NEW o \in Operators, RemovePartition(o), UNCHANGED imp
    PROVE  CatalogStep
<1> DEFINE q == ops[o].req
<1> PICK i \in Ids : i = ops[o].rid
  BY RemovalKnows
<1>1. /\ rows[i] # None /\ rows[i].name = q.name /\ q.name \in Names
      /\ LiveView[FamilyOf[q.name]] = q.name <=> rows[i].state = "active"
      /\ rows[i].state = "active" => q.force
      /\ rows[i].state \in Built => ops[o].prod
      /\ ServedView[q.name] = Shown(i)
      /\ InProgress # None /\ InProgress' \in {InProgress, None}
      /\ InProgress.kind = "remove" /\ InProgress.name = q.name /\ InProgress.force = q.force
  BY RemovalKnows
<1>2. /\ OperatorStep(o) /\ UNCHANGED rows /\ partition \in [Ids -> Sources \cup {None}]
      /\ partition' = IF ops[o].prod THEN [partition EXCEPT ![i] = None] ELSE partition
  BY DEF OperatorStep, RemovePartition, Inv, TypeOK, RegistryTypeOK
<1>3. \A j \in Ids : NameKept(j) /\ ActiveKept(j)
  BY <1>2 DEF NameKept, ActiveKept
<1>4. \A j \in Ids \ {i} : ShownKept(j)
  <2>1. \A j \in Ids \ {i} : partition'[j] = partition[j]
    BY <1>2
  <2> QED
    BY <1>2, <2>1 DEF ShownKept, Shown
<1>5. CASE rows[i].state \in Built /\ partition[i] # None
  <2>1. Shown(i)' = "gone"
    BY <1>1, <1>2, <1>5 DEF Shown
  <2>2. ServedView' = [ServedView EXCEPT ![q.name] = "gone"]
    BY <1>1, <1>2, <1>3, <1>4, <2>1, ServedChanges
  <2>3. Shown(i) \notin {None, "gone"}
    BY <1>2, <1>5, CatalogAssumption DEF Shown
  <2>4. Catalog!Drop
    BY <1>1, <1>3, <2>2, <2>3, LiveAsItIs
       DEF Catalog!Drop, Catalog!For, Catalog!IsLive, Catalog!Gone, Catalog!Proceeds, ServedView,
           LiveView
  <2> QED
    BY <2>4 DEF CatalogStep, Catalog!CatalogNext
<1>6. CASE ~(rows[i].state \in Built /\ partition[i] # None)
  <2>1. ShownKept(i)
    BY <1>1, <1>2, <1>6 DEF ShownKept, Shown
  <2> QED
    BY <1>1, <1>3, <1>4, <2>1, NothingSeen, Unseen DEF CatalogStep
<1> QED
  BY <1>5, <1>6

\* With its row a release is forgotten.
LEMMA RemoveRowSeen ==
    ASSUME Inv, SerialInv, View, View', NEW o \in Operators, RemoveRow(o), UNCHANGED imp
    PROVE  CatalogStep
<1> DEFINE q == ops[o].req
<1> PICK i \in Ids : i = ops[o].rid
  BY RemovalKnows
<1> PICK n \in Names : n = q.name
  BY RemovalKnows
<1>1. /\ rows[i] # None /\ rows[i].name = n /\ FamilyOf[n] \in Families
      /\ LiveView[FamilyOf[n]] = n <=> rows[i].state = "active"
      /\ rows[i].state = "active" => q.force
      /\ rows[i].state \in Built => ops[o].prod
      /\ ServedView[n] = Shown(i)
      /\ InProgress # None /\ InProgress' \in {InProgress, None}
      /\ InProgress.kind = "remove" /\ InProgress.name = n /\ InProgress.force = q.force
  BY RemovalKnows
<1>2. /\ OperatorStep(o) /\ UNCHANGED partition /\ rows \in [Ids -> Row \cup {None}]
      /\ rows' = [rows EXCEPT ![i] = None]
      /\ ops[o].prod => partition[i] = None
  BY DEF OperatorStep, RemoveRow, Inv, TypeOK, RegistryTypeOK, SerialInv, CommandNow
<1>3. rows'[i] = None /\ \A j \in Ids \ {i} : rows'[j] = rows[j]
  BY <1>2
<1>4. \A j \in Ids : NameKept(j)
  BY <1>3 DEF NameKept
<1>5. \A j \in Ids \ {i} : ShownKept(j) /\ ActiveKept(j)
  BY <1>2, <1>3 DEF ShownKept, ActiveKept, Shown
<1>6. ServedView' = [ServedView EXCEPT ![n] = None]
  <2>1. ServedRows(n)' = None
    <3>1. \A j \in Ids : rows[j] # None /\ rows[j].name = n => j = i
      BY <1>1 DEF SerialInv, NamesAreUnique, Exists
    <3>2. IdsNamed(n)' = {}
      BY <1>3, <3>1 DEF IdsNamed, Exists
    <3> QED
      BY <3>2 DEF View
  <2>2. ASSUME NEW m \in Names, m # n
        PROVE  ServedRows(m)' = ServedRows(m)
    <3>1. rows[i] # None
      BY <1>1
    <3> QED
      BY <1>1, <1>4, <1>5, <2>2, ServedStays
  <2> QED
    BY <2>1, <2>2 DEF ServedView
<1>7. CASE rows[i].state \in Built
  <2>1. ServedView[n] = "gone"
    BY <1>1, <1>2, <1>7 DEF Shown
  <2>2. CASE rows[i].state = "active"
    <3>1. LiveView' = [LiveView EXCEPT ![FamilyOf[n]] = None]
      BY <1>1, <1>3, <1>4, <1>5, <2>2, LiveEnds
    <3>2. Catalog!Forget
      BY <1>1, <1>6, <2>1, <2>2, <3>1
         DEF Catalog!Forget, Catalog!For, Catalog!IsLive, Catalog!Gone, Catalog!Proceeds,
             ServedView, LiveView
    <3> QED
      BY <3>2 DEF CatalogStep, Catalog!CatalogNext
  <2>3. CASE rows[i].state # "active"
    <3>1. ActiveKept(i)
      BY <1>3, <2>3 DEF ActiveKept
    <3>2. UNCHANGED LiveView
      BY <1>4, <1>5, <3>1, LiveAsItIs
    <3>3. Catalog!Forget
      BY <1>1, <1>6, <2>1, <2>3, <3>2
         DEF Catalog!Forget, Catalog!For, Catalog!IsLive, Catalog!Gone, Catalog!Proceeds,
             ServedView, LiveView
    <3> QED
      BY <3>3 DEF CatalogStep, Catalog!CatalogNext
  <2> QED
    BY <2>2, <2>3
<1>8. CASE rows[i].state \notin Built
  <2>1. ActiveKept(i)
    BY <1>3, <1>8 DEF ActiveKept, Built
  <2>2. UNCHANGED LiveView
    BY <1>4, <1>5, <2>1, LiveAsItIs
  <2>3. UNCHANGED ServedView
    BY <1>1, <1>6, <1>8 DEF Shown, ServedView
  <2> QED
    BY <1>1, <2>2, <2>3, Unseen DEF CatalogStep
<1> QED
  BY <1>7, <1>8

\* What `validate` writes is not seen.
LEMMA ValidateCommitSeen ==
    ASSUME Inv, SerialInv, View, View', NEW o \in Operators, ValidateCommit(o), UNCHANGED imp
    PROVE  CatalogStep
<1> PICK i \in Ids : i = ops[o].rid
  BY DEF SerialInv, CommandNow, ValidateCommit, Asked, Found
<1>1. OperatorStep(o) /\ UNCHANGED partition /\ rows \in [Ids -> Row \cup {None}]
  BY DEF OperatorStep, ValidateCommit, Inv, TypeOK, RegistryTypeOK
<1>2. CASE UNCHANGED rows
  BY <1>1, <1>2, QuietCommandSeen
<1>3. CASE rows[i] # None /\ rows' = [rows EXCEPT ![i].validation = ops[o].status]
  <2>1. rows[i] \in Row /\ rows'[i] = [rows[i] EXCEPT !.validation = ops[o].status]
    BY <1>1, <1>3
  <2>2. rows'[i].name = rows[i].name /\ rows'[i].state = rows[i].state
    BY <2>1 DEF Row
  <2>3. rows'[i] # None
    <3>1. ops[o].status \in Statuses
      BY DEF ValidateCommit, Inv, CommandOK, TypeOK, MaintenanceTypeOK, Invocation
    <3>2. rows'[i] \in Row
      BY <2>1, <3>1 DEF Row
    <3> QED
      BY <3>2, RegistryAssumption
  <2>4. \A j \in Ids \ {i} : rows'[j] = rows[j]
    BY <1>1, <1>3
  <2>5. \A j \in Ids : NameKept(j) /\ ShownKept(j) /\ ActiveKept(j)
    BY <1>1, <1>3, <2>2, <2>3, <2>4 DEF NameKept, ShownKept, ActiveKept, Shown
  <2> QED
    BY <1>1, <2>5, NothingSeen, CommandInProgress, Unseen DEF CatalogStep
<1> QED
  BY <1>2, <1>3 DEF ValidateCommit, Exists

\* Every step of a command.
LEMMA CommandSeen ==
    ASSUME Inv, SerialInv, View, View', NEW o \in Operators, OperatorStep(o) \/ Interrupt(o),
           UNCHANGED imp
    PROVE  CatalogStep
<1>1. CASE CommandWrites(o) \/ RemovePartition(o)
  BY <1>1, ActivateCommitSeen, DeactivateCommitSeen, RemoveRowSeen, ValidateCommitSeen,
     RemovePartitionSeen DEF CommandWrites
<1>2. CASE ~CommandWrites(o) /\ ~RemovePartition(o)
  <2>1. UNCHANGED <<rows, partition>>
    BY <1>2 DEF OperatorStep, CommandWrites, Interrupt, Activate, ActivateNothing, Deactivate,
       Remove, AwaitLock, DetachFails, Validate, ValidatePartition, CleanStaging, UnknownRelease,
       registryVars
  <2> QED
    BY <2>1, QuietCommandSeen
<1> QED
  BY <1>1, <1>2

-----------------------------------------------------------------------------
(* The refinement                                                          *)

\* A process that starts asks for something when nothing is in progress.
LEMMA StartSeen ==
    ASSUME Exclusive, Inv, SerialInv, View, View', MayStart,
           \/ \E p \in Importers : BeginImport(p) /\ UNCHANGED ops
           \/ \E o \in Operators : BeginOperation(o) /\ UNCHANGED imp
    PROVE  CatalogStep
<1>1. InProgress = None
  BY DEF MayStart, View
<1>2. UNCHANGED <<ServedView, LiveView>>
  BY TablesUnseen DEF BeginImport, BeginOperation, registryVars
<1>3. InProgress' \in Requested
  <2>1. ASSUME NEW p \in Importers, BeginImport(p)
        PROVE  InProgress' \in Requested
    <3>1. PICK q \in ImportRequests : imp' = [imp EXCEPT ![p].pc = "sync", ![p].req = q]
      BY <2>1 DEF BeginImport
    <3>2. imp[p] \in Attempt /\ imp \in [Importers -> Attempt]
      BY DEF Inv, TypeOK, ImportTypeOK
    <3>3. imp'[p].pc = "sync" /\ imp'[p].req = q
      BY <3>1, <3>2 DEF Attempt
    <3>4. InProgress' = ImportRequested(q)
      BY <3>3 DEF View, Live, TryBlock, ImportRequested
    <3> QED
      BY <3>4 DEF Requested
  <2>2. ASSUME NEW o \in Operators, BeginOperation(o)
        PROVE  InProgress' \in Requested
    <3>1. PICK q \in OperatorRequests : ops' = [ops EXCEPT ![o].pc = "start", ![o].req = q]
      BY <2>2 DEF BeginOperation
    <3>2. ops[o] \in Invocation /\ ops \in [Operators -> Invocation]
      BY DEF Inv, TypeOK, MaintenanceTypeOK
    <3>3. ops'[o].pc = "start" /\ ops'[o].req = q
      BY <3>1, <3>2 DEF Invocation
    <3>4. InProgress' = CommandRequested(q)
      BY <3>3 DEF View, Busy, OperatorEnded, CommandRequested
    <3> QED
      BY <3>4 DEF Requested
  <2> QED
    BY <2>1, <2>2
<1>4. Catalog!Start
  BY <1>1, <1>2, <1>3 DEF Catalog!Start, ServedView, LiveView
<1> QED
  BY <1>4 DEF CatalogStep, Catalog!CatalogNext

\* Where no process moves and no table changes, neither does the catalog.
LEMMA NobodySeen ==
    ASSUME View, View', UNCHANGED <<rows, partition, imp, ops>>
    PROVE  CatalogStep
<1>1. UNCHANGED <<ServedView, LiveView>>
  BY TablesUnseen
<1>2. UNCHANGED InProgress
  <2>1. CASE \E p \in Importers : Live(p)
    BY <2>1, StillAsked DEF Live
  <2>2. CASE \E o \in Operators : Busy(o)
    BY <2>2, StillCommanded DEF Busy
  <2>3. CASE (\A p \in Importers : ~Live(p)) /\ (\A o \in Operators : ~Busy(o))
    BY <2>3 DEF View, Live, Busy
  <2> QED
    BY <2>1, <2>2, <2>3
<1> QED
  BY <1>1, <1>2 DEF CatalogStep, Catalog!catalogVars, ServedView, LiveView

\* What the seeds leave is a catalog at rest.
LEMMA InitSeen ==
    ASSUME Init, View
    PROVE  Catalog!CatalogInit
<1> DEFINE good == {t \in Sources : StagingStatus[t] # "failed" /\ ProductionStatus[t] # "failed"}
<1>1. /\ \A p \in Importers : ~Live(p)
      /\ \A o \in Operators : ~Busy(o)
  BY DEF Init, ImportInit, MaintenanceInit, NewAttempt, NewInvocation, Live, TryBlock, Recording,
         Busy
<1>2. InProgress = None
  BY <1>1 DEF View
<1>3. ASSUME NEW i \in Ids, rows[i] # None
      PROVE  /\ i \in SeedIds /\ rows[i].name = Seed[i].name /\ rows[i].name \in Names
             /\ rows[i].state \in Built /\ Shown(i) = Seed[i].source /\ Seed[i].source \in good
  <2>1. i \in SeedIds /\ rows[i].name = Seed[i].name /\ rows[i].state = Seed[i].state
        /\ partition[i] = Seed[i].source
    BY <1>3 DEF Init, RegistryInit
  <2>2. Seed[i].source \in good /\ Seed[i].state \in Built /\ Seed[i].name \in Names
    BY <2>1, SeedAssumption
  <2> QED
    BY <2>1, <2>2, RegistryAssumption DEF Shown
<1>4. ASSUME NEW n \in Names
      PROVE  ServedRows(n) \in good \cup {None}
  BY <1>3 DEF View, IdsNamed, Exists
<1>5. ASSUME NEW f \in Families, LiveRelease(f) # None
      PROVE  /\ LiveRelease(f) \in Names /\ FamilyOf[LiveRelease(f)] = f
             /\ ServedRows(LiveRelease(f)) # None
  <2>1. PICK i \in Ids : rows[i] # None /\ rows[i].state = "active" /\ FamilyOf[rows[i].name] = f
    BY <1>5 DEF View, ActiveIds, Exists, FamilyOfId
  <2>2. LiveRelease(f) = rows[i].name
    BY <2>1 DEF View, Exists
  <2>3. ServedRows(rows[i].name) = Seed[i].source /\ Seed[i].source \in Sources
    BY <1>3, <2>1 DEF View, Exists
  <2> QED
    BY <1>3, <2>1, <2>2, <2>3, RegistryAssumption
<1>6. ServedView \in [Names -> good \cup {None}]
  BY <1>4 DEF ServedView
<1>7. /\ LiveView \in [Families -> Names \cup {None}]
      /\ \A f \in Families : LiveView[f] # None => /\ FamilyOf[LiveView[f]] = f
                                                  /\ ServedView[LiveView[f]] # None
  BY <1>5 DEF LiveView, ServedView
<1> QED
  BY <1>2, <1>6, <1>7 DEF Catalog!CatalogInit, ServedView, LiveView

\* Every step of the lifecycle is a step of the catalog or is not seen.
LEMMA NextSeen ==
    ASSUME Exclusive, Inv, SerialInv, View, View', [Next]_vars
    PROVE  [Catalog!CatalogNext]_Catalog!catalogVars
<1>1. ASSUME NEW p \in Importers,
             \/ MayStart /\ BeginImport(p) /\ UNCHANGED ops
             \/ Importer(p)
             \/ ImportFault(p) /\ UNCHANGED ops
      PROVE  CatalogStep
  BY <1>1, StartSeen, AttemptSeen DEF Importer
<1>2. ASSUME NEW o \in Operators,
             \/ MayStart /\ BeginOperation(o) /\ UNCHANGED imp
             \/ Operator(o)
             \/ Interrupt(o) /\ UNCHANGED imp
      PROVE  CatalogStep
  BY <1>2, StartSeen, CommandSeen DEF Operator
<1>3. ASSUME NEW f \in LockHolders, LockHolder(f) /\ UNCHANGED <<imp, ops>>
      PROVE  CatalogStep
  BY <1>3, NobodySeen DEF LockHolder, Hold, Unhold
<1>4. CASE Rest \/ UNCHANGED vars
  BY <1>4, NobodySeen DEF Rest, vars, registryVars, CatalogStep
<1> QED
  BY <1>1, <1>2, <1>3, <1>4 DEF Next, CatalogStep

\* Run one at a time, imports and commands implement the catalog: what queries
\* are answered from changes in single steps, for what was asked, from checked
\* trees, and under --force where the release is live, whatever fails.
THEOREM LifecycleImplementsCatalog ==
    ASSUME Exclusive
    PROVE  Spec => ImplementsCatalog
<1>1. Init /\ View => Catalog!CatalogInit
  BY InitSeen
<1>2. Inv /\ SerialInv /\ View /\ View' /\ [Next]_vars => [Catalog!CatalogNext]_Catalog!catalogVars
  BY NextSeen
<1>3. Inv /\ SerialInv => View
  BY ViewHolds
<1> QED
  BY <1>1, <1>2, <1>3, Invariance, SerialInvariance, PTL
     DEF Spec, ImplementsCatalog, Catalog!CatalogSpec
=============================================================================
