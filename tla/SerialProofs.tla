---------------------------- MODULE SerialProofs ----------------------------
(***************************************************************************)
(* The safety of the release lifecycle with one process at a time, for any *)
(* number of attempts and commands, whatever errors and kills end them.    *)
(* The only process at work is the one that steps; SerialFrame and         *)
(* SerialCommandFrame leave, for each action, what it does to the rows and *)
(* partitions and what the process itself knows next.                      *)
(***************************************************************************)
EXTENDS SerialInvariant, LifecycleProofs

\* Attempt p, or command o, is the only one that may be at work.
OnlyAttempt(p) == (\A q \in Importers \ {p} : ~Live(q)) /\ (\A o \in Operators : ~Busy(o))
OnlyCommand(o) == (\A u \in Operators \ {o} : ~Busy(u)) /\ (\A q \in Importers : ~Live(q))

\* What is known of the rows and the partitions.
TablesOK == NamesAreUnique /\ PartitionsAreChecked /\ BuiltRowsPassed /\ RowsAreDescribed

\* A process at work is the only one.
LEMMA AtWorkAlone ==
    ASSUME SerialInv
    PROVE  /\ \A p \in Importers : Live(p) => OnlyAttempt(p)
           /\ \A o \in Operators : Busy(o) => OnlyCommand(o)
BY DEF SerialInv, OneAtATime, OnlyAttempt, OnlyCommand

\* What an attempt that is not at work knows does not depend on the registry.
LEMMA RestingAttempt ==
    ASSUME NEW q \in Importers, AttemptNow(q), ~Live(q), imp'[q] = imp[q]
    PROVE  AttemptNow(q)' /\ ~Live(q)'
BY DEF AttemptNow, Live, At, TryBlock, Recording

\* Nor does what such a command knows.
LEMMA RestingCommand ==
    ASSUME NEW o \in Operators, ops[o] \in Invocation, CommandNow(o), ~Busy(o), ops'[o] = ops[o]
    PROVE  CommandNow(o)' /\ ~Busy(o)'
<1>1. ops[o].pc \in {"idle"} \cup OperatorEnded
  BY DEF Busy
<1>2. ops[o].pc \notin {"start", "commit", "drop", "wait", "delete", "check"}
  BY <1>1 DEF OperatorEnded
<1> QED
  BY <1>2 DEF CommandNow, Busy, Asked

\* A step of attempt p keeps the invariant if it keeps the tables in order and
\* leaves p with what it needs.
LEMMA SerialFrame ==
    ASSUME Inv, SerialInv, NEW p \in Importers, OnlyAttempt(p), UNCHANGED ops,
           \A q \in Importers \ {p} : imp'[q] = imp[q],
           TablesOK', AttemptNow(p)'
    PROVE  SerialInv'
<1>1. \A q \in Importers : AttemptNow(q)' /\ (q # p => ~Live(q)')
  BY RestingAttempt DEF SerialInv, OnlyAttempt
<1>2. \A o \in Operators : CommandNow(o)' /\ ~Busy(o)'
  BY RestingCommand DEF SerialInv, OnlyAttempt, Inv, TypeOK, MaintenanceTypeOK
<1>3. OneAtATime'
  BY <1>1, <1>2 DEF OneAtATime
<1> QED
  BY <1>1, <1>2, <1>3 DEF SerialInv, TablesOK

\* The same of a step of command o.
LEMMA SerialCommandFrame ==
    ASSUME Inv, SerialInv, NEW o \in Operators, OnlyCommand(o), UNCHANGED imp,
           \A u \in Operators \ {o} : ops'[u] = ops[u],
           TablesOK', CommandNow(o)'
    PROVE  SerialInv'
<1>1. \A q \in Importers : AttemptNow(q)' /\ ~Live(q)'
  BY RestingAttempt DEF SerialInv, OnlyCommand
<1>2. \A u \in Operators : CommandNow(u)' /\ (u # o => ~Busy(u)')
  BY RestingCommand DEF SerialInv, OnlyCommand, Inv, TypeOK, MaintenanceTypeOK
<1>3. OneAtATime'
  BY <1>1, <1>2 DEF OneAtATime
<1> QED
  BY <1>1, <1>2, <1>3 DEF SerialInv, TablesOK

\* Rows and partitions that stay stay in order, if no attempt gives up what it
\* has to answer for.
LEMMA TablesAsTheyAre ==
    ASSUME SerialInv, UNCHANGED <<rows, partition>>,
           \A i \in Ids : UnaccountedSwap(i) => UnaccountedSwap(i)'
    PROVE  TablesOK'
BY DEF SerialInv, TablesOK, NamesAreUnique, PartitionsAreChecked, BuiltRowsPassed,
       RowsAreDescribed, RowDescribesPartition, Exists, Checked

\* An attempt that keeps its mark keeps what it answers for.
LEMMA StillUnaccounted ==
    ASSUME NEW p \in Importers, \A q \in Importers \ {p} : imp'[q] = imp[q],
           imp[p].swapped => imp'[p].swapped /\ imp'[p].rid = imp[p].rid
    PROVE  \A i \in Ids : UnaccountedSwap(i) => UnaccountedSwap(i)'
BY DEF UnaccountedSwap

\* A step that moves attempt p and changes no row and no partition.
LEMMA QuietSerial ==
    ASSUME Inv, SerialInv, NEW p \in Importers, OnlyAttempt(p), UNCHANGED ops,
           \A q \in Importers \ {p} : imp'[q] = imp[q],
           UNCHANGED <<rows, partition>>,
           imp[p].swapped => imp'[p].swapped /\ imp'[p].rid = imp[p].rid,
           AttemptNow(p)'
    PROVE  SerialInv'
BY SerialFrame, TablesAsTheyAre, StillUnaccounted

\* A step that moves command o and changes no row and no partition.
LEMMA QuietSerialCommand ==
    ASSUME Inv, SerialInv, NEW o \in Operators, OnlyCommand(o), UNCHANGED imp,
           \A u \in Operators \ {o} : ops'[u] = ops[u],
           UNCHANGED <<rows, partition>>, CommandNow(o)'
    PROVE  SerialInv'
BY SerialCommandFrame, TablesAsTheyAre DEF UnaccountedSwap

-----------------------------------------------------------------------------
(* Attempts that raise, end or are killed                                  *)

\* What ends an attempt or sends it to its recorder leaves it with nothing to
\* rely on, and keeps its mark.
LEMMA EndSerial ==
    ASSUME Inv, NEW p \in Importers,
           Raise(p) \/ Unrecorded(p) \/ (\E l \in ImportEnded : Finish(p, l))
    PROVE  /\ \A q \in Importers \ {p} : imp'[q] = imp[q]
           /\ imp[p].swapped => imp'[p].swapped /\ imp'[p].rid = imp[p].rid
           /\ imp'[p].pc \in {"record"} \cup ImportEnded
           /\ AttemptNow(p)'
<1>1. imp \in [Importers -> Attempt] /\ imp[p].swapped \in BOOLEAN
  BY DEF Inv, TypeOK, ImportTypeOK, Attempt
<1>2. imp'[p].pc \in {"record"} \cup ImportEnded => AttemptNow(p)'
  BY DEF AttemptNow, At, Recording, ImportEnded
<1>3. CASE Raise(p)
  BY <1>1, <1>2, <1>3 DEF Raise, NewAttempt
<1>4. CASE Unrecorded(p)
  BY <1>1, <1>2, <1>4 DEF Unrecorded, NewAttempt, ImportEnded
<1>5. CASE \E l \in ImportEnded : Finish(p, l)
  <2>1. PICK l \in ImportEnded : Finish(p, l)
    BY <1>5
  <2>2. imp'[p] = [NewAttempt EXCEPT
                     !.pc = l, !.swapped = imp[p].swapped, !.runId = imp[p].runId,
                     !.rid = IF imp[p].swapped THEN imp[p].rid ELSE None]
    BY <1>1, <2>1 DEF Finish
  <2>3. imp'[p].pc = l /\ (imp[p].swapped => imp'[p].swapped /\ imp'[p].rid = imp[p].rid)
    BY <2>2 DEF NewAttempt
  <2> QED
    BY <1>1, <1>2, <2>1, <2>3 DEF Finish
<1> QED
  BY <1>3, <1>4, <1>5

\* A failure at any point keeps the invariant, if no row and no partition has
\* changed with it.
LEMMA FailSerial ==
    ASSUME Inv, SerialInv, NEW p \in Importers, Live(p), UNCHANGED <<rows, partition, ops>>,
           Raise(p) \/ Unrecorded(p) \/ (\E l \in ImportEnded : Finish(p, l))
    PROVE  SerialInv'
BY EndSerial, AtWorkAlone, QuietSerial

-----------------------------------------------------------------------------
(* Attempts: bookkeeping                                                   *)

\* A move that only changes the place of an attempt keeps its locals.
LEMMA GotoFields ==
    ASSUME Inv, NEW p \in Importers, NEW l, Goto(p, l)
    PROVE  /\ \A q \in Importers \ {p} : imp'[q] = imp[q]
           /\ imp'[p].pc = l
           /\ imp'[p].req = imp[p].req /\ imp'[p].rid = imp[p].rid
           /\ imp'[p].wasActive = imp[p].wasActive /\ imp'[p].imported = imp[p].imported
           /\ imp'[p].swapped = imp[p].swapped /\ imp'[p].target = imp[p].target
           /\ imp'[p].loaded = imp[p].loaded /\ imp'[p].current = imp[p].current
<1>1. imp \in [Importers -> Attempt] /\ imp[p] \in Attempt
  BY DEF Inv, TypeOK, ImportTypeOK
<1> QED
  BY <1>1 DEF Goto, Attempt

\* An import begins when nobody is at work.
LEMMA BeginImportSerial ==
    ASSUME Exclusive, Inv, SerialInv, NEW p \in Importers, MayStart, BeginImport(p), UNCHANGED ops
    PROVE  SerialInv'
<1>1. imp \in [Importers -> Attempt] /\ imp[p] \in Attempt /\ AttemptNow(p) /\ imp[p].pc = "idle"
  BY DEF Inv, TypeOK, ImportTypeOK, SerialInv, BeginImport, At
<1>2. PICK q : imp' = [imp EXCEPT ![p].pc = "sync", ![p].req = q]
  BY DEF BeginImport
<1>3. /\ imp'[p].pc = "sync" /\ imp'[p].wasActive = imp[p].wasActive
      /\ imp'[p].swapped = imp[p].swapped /\ imp'[p].rid = imp[p].rid
      /\ \A r \in Importers \ {p} : imp'[r] = imp[r]
  BY <1>1, <1>2 DEF Attempt
<1>4. AttemptNow(p)'
  BY <1>1, <1>3 DEF AttemptNow, At, Recording, ImportEnded
<1>5. OnlyAttempt(p)
  BY DEF MayStart, OnlyAttempt
<1> QED
  BY <1>3, <1>4, <1>5, QuietSerial DEF BeginImport, registryVars

\* sync_family() precedes everything the attempt decides.
LEMMA SyncFamilySerial ==
    ASSUME Inv, SerialInv, NEW p \in Importers, SyncFamily(p), UNCHANGED ops
    PROVE  SerialInv'
<1>1. Live(p) /\ AttemptNow(p) /\ imp[p].pc = "sync"
  BY DEF SyncFamily, At, Live, TryBlock, SerialInv
<1>2. AttemptNow(p)'
  BY <1>1, GotoFields DEF SyncFamily, AttemptNow, At, Recording, ImportEnded
<1> QED
  BY <1>1, <1>2, GotoFields, AtWorkAlone, QuietSerial DEF SyncFamily

\* The lookup of the release: what it decides on is still so when the run opens.
LEMMA OpenSerial ==
    ASSUME Inv, SerialInv, NEW p \in Importers, OpenNewRelease(p) \/ OpenRelease(p), UNCHANGED ops
    PROVE  SerialInv'
<1>1. /\ imp \in [Importers -> Attempt] /\ imp[p] \in Attempt /\ AttemptNow(p)
      /\ imp[p].pc = "open" /\ Live(p) /\ UNCHANGED registryVars
  BY DEF Inv, TypeOK, ImportTypeOK, SerialInv, OpenNewRelease, OpenRelease, At, Live, TryBlock
<1>2. CASE OpenNewRelease(p)
  <2>1. /\ imp'[p].pc = "openRun" /\ imp'[p].rid = p /\ imp'[p].req = imp[p].req
        /\ imp'[p].wasActive = imp[p].wasActive /\ imp'[p].swapped = imp[p].swapped
        /\ \A q \in Importers \ {p} : imp'[q] = imp[q]
    BY <1>1, <1>2 DEF OpenNewRelease, Attempt
  <2>2. (IdsNamed(imp[p].req.name) = {})'
    BY <1>1, <1>2, <2>1 DEF OpenNewRelease, IdsNamed, Exists, registryVars
  <2>3. AttemptNow(p)'
    BY <1>1, <2>1, <2>2 DEF AttemptNow, At, Recording, ImportEnded
  <2> QED
    BY <1>1, <2>1, <2>3, AtWorkAlone, QuietSerial DEF AttemptNow, Recording, ImportEnded, registryVars
<1>3. CASE OpenRelease(p)
  <2> DEFINE q == imp[p].req
  <2>1. PICK i \in IdsNamed(q.name) :
           /\ ~MustForce(rows[i], q)
           /\ imp' = [imp EXCEPT ![p].pc = "openRun", ![p].rid = i,
                                 ![p].wasActive = rows[i].state = "active"]
    BY <1>3 DEF OpenRelease
  <2>2. /\ imp'[p].pc = "openRun" /\ imp'[p].rid = i /\ imp'[p].req = q
        /\ imp'[p].wasActive = (rows[i].state = "active") /\ imp'[p].swapped = imp[p].swapped
        /\ \A r \in Importers \ {p} : imp'[r] = imp[r]
    BY <1>1, <2>1 DEF Attempt
  <2>3. i \in Ids /\ Exists(i) /\ rows[i].name = q.name /\ rows[i].state \in States /\ i # p
    <3>1. i \in Ids /\ Exists(i) /\ rows[i].name = q.name
      BY <2>1 DEF IdsNamed
    <3>2. rows[i] \in Row
      BY <3>1 DEF Exists, Inv, TypeOK, RegistryTypeOK
    <3>3. i # p
      BY <1>1, <3>1 DEF Inv, RowsOK, Issued
    <3> QED
      BY <3>1, <3>2, <3>3 DEF Row
  <2>4. OwnRelease(p)'
    BY <1>1, <2>1, <2>2, <2>3 DEF OwnRelease, Found, Exists, MustForce, registryVars
  <2>5. AttemptNow(p)'
    BY <1>1, <2>2, <2>3, <2>4 DEF AttemptNow, At, Recording, ImportEnded
  <2> QED
    BY <1>1, <2>2, <2>5, AtWorkAlone, QuietSerial DEF AttemptNow, Recording, ImportEnded, registryVars
<1> QED
  BY <1>2, <1>3

\* The active release that an activation loads is the only one.
LEMMA LoadedSupersedes ==
    ASSUME NEW n, NEW c \in IF ActiveIds(FamilyOf[n]) = {} THEN {None} ELSE ActiveIds(FamilyOf[n])
    PROVE  Supersedes(c, n)
BY RegistryAssumption DEF Supersedes, ActiveIds

\* The idempotent skip, when it goes on to activate.
LEMMA SkipUnchangedSerial ==
    ASSUME Inv, SerialInv, NEW p \in Importers, SkipUnchanged(p), UNCHANGED ops
    PROVE  SerialInv'
<1> DEFINE q == imp[p].req
           active == ActiveIds(FamilyOf[q.name])
<1>1. /\ imp \in [Importers -> Attempt] /\ imp[p] \in Attempt /\ AttemptNow(p)
      /\ imp[p].pc = "open" /\ Live(p) /\ UNCHANGED registryVars
  BY DEF Inv, TypeOK, ImportTypeOK, SerialInv, SkipUnchanged, At, Live, TryBlock
<1>2. CASE Raise(p) \/ Finish(p, "done")
  BY <1>1, <1>2, FailSerial DEF ImportEnded, registryVars
<1>3. ASSUME NEW i \in IdsNamed(q.name), Unchanged(rows[i], q), rows[i].state # "active",
             q.activate, Gate(rows[i].validation, q) = "activate",
             NEW c \in IF active = {} THEN {None} ELSE active,
             imp' = [imp EXCEPT ![p].pc = "skipActivate", ![p].target = i, ![p].current = c]
      PROVE  SerialInv'
  <2>1. /\ imp'[p].pc = "skipActivate" /\ imp'[p].target = i /\ imp'[p].current = c
        /\ imp'[p].req = q /\ imp'[p].swapped = imp[p].swapped /\ imp'[p].rid = imp[p].rid
        /\ \A r \in Importers \ {p} : imp'[r] = imp[r]
    BY <1>1, <1>3 DEF Attempt
  <2>2. Found(i, q.name, Activatable) /\ rows[i].checksum = q.src
    BY <1>3 DEF IdsNamed, Found, Unchanged, IsBuilt, Built, Activatable
  <2>3. Supersedes(c, q.name)
    BY <1>3, LoadedSupersedes
  <2>4. /\ Found(i, q.name, Activatable)' <=> Found(i, q.name, Activatable)
        /\ Supersedes(c, q.name)' <=> Supersedes(c, q.name)
    BY <1>1, <2>1 DEF Found, Supersedes, ActiveIds, Exists, FamilyOfId, registryVars
  <2>5. AttemptNow(p)'
    BY <1>1, <1>3, <2>1, <2>2, <2>3, <2>4 DEF AttemptNow, At, Recording, ImportEnded, registryVars
  <2> QED
    BY <1>1, <2>1, <2>5, AtWorkAlone, QuietSerial DEF registryVars
<1>4. PICK i \in IdsNamed(q.name) :
         LET gate == IF rows[i].state = "active" \/ ~q.activate THEN "hold"
                     ELSE Gate(rows[i].validation, q) IN
         /\ Unchanged(rows[i], q)
         /\ \/ gate = "hold" /\ Finish(p, "done")
            \/ gate = "refuse" /\ Raise(p)
            \/ /\ gate = "activate"
               /\ \E c \in IF active = {} THEN {None} ELSE active :
                     imp' = [imp EXCEPT ![p].pc = "skipActivate",
                                        ![p].target = i, ![p].current = c]
  BY DEF SkipUnchanged
<1>5. ASSUME rows[i].state = "active" \/ ~q.activate
      PROVE  SerialInv'
  BY <1>2, <1>4, <1>5
<1>6. ASSUME ~(rows[i].state = "active" \/ ~q.activate)
      PROVE  SerialInv'
  BY <1>2, <1>3, <1>4, <1>6
<1> QED
  BY <1>5, <1>6

\* The run opens, with the row if it is new: no name comes twice, and the new
\* row is not built.
LEMMA OpenRunSerial ==
    ASSUME Inv, SerialInv, NEW p \in Importers, OpenRun(p), UNCHANGED ops
    PROVE  SerialInv'
<1> DEFINE i == imp[p].rid
           q == imp[p].req
<1>1. /\ imp \in [Importers -> Attempt] /\ imp[p] \in Attempt /\ AttemptNow(p)
      /\ imp[p].pc = "openRun" /\ Live(p) /\ ~CannotOpenRun(p) /\ p \in Ids
      /\ rows \in [Ids -> Row \cup {None}] /\ UNCHANGED <<partition, ops>>
  BY DEF Inv, TypeOK, ImportTypeOK, RegistryTypeOK, SerialInv, OpenRun, At, Live, TryBlock, Ids
<1>2. /\ imp'[p].pc = "runId" /\ imp'[p].rid = i /\ imp'[p].req = q
      /\ imp'[p].wasActive = imp[p].wasActive /\ ~imp'[p].swapped /\ ~imp[p].swapped
      /\ \A r \in Importers \ {p} : imp'[r] = imp[r]
  BY <1>1, GotoFields DEF OpenRun, AttemptNow, Recording, ImportEnded
<1>3. CASE i = p
  <2>1. /\ rows' = [rows EXCEPT ![p] = NewRow(q.name)] /\ IdsNamed(q.name) = {}
        /\ ~imp[p].wasActive
    BY <1>1, <1>3 DEF OpenRun, AttemptNow, At
  <2>2. NewRow(q.name) # None /\ q.name \in Names
    <3>1. q \in Request
      BY <1>1 DEF Inv, AttemptOK, Attempt
    <3>2. NewRow(q.name) \in Row
      BY <3>1, RegistryAssumption DEF NewRow, Row, Request, States
    <3> QED
      BY <3>1, <3>2, RegistryAssumption DEF Request
  <2>3. /\ rows'[p] = NewRow(q.name) /\ rows'[p].state = "registered"
        /\ rows'[p].name = q.name /\ \A j \in Ids \ {p} : rows'[j] = rows[j]
    BY <1>1, <2>1 DEF NewRow
  <2>4. NamesAreUnique'
    BY <2>1, <2>2, <2>3 DEF SerialInv, NamesAreUnique, IdsNamed, Exists
  <2>5. RowsAreDescribed'
    <3>1. \A j \in Ids : UnaccountedSwap(j) => UnaccountedSwap(j)'
      BY <1>2, StillUnaccounted
    <3>2. rows'[p].state \notin Built
      BY <2>3 DEF Built
    <3> QED
      BY <1>1, <2>3, <3>1, <3>2 DEF SerialInv, RowsAreDescribed, RowDescribesPartition, Exists
  <2>6. TablesOK'
    <3>1. rows'[p].state \notin Built
      BY <2>3 DEF Built
    <3>2. BuiltRowsPassed'
      BY <2>3, <3>1 DEF SerialInv, BuiltRowsPassed, Exists
    <3> QED
      BY <1>1, <2>4, <2>5, <3>2 DEF TablesOK, SerialInv, PartitionsAreChecked, Checked
  <2>7. OwnRelease(p)'
    BY <1>1, <1>2, <1>3, <2>1, <2>2, <2>3 DEF OwnRelease, Found, Exists, States
  <2>8. AttemptNow(p)'
    BY <1>2, <2>7 DEF AttemptNow, At, Recording, ImportEnded
  <2> QED
    BY <1>1, <1>2, <2>6, <2>8, AtWorkAlone, SerialFrame
<1>4. CASE i # p
  <2>1. UNCHANGED rows /\ OwnRelease(p)
    BY <1>1, <1>4 DEF OpenRun, AttemptNow, At
  <2>2. OwnRelease(p)'
    BY <1>2, <2>1 DEF OwnRelease, Found, Exists
  <2>3. AttemptNow(p)'
    BY <1>2, <2>2 DEF AttemptNow, At, Recording, ImportEnded
  <2> QED
    BY <1>1, <1>2, <2>1, <2>3, AtWorkAlone, QuietSerial
<1> QED
  BY <1>3, <1>4

-----------------------------------------------------------------------------
(* Attempts: phases A and B                                                *)

\* Reading back the id of the run changes nothing else.
LEMMA ReadRunIdSerial ==
    ASSUME Inv, SerialInv, NEW p \in Importers, ReadRunId(p), UNCHANGED ops
    PROVE  SerialInv'
<1>1. /\ imp \in [Importers -> Attempt] /\ imp[p] \in Attempt /\ AttemptNow(p)
      /\ imp[p].pc = "runId" /\ Live(p) /\ UNCHANGED registryVars
  BY DEF Inv, TypeOK, ImportTypeOK, SerialInv, ReadRunId, At, Live, TryBlock
<1>2. CASE Raise(p)
  BY <1>1, <1>2, FailSerial DEF registryVars
<1>3. CASE imp' = [imp EXCEPT ![p].pc = "stage", ![p].runId = TRUE]
  <2>1. /\ imp'[p].pc = "stage" /\ imp'[p].rid = imp[p].rid /\ imp'[p].req = imp[p].req
        /\ imp'[p].wasActive = imp[p].wasActive /\ imp'[p].swapped = imp[p].swapped
        /\ \A r \in Importers \ {p} : imp'[r] = imp[r]
    BY <1>1, <1>3 DEF Attempt
  <2>2. OwnRelease(p) /\ ~imp[p].swapped
    BY <1>1 DEF AttemptNow, Recording, ImportEnded
  <2>3. OwnRelease(p)'
    BY <1>1, <2>1, <2>2 DEF OwnRelease, Found, Exists, registryVars
  <2>4. AttemptNow(p)'
    BY <2>1, <2>2, <2>3 DEF AttemptNow, At, Recording, ImportEnded
  <2> QED
    BY <1>1, <2>1, <2>2, <2>4, AtWorkAlone, QuietSerial DEF registryVars
<1> QED
  BY <1>2, <1>3 DEF ReadRunId

\* Phase A leaves in the staging table the tree it was given, if it passed.
LEMMA PhaseASerial ==
    ASSUME Inv, SerialInv, NEW p \in Importers, PhaseA(p), UNCHANGED ops
    PROVE  SerialInv'
<1> DEFINE q == imp[p].req
<1>1. /\ imp[p] \in Attempt /\ AttemptNow(p) /\ imp[p].pc = "stage" /\ Live(p)
      /\ q \in Request /\ staging \in [Names -> Sources \cup {None}]
      /\ UNCHANGED <<rows, partition, ops>>
  BY DEF Inv, TypeOK, ImportTypeOK, RegistryTypeOK, SerialInv, PhaseA, At, Live, TryBlock,
         AttemptOK, Attempt
<1>2. CASE Raise(p)
  BY <1>1, <1>2, FailSerial
<1>3. CASE ~Raise(p)
  <2>1. StagingStatus[q.src] # "failed" /\ Goto(p, "build") /\ staging'[q.name] = q.src
    BY <1>1, <1>3 DEF PhaseA, Request
  <2>2. /\ imp'[p].pc = "build" /\ imp'[p].rid = imp[p].rid /\ imp'[p].req = q
        /\ imp'[p].wasActive = imp[p].wasActive /\ imp'[p].swapped = imp[p].swapped
        /\ \A r \in Importers \ {p} : imp'[r] = imp[r]
    BY <2>1, GotoFields
  <2>3. OwnRelease(p)'
    BY <1>1, <2>2 DEF AttemptNow, OwnRelease, Found, Exists
  <2>4. AttemptNow(p)'
    BY <1>1, <2>1, <2>2, <2>3 DEF AttemptNow, At, Recording, ImportEnded
  <2> QED
    BY <1>1, <2>2, <2>4, AtWorkAlone, QuietSerial
<1> QED
  BY <1>2, <1>3

\* Phase B1 builds from what Phase A staged, and not from leftovers.
LEMMA PhaseB1Serial ==
    ASSUME Inv, SerialInv, NEW p \in Importers, PhaseB1(p), UNCHANGED ops
    PROVE  SerialInv'
<1> DEFINE i == imp[p].rid
           q == imp[p].req
<1>1. /\ imp \in [Importers -> Attempt] /\ imp[p] \in Attempt /\ AttemptNow(p)
      /\ imp[p].pc = "build" /\ Live(p)
      /\ incoming \in [Ids -> Sources \cup {None}] /\ UNCHANGED <<rows, partition, ops>>
  BY DEF Inv, TypeOK, ImportTypeOK, RegistryTypeOK, SerialInv, PhaseB1, At, Live, TryBlock
<1>2. staging[q.name] = q.src /\ StagingStatus[q.src] # "failed" /\ OwnRelease(p) /\ i \in Ids
  BY <1>1 DEF AttemptNow, At, OwnRelease, Found
<1>3. /\ ProductionStatus[q.src] # "failed" /\ incoming' = [incoming EXCEPT ![i] = q.src]
      /\ imp' = [imp EXCEPT ![p].pc = "swap", ![p].imported = q.src]
  BY <1>2 DEF PhaseB1
<1>4. /\ imp'[p].pc = "swap" /\ imp'[p].rid = i /\ imp'[p].req = q
      /\ imp'[p].wasActive = imp[p].wasActive /\ imp'[p].swapped = imp[p].swapped
      /\ imp'[p].imported = q.src /\ \A r \in Importers \ {p} : imp'[r] = imp[r]
  BY <1>1, <1>3 DEF Attempt
<1>5. incoming'[i] = q.src /\ Checked(q.src)
  BY <1>1, <1>2, <1>3 DEF Checked
<1>6. OwnRelease(p)'
  BY <1>1, <1>2, <1>4 DEF OwnRelease, Found, Exists
<1>7. AttemptNow(p)'
  BY <1>1, <1>4, <1>5, <1>6 DEF AttemptNow, At, Recording, ImportEnded, Checked
<1> QED
  BY <1>1, <1>4, <1>7, AtWorkAlone, QuietSerial

\* A swap that waits keeps its build.
LEMMA LockTimeoutSerial ==
    ASSUME Inv, SerialInv, NEW p \in Importers, LockTimeout(p), UNCHANGED ops
    PROVE  SerialInv'
<1>1. /\ imp \in [Importers -> Attempt] /\ imp[p] \in Attempt /\ AttemptNow(p)
      /\ imp[p].pc = "swap" /\ Live(p) /\ UNCHANGED registryVars
  BY DEF Inv, TypeOK, ImportTypeOK, SerialInv, LockTimeout, At, Live, TryBlock
<1>2. CASE Raise(p)
  BY <1>1, <1>2, FailSerial DEF registryVars
<1>3. CASE ~Raise(p)
  <2>1. imp' = [imp EXCEPT ![p].tries = @ + 1]
    BY <1>3 DEF LockTimeout
  <2>2. /\ imp'[p].pc = "swap" /\ imp'[p].rid = imp[p].rid /\ imp'[p].req = imp[p].req
        /\ imp'[p].wasActive = imp[p].wasActive /\ imp'[p].swapped = imp[p].swapped
        /\ imp'[p].imported = imp[p].imported /\ \A r \in Importers \ {p} : imp'[r] = imp[r]
    BY <1>1, <2>1 DEF Attempt
  <2>3. OwnRelease(p)'
    BY <1>1, <2>2 DEF AttemptNow, OwnRelease, Found, Exists, registryVars
  <2>4. AttemptNow(p)'
    BY <1>1, <2>2, <2>3 DEF AttemptNow, At, Recording, ImportEnded, Checked, registryVars
  <2> QED
    BY <1>1, <2>2, <2>4, AtWorkAlone, QuietSerial DEF registryVars
<1> QED
  BY <1>2, <1>3

\* The swap publishes rows that passed both lists of checks, and marks them
\* unaccounted for.
LEMMA SwapSerial ==
    ASSUME Inv, SerialInv, NEW p \in Importers, Swap(p), UNCHANGED ops
    PROVE  SerialInv'
<1> DEFINE i == imp[p].rid
           q == imp[p].req
<1>1. /\ imp \in [Importers -> Attempt] /\ imp[p] \in Attempt /\ AttemptNow(p)
      /\ imp[p].pc = "swap" /\ Live(p) /\ partition \in [Ids -> Sources \cup {None}]
      /\ UNCHANGED <<rows, ops>>
  BY DEF Inv, TypeOK, ImportTypeOK, RegistryTypeOK, SerialInv, Swap, At, Live, TryBlock
<1>2. /\ incoming[i] = q.src /\ imp[p].imported = q.src /\ Checked(q.src) /\ OwnRelease(p)
      /\ i \in Ids
  BY <1>1 DEF AttemptNow, At, OwnRelease, Found
<1>3. /\ partition' = [partition EXCEPT ![i] = q.src]
      /\ imp' = [imp EXCEPT ![p].pc = "finalize", ![p].swapped = TRUE, ![p].tries = 0]
  BY <1>2 DEF Swap
<1>4. /\ imp'[p].pc = "finalize" /\ imp'[p].rid = i /\ imp'[p].req = q
      /\ imp'[p].wasActive = imp[p].wasActive /\ imp'[p].swapped
      /\ imp'[p].imported = q.src /\ \A r \in Importers \ {p} : imp'[r] = imp[r]
  BY <1>1, <1>2, <1>3 DEF Attempt
<1>5. \A j \in Ids : UnaccountedSwap(j) \/ j = i => UnaccountedSwap(j)'
  <2>1. \A j \in Ids : UnaccountedSwap(j) => UnaccountedSwap(j)'
    BY <1>4, StillUnaccounted
  <2>2. ASSUME NEW j \in Ids, j = i PROVE UnaccountedSwap(j)'
    BY <1>4, <2>2 DEF UnaccountedSwap
  <2> QED
    BY <2>1, <2>2
<1>6. partition'[i] = q.src /\ \A j \in Ids \ {i} : partition'[j] = partition[j]
  BY <1>1, <1>2, <1>3
<1>7. NamesAreUnique' /\ PartitionsAreChecked' /\ BuiltRowsPassed'
  BY <1>1, <1>2, <1>6 DEF SerialInv, NamesAreUnique, PartitionsAreChecked, BuiltRowsPassed, Exists,
                          Checked
<1>8. RowsAreDescribed'
  BY <1>1, <1>5, <1>6 DEF SerialInv, RowsAreDescribed, RowDescribesPartition, Exists
<1>9. OwnRelease(p)'
  BY <1>1, <1>2, <1>4 DEF OwnRelease, Found, Exists
<1>10. AttemptNow(p)'
  BY <1>2, <1>4, <1>6, <1>9 DEF AttemptNow, At, Recording, ImportEnded, Checked
<1> QED
  BY <1>1, <1>4, <1>7, <1>8, <1>10, AtWorkAlone, SerialFrame DEF TablesOK

-----------------------------------------------------------------------------
(* Attempts: finalize, activate, record                                    *)

\* The finalize session loads the row that is there.
LEMMA FinalizeSerial ==
    ASSUME Inv, SerialInv, NEW p \in Importers, Finalize(p), UNCHANGED ops
    PROVE  SerialInv'
<1> DEFINE i == imp[p].rid
           q == imp[p].req
<1>1. /\ imp \in [Importers -> Attempt] /\ imp[p] \in Attempt /\ AttemptNow(p)
      /\ imp[p].pc = "finalize" /\ Live(p) /\ UNCHANGED registryVars
  BY DEF Inv, TypeOK, ImportTypeOK, SerialInv, Finalize, At, Live, TryBlock
<1>2. /\ imp[p].imported = q.src /\ Checked(q.src) /\ OwnRelease(p) /\ partition[i] = q.src
      /\ Exists(i)
  BY <1>1 DEF AttemptNow, OwnRelease, Found
<1>3. imp' = [imp EXCEPT ![p].pc = "finalizeCommit", ![p].target = i, ![p].loaded = rows[i]]
  BY <1>2 DEF Finalize
<1>4. /\ imp'[p].pc = "finalizeCommit" /\ imp'[p].rid = i /\ imp'[p].req = q
      /\ imp'[p].wasActive = imp[p].wasActive /\ imp'[p].swapped = imp[p].swapped
      /\ imp'[p].imported = q.src /\ imp'[p].loaded = rows[i]
      /\ \A r \in Importers \ {p} : imp'[r] = imp[r]
  BY <1>1, <1>2, <1>3 DEF Attempt
<1>5. OwnRelease(p)'
  BY <1>1, <1>2, <1>4 DEF OwnRelease, Found, Exists, registryVars
<1>6. AttemptNow(p)'
  BY <1>1, <1>2, <1>4, <1>5 DEF AttemptNow, At, Recording, ImportEnded, Checked, registryVars
<1> QED
  BY <1>1, <1>4, <1>6, AtWorkAlone, QuietSerial DEF registryVars

\* One row is rewritten and keeps its name: the tables stay in order if the new
\* row says what its partition holds.
LEMMA RewriteTables ==
    ASSUME Inv, SerialInv, NEW i \in Ids, Exists(i), UNCHANGED partition,
           NEW r, r # None, r.name = rows[i].name, rows' = [rows EXCEPT ![i] = r],
           \A j \in Ids : j # i /\ UnaccountedSwap(j) => UnaccountedSwap(j)',
           r.state \in Built => r.validation # "failed",
           r.state \in Built /\ partition[i] # None =>
               /\ r.checksum = partition[i] \/ UnaccountedSwap(i)'
               /\ NoRevalidation =>
                     \/ r.validation = Summarize(StagingStatus[partition[i]],
                                                 ProductionStatus[partition[i]])
                     \/ UnaccountedSwap(i)'
    PROVE  TablesOK'
<1>1. rows \in [Ids -> Row \cup {None}]
  BY DEF Inv, TypeOK, RegistryTypeOK
<1>2. rows'[i] = r /\ \A j \in Ids \ {i} : rows'[j] = rows[j]
  BY <1>1
<1>3. NamesAreUnique'
  BY <1>2 DEF SerialInv, NamesAreUnique, Exists
<1>4. PartitionsAreChecked' /\ BuiltRowsPassed'
  BY <1>2 DEF SerialInv, PartitionsAreChecked, Checked, BuiltRowsPassed, Exists
<1>5. RowsAreDescribed'
  BY <1>2 DEF SerialInv, RowsAreDescribed, RowDescribesPartition, Exists
<1> QED
  BY <1>3, <1>4, <1>5 DEF TablesOK

\* A flush of a row that nobody has changed since it was loaded writes what was
\* assigned.
LEMMA FlushOwn ==
    \A r, a : Flush(r, r, a) =
        [name |-> r.name, state |-> a.state, checksum |-> a.checksum,
         table |-> a.table, validation |-> a.validation]
BY DEF Flush, Column

\* What the finalize commit makes of the row of its release.
FinalRow(p) ==
    LET q == imp[p].req IN
    [name |-> q.name, state |-> FinalState(p), checksum |-> q.src, table |-> TRUE,
     validation |-> FinalStatus(p)]

\* A finalize that commits writes the provenance and the verdict of the rows
\* that the swap published, over a row that is as it was loaded.
LEMMA FinalizedTable ==
    ASSUME Inv, SerialInv, NEW p \in Importers, At(p, "finalizeCommit")
    PROVE  /\ OwnRelease(p)
           /\ Finalized(p) = [rows EXCEPT ![imp[p].rid] = FinalRow(p)]
           /\ imp[p].imported = imp[p].req.src
           /\ imp[p].target = imp[p].rid
           /\ partition[imp[p].rid] = imp[p].req.src
<1> DEFINE i == imp[p].rid
           q == imp[p].req
           assigned == [imp[p].loaded EXCEPT !.state = FinalState(p), !.checksum = q.src,
                                             !.table = TRUE, !.validation = FinalStatus(p)]
<1>1. /\ AttemptNow(p) /\ AttemptOK(p) /\ imp[p].pc = "finalizeCommit"
      /\ rows \in [Ids -> Row \cup {None}]
  BY DEF Inv, TypeOK, RegistryTypeOK, SerialInv, At
<1>2. /\ OwnRelease(p) /\ imp[p].imported = q.src /\ partition[i] = q.src
      /\ imp[p].loaded = rows[i] /\ imp[p].target = i
  BY <1>1 DEF AttemptNow, AttemptOK, At
<1>3. i \in Ids /\ rows[i] \in Row /\ rows[i].name = q.name
  BY <1>1, <1>2 DEF OwnRelease, Found, Exists
<1>4. Finalized(p) = [rows EXCEPT ![i] = Flush(rows[i], rows[i], assigned)]
  BY <1>1, <1>2, <1>3 DEF Finalized
<1>5. /\ assigned.state = FinalState(p) /\ assigned.checksum = q.src
      /\ assigned.table = TRUE /\ assigned.validation = FinalStatus(p)
  BY <1>2, <1>3 DEF Row
<1> HIDE DEF assigned
<1>6. Flush(rows[i], rows[i], assigned) = FinalRow(p)
  BY <1>3, <1>5, FlushOwn DEF FinalRow
<1> QED
  BY <1>2, <1>4, <1>6

\* What the finalize commit does.
LEMMA FinalizeEffect ==
    ASSUME Inv, SerialInv, NEW p \in Importers, FinalizeCommit(p)
    PROVE  /\ OwnRelease(p)
           /\ rows' = [rows EXCEPT ![imp[p].rid] = FinalRow(p)]
           /\ imp[p].imported = imp[p].req.src
           /\ partition[imp[p].rid] = imp[p].req.src
           /\ UNCHANGED partition
BY FinalizedTable DEF FinalizeCommit

\* What it writes is a row.
LEMMA FinalRowType ==
    ASSUME Inv, SerialInv, NEW p \in Importers, FinalizeCommit(p)
    PROVE  FinalRow(p) \in Row
<1>1. Live(p) /\ imp[p] \in Attempt /\ AttemptOK(p) /\ imp[p].imported = imp[p].req.src
  BY FinalizeEffect DEF FinalizeCommit, At, Live, TryBlock, Inv, TypeOK, ImportTypeOK
<1>2. imp[p].req.name \in Names /\ imp[p].req.src \in Sources
  BY <1>1 DEF AttemptOK, Attempt, Request
<1>3. FinalStatus(p) \in Statuses
  BY <1>1, <1>2, RegistryAssumption, SummarizeType DEF FinalStatus
<1> QED
  BY <1>2, <1>3 DEF FinalRow, FinalState, Row, States

\* With the finalize commit the swap is accounted for.
LEMMA FinalizeCommitSerial ==
    ASSUME Inv, SerialInv, NEW p \in Importers, FinalizeCommit(p), UNCHANGED ops
    PROVE  SerialInv'
<1> DEFINE i == imp[p].rid
           q == imp[p].req
<1>1. /\ imp \in [Importers -> Attempt] /\ imp[p] \in Attempt /\ AttemptNow(p)
      /\ imp[p].pc = "finalizeCommit" /\ Live(p) /\ rows \in [Ids -> Row \cup {None}]
  BY DEF Inv, TypeOK, ImportTypeOK, RegistryTypeOK, SerialInv, FinalizeCommit, At, Live, TryBlock
<1>2. /\ OwnRelease(p) /\ rows' = [rows EXCEPT ![i] = FinalRow(p)] /\ UNCHANGED partition
      /\ imp[p].imported = q.src /\ partition[i] = q.src
  BY FinalizeEffect
<1>3. /\ i \in Ids /\ Exists(i) /\ rows[i].name = q.name
      /\ imp[p].wasActive <=> rows[i].state = "active"
  BY <1>2 DEF OwnRelease, Found
<1>4. /\ imp'[p].pc = "readBack" /\ imp'[p].rid = i /\ imp'[p].req = q
      /\ imp'[p].wasActive = imp[p].wasActive /\ ~imp'[p].swapped
      /\ imp'[p].imported = q.src /\ \A r \in Importers \ {p} : imp'[r] = imp[r]
  BY <1>1, <1>2 DEF FinalizeCommit, Attempt
<1>5. /\ FinalRow(p).name = q.name /\ FinalRow(p).checksum = q.src
      /\ FinalRow(p).state = (IF imp[p].wasActive THEN "active" ELSE "ready")
      /\ FinalRow(p).validation = Summarize(StagingStatus[q.src], ProductionStatus[q.src])
  BY <1>2 DEF FinalRow, FinalState, FinalStatus
<1>6. FinalRow(p) # None
  BY FinalRowType, RegistryAssumption
<1>7. \A j \in Ids : j # i /\ UnaccountedSwap(j) => UnaccountedSwap(j)'
  BY <1>4 DEF UnaccountedSwap
<1>7a. FinalRow(p).validation # "failed"
  <2>1. Checked(q.src)
    BY <1>1 DEF AttemptNow
  <2> QED
    BY <1>5, <2>1 DEF Checked, Summarize
<1> HIDE DEF i
<1>8. TablesOK'
  BY <1>2, <1>3, <1>5, <1>6, <1>7, <1>7a, RewriteTables
<1>9. Published(p)' /\ (imp'[p].wasActive <=> rows'[i].state = "active")
  <2>1. rows'[i] = FinalRow(p)
    BY <1>1, <1>2, <1>3
  <2> QED
    BY <1>2, <1>3, <1>4, <1>5, <1>6, <2>1 DEF Published, Found, Exists
<1>10. AttemptNow(p)'
  BY <1>4, <1>9 DEF AttemptNow, At, Recording, ImportEnded
<1>11. OnlyAttempt(p)
  BY <1>1, AtWorkAlone
<1> QED
  BY <1>4, <1>8, <1>10, <1>11, SerialFrame

\* The gate is consulted over the row as the finalize left it.
LEMMA ReadBackSerial ==
    ASSUME Inv, SerialInv, NEW p \in Importers, ReadBack(p), UNCHANGED ops
    PROVE  SerialInv'
<1> DEFINE i == imp[p].rid
           q == imp[p].req
           active == ActiveIds(FamilyOf[q.name])
<1>1. /\ imp \in [Importers -> Attempt] /\ imp[p] \in Attempt /\ AttemptNow(p)
      /\ imp[p].pc = "readBack" /\ Live(p) /\ UNCHANGED registryVars
  BY DEF Inv, TypeOK, ImportTypeOK, SerialInv, ReadBack, At, Live, TryBlock
<1>2. Published(p) /\ (imp[p].wasActive <=> rows[i].state = "active")
  BY <1>1 DEF AttemptNow, At
<1>3. CASE Raise(p)
  BY <1>1, <1>3, FailSerial DEF registryVars
<1>4. CASE Goto(p, "cleanup")
  <2>1. Published(p)'
    BY <1>1, <1>2, <1>4, GotoFields DEF Published, Found, Exists, registryVars
  <2>2. AttemptNow(p)'
    BY <1>1, <1>4, <2>1, GotoFields DEF AttemptNow, At, Recording, ImportEnded
  <2> QED
    BY <1>1, <1>4, <2>2, GotoFields, AtWorkAlone, QuietSerial DEF registryVars
<1>5. ASSUME ~imp[p].wasActive, q.activate, Gate(FinalStatus(p), q) = "activate",
             rows[i].state \in Activatable,
             NEW c \in IF active = {} THEN {None} ELSE active,
             imp' = [imp EXCEPT ![p].pc = "activate", ![p].target = i, ![p].current = c]
      PROVE  SerialInv'
  <2>1. /\ imp'[p].pc = "activate" /\ imp'[p].target = i /\ imp'[p].current = c
        /\ imp'[p].req = q /\ imp'[p].swapped = imp[p].swapped /\ imp'[p].rid = i
        /\ imp'[p].imported = imp[p].imported
        /\ \A r \in Importers \ {p} : imp'[r] = imp[r]
    BY <1>1, <1>5 DEF Attempt
  <2>2. rows[i].state = "ready"
    BY <1>2, <1>5 DEF Published, Found, Activatable
  <2>3. Published(p)' /\ rows'[i].state = "ready"
    BY <1>1, <1>2, <2>1, <2>2 DEF Published, Found, Exists, registryVars
  <2>4. Supersedes(c, q.name)
    BY <1>5, LoadedSupersedes
  <2>5. Supersedes(c, q.name)'
    BY <1>1, <2>1, <2>4 DEF Supersedes, ActiveIds, Exists, FamilyOfId, registryVars
  <2>6. Gate(FinalStatus(p), q)' = "activate"
    BY <1>5, <2>1 DEF FinalStatus
  <2>7. AttemptNow(p)'
    BY <1>1, <1>5, <2>1, <2>3, <2>5, <2>6 DEF AttemptNow, At, Recording, ImportEnded
  <2> QED
    BY <1>1, <2>1, <2>7, AtWorkAlone, QuietSerial DEF registryVars
<1> DEFINE gate == IF imp[p].wasActive \/ ~q.activate THEN "hold" ELSE Gate(FinalStatus(p), q)
<1>6. \/ Goto(p, "cleanup")
      \/ /\ gate = "activate" /\ rows[i].state \in Activatable
         /\ \E c \in IF active = {} THEN {None} ELSE active :
               imp' = [imp EXCEPT ![p].pc = "activate", ![p].target = i, ![p].current = c]
      \/ Raise(p)
  BY DEF ReadBack
<1>7. gate = "activate" => ~imp[p].wasActive /\ q.activate /\ Gate(FinalStatus(p), q) = "activate"
  OBVIOUS
<1> HIDE DEF gate
<1> QED
  BY <1>3, <1>4, <1>5, <1>6, <1>7

\* What an activation changes: the states of two rows, and nothing else.
LEMMA ActivationEffect ==
    ASSUME Inv, NEW i \in Ids, NEW c, ActivationCommits(i, c), rows' = WithActive(i, c)
    PROVE  \A j \in Ids :
              /\ rows'[j] # None <=> rows[j] # None
              /\ rows[j] # None =>
                    /\ rows'[j].name = rows[j].name
                    /\ rows'[j].checksum = rows[j].checksum
                    /\ rows'[j].table = rows[j].table
                    /\ rows'[j].validation = rows[j].validation
                    /\ rows'[j].state = IF j = i THEN "active"
                                        ELSE IF j = c THEN "superseded" ELSE rows[j].state
<1>1. rows \in [Ids -> Row \cup {None}]
  BY DEF Inv, TypeOK, RegistryTypeOK
<1>2. rows[i] # None /\ (c # None => rows[c] # None)
  BY DEF ActivationCommits, Exists
<1>3. ASSUME NEW r \in Row, NEW s \in States
      PROVE  LET a == [r EXCEPT !.state = s] IN
             /\ a \in Row /\ a.name = r.name /\ a.checksum = r.checksum
             /\ a.table = r.table /\ a.validation = r.validation /\ a.state = s
  BY DEF Row
<1>4. {"active", "superseded"} \subseteq States
  BY DEF States
<1> SUFFICES ASSUME NEW j \in Ids
             PROVE  /\ rows'[j] # None <=> rows[j] # None
                    /\ rows[j] # None =>
                          /\ rows'[j].name = rows[j].name
                          /\ rows'[j].checksum = rows[j].checksum
                          /\ rows'[j].table = rows[j].table
                          /\ rows'[j].validation = rows[j].validation
                          /\ rows'[j].state = IF j = i THEN "active"
                                              ELSE IF j = c THEN "superseded"
                                              ELSE rows[j].state
  OBVIOUS
<1>5. rows[j] # None => rows[j] \in Row
  BY <1>1
<1>6. CASE j = i
  <2>1. rows'[j] = [rows[j] EXCEPT !.state = "active"]
    BY <1>6 DEF WithActive
  <2> QED
    BY <1>2, <1>3, <1>4, <1>5, <1>6, <2>1, RegistryAssumption
<1>7. CASE j # i /\ j = c
  <2>1. rows'[j] = [rows[j] EXCEPT !.state = "superseded"] /\ c # None
    BY <1>7, RegistryAssumption DEF WithActive
  <2> QED
    BY <1>2, <1>3, <1>4, <1>5, <1>7, <2>1, RegistryAssumption
<1>8. CASE j # i /\ j # c
  BY <1>8 DEF WithActive
<1> QED
  BY <1>6, <1>7, <1>8

\* Of a release that can be activated and the active one it supersedes, an
\* activation takes neither out of a built state nor touches the provenance.
LEMMA ActivationTables ==
    ASSUME Inv, SerialInv, NEW i \in Ids, NEW c, NEW n, Found(i, n, Activatable), Supersedes(c, n),
           ActivationCommits(i, c), rows' = WithActive(i, c), UNCHANGED partition,
           \A j \in Ids : UnaccountedSwap(j) => UnaccountedSwap(j)'
    PROVE  TablesOK'
<1>1. \A j \in Ids : Exists(j)' <=> Exists(j)
  BY ActivationEffect DEF Exists
<1>2. NamesAreUnique'
  BY <1>1, ActivationEffect DEF SerialInv, NamesAreUnique, Exists
<1>3. PartitionsAreChecked'
  BY DEF SerialInv, PartitionsAreChecked, Checked
<1>4. \A j \in Ids : Exists(j) /\ rows'[j].state \in Built => rows[j].state \in Built
  <2>1. Exists(i) /\ rows[i].state \in Built
    BY DEF Found, Activatable, Built
  <2>2. c # None => Exists(c) /\ rows[c].state \in Built
    BY DEF Supersedes, ActiveIds, Built
  <2>3. \A j \in Ids : j # None
    BY RegistryAssumption
  <2> QED
    BY <2>1, <2>2, <2>3, ActivationEffect DEF Exists
<1>5. RowsAreDescribed'
  BY <1>1, <1>4, ActivationEffect DEF SerialInv, RowsAreDescribed, RowDescribesPartition, Exists
<1>6. BuiltRowsPassed'
  BY <1>1, <1>4, ActivationEffect DEF SerialInv, BuiltRowsPassed, Exists
<1> QED
  BY <1>2, <1>3, <1>5, <1>6 DEF TablesOK

\* The activation at the end of an import, or after a skip.
LEMMA ActivateImportedSerial ==
    ASSUME Inv, SerialInv, NEW p \in Importers, ActivateImported(p), UNCHANGED ops
    PROVE  SerialInv'
<1> DEFINE i == imp[p].target
           c == imp[p].current
           q == imp[p].req
<1>1. /\ imp \in [Importers -> Attempt] /\ imp[p] \in Attempt /\ AttemptNow(p)
      /\ imp[p].pc \in {"activate", "skipActivate"} /\ Live(p)
  BY DEF Inv, TypeOK, ImportTypeOK, SerialInv, ActivateImported, At, Live, TryBlock
<1>2. /\ ActivationCommits(i, c) /\ rows' = WithActive(i, c) /\ UNCHANGED partition
  BY DEF ActivateImported
<1>3. i \in Ids /\ Found(i, q.name, Activatable) /\ Supersedes(c, q.name) /\ ~imp[p].swapped
  BY <1>1 DEF AttemptNow, At, Published, Found, Activatable, Recording, ImportEnded
<1>4. /\ \A r \in Importers \ {p} : imp'[r] = imp[r]
      /\ ~imp[p].swapped
  BY <1>1, <1>3 DEF ActivateImported, Finish
<1>5. \A j \in Ids : UnaccountedSwap(j) => UnaccountedSwap(j)'
  BY <1>4, StillUnaccounted
<1>6. TablesOK'
  BY <1>2, <1>3, <1>5, ActivationTables
<1>6a. /\ rows[i] # None /\ rows'[i] # None /\ rows'[i].name = rows[i].name
       /\ rows'[i].checksum = rows[i].checksum /\ rows'[i].state = "active"
  BY <1>2, <1>3, ActivationEffect DEF Found, Exists
<1>7. CASE At(p, "skipActivate")
  <2>1. imp' = [imp EXCEPT ![p].pc = "skipReport", ![p].current = None]
    BY <1>7 DEF ActivateImported, At
  <2>2. /\ imp'[p].pc = "skipReport" /\ imp'[p].req = q /\ imp'[p].swapped = imp[p].swapped
        /\ imp'[p].target = i
    BY <1>1, <2>1 DEF Attempt
  <2>3. Found(i, q.name, {"active"})' /\ rows'[i].checksum = q.src
    BY <1>1, <1>3, <1>6a, <1>7, <2>2 DEF AttemptNow, Found, Exists
  <2>4. AttemptNow(p)'
    BY <1>4, <2>2, <2>3 DEF AttemptNow, At, Recording, ImportEnded
  <2> QED
    BY <1>1, <1>4, <1>6, <2>4, AtWorkAlone, SerialFrame
<1>8. CASE At(p, "activate")
  <2>1. imp' = [imp EXCEPT ![p].pc = "cleanup", ![p].current = None]
    BY <1>8 DEF ActivateImported, At
  <2>2. /\ imp'[p].pc = "cleanup" /\ imp'[p].req = q /\ imp'[p].swapped = imp[p].swapped
        /\ imp'[p].rid = imp[p].rid /\ imp'[p].imported = imp[p].imported
    BY <1>1, <2>1 DEF Attempt
  <2>3. i = imp[p].rid /\ Published(p)
    BY <1>1, <1>8 DEF AttemptNow
  <2>4. Published(p)'
    BY <1>2, <1>6a, <2>2, <2>3 DEF Published, Found, Exists
  <2>5. AttemptNow(p)'
    BY <1>4, <2>2, <2>4 DEF AttemptNow, At, Recording, ImportEnded
  <2> QED
    BY <1>1, <1>4, <1>6, <2>5, AtWorkAlone, SerialFrame
<1> QED
  BY <1>1, <1>7, <1>8 DEF At

\* The event of the skip reads a row that nobody has removed.
LEMMA ReportSkipSerial ==
    ASSUME Inv, SerialInv, NEW p \in Importers, ReportSkip(p), UNCHANGED ops
    PROVE  SerialInv'
<1>1. Live(p) /\ (Raise(p) \/ Finish(p, "done")) /\ UNCHANGED registryVars
  BY DEF ReportSkip, At, Live, TryBlock
<1> QED
  BY <1>1, FailSerial DEF registryVars, ImportEnded

\* The recorder loads the release by its name.
LEMMA RecordSerial ==
    ASSUME Inv, SerialInv, NEW p \in Importers, Record(p), UNCHANGED ops
    PROVE  SerialInv'
<1> DEFINE named == IdsNamed(imp[p].req.name)
<1>1. /\ imp \in [Importers -> Attempt] /\ imp[p] \in Attempt /\ AttemptNow(p)
      /\ imp[p].pc = "record" /\ Live(p) /\ UNCHANGED registryVars
      /\ rows \in [Ids -> Row \cup {None}]
  BY DEF Inv, TypeOK, ImportTypeOK, RegistryTypeOK, SerialInv, Record, At, Live, Recording
<1>2. PICK i \in IF named = {} THEN {None} ELSE named :
         imp' = [imp EXCEPT ![p].pc = "recordCommit", ![p].target = i,
                            ![p].loaded = IF i = None THEN None ELSE rows[i]]
  BY DEF Record
<1>3. /\ imp'[p].pc = "recordCommit" /\ imp'[p].target = i /\ imp'[p].req = imp[p].req
      /\ imp'[p].loaded = (IF i = None THEN None ELSE rows[i])
      /\ imp'[p].swapped = imp[p].swapped /\ imp'[p].rid = imp[p].rid
      /\ \A r \in Importers \ {p} : imp'[r] = imp[r]
  BY <1>1, <1>2 DEF Attempt
<1>4. i # None => Found(i, imp[p].req.name, States)
  BY <1>1 DEF IdsNamed, Found, Exists, Row
<1>5. i # None => Found(i, imp[p].req.name, States)' /\ imp'[p].loaded = rows'[i]
  BY <1>1, <1>3, <1>4 DEF Found, Exists, registryVars
<1>6. AttemptNow(p)'
  BY <1>1, <1>3, <1>5 DEF AttemptNow, At, Recording, ImportEnded, Found
<1> QED
  BY <1>1, <1>3, <1>6, AtWorkAlone, QuietSerial DEF registryVars

\* What the recorder makes of a row.
RecordedRow(row) ==
    [name |-> row.name, state |-> RecordedState(row), checksum |-> row.checksum,
     table |-> row.table, validation |-> row.validation]

\* The recorder marks FAILED a release that has nothing built, and no other.
LEMMA RecordEffect ==
    ASSUME Inv, SerialInv, NEW p \in Importers, RecordCommit(p)
    PROVE  \/ UNCHANGED rows
           \/ \E i \in Ids :
                 /\ Exists(i)
                 /\ rows' = [rows EXCEPT ![i] = RecordedRow(rows[i])]
                 /\ RecordedRow(rows[i]) \in Row
                 /\ RecordedState(rows[i]) # rows[i].state =>
                       /\ RecordedState(rows[i]) = "failed"
                       /\ rows[i].state \in {"registered", "failed"}
<1> DEFINE i == imp[p].target
<1>1. /\ AttemptNow(p) /\ At(p, "recordCommit") /\ rows \in [Ids -> Row \cup {None}]
  BY DEF Inv, TypeOK, RegistryTypeOK, SerialInv, RecordCommit
<1>2. CASE i = None
  BY <1>2 DEF RecordCommit
<1>3. CASE i # None
  <2>1. i \in Ids /\ Exists(i) /\ imp[p].loaded = rows[i] /\ rows[i] \in Row
    BY <1>1, <1>3 DEF AttemptNow, Found, Exists
  <2> DEFINE assigned == [rows[i] EXCEPT !.state = RecordedState(rows[i])]
  <2>2. /\ assigned.state = RecordedState(rows[i]) /\ assigned.checksum = rows[i].checksum
        /\ assigned.table = rows[i].table /\ assigned.validation = rows[i].validation
    BY <2>1 DEF Row
  <2>3. rows' = [rows EXCEPT ![i] = Flush(rows[i], rows[i], assigned)]
    BY <1>1, <1>3, <2>1 DEF RecordCommit
  <2> HIDE DEF assigned
  <2>3a. Flush(rows[i], rows[i], assigned) = RecordedRow(rows[i])
    BY <2>2, FlushOwn DEF RecordedRow
  <2>4. rows' = [rows EXCEPT ![i] = RecordedRow(rows[i])]
    BY <2>3, <2>3a
  <2>5. RecordedRow(rows[i]) \in Row
    BY <2>1 DEF RecordedRow, RecordedState, Row, States
  <2>6. rows[i].state \in Built => rows[i].table
    BY <2>1 DEF Inv, RowsOK
  <2>7. RecordedState(rows[i]) # rows[i].state =>
           RecordedState(rows[i]) = "failed" /\ rows[i].state \in {"registered", "failed"}
    BY <2>1, <2>6 DEF RecordedState, IsBuilt, Row, States, Built
  <2> QED
    BY <2>1, <2>4, <2>5, <2>7
<1> QED
  BY <1>2, <1>3

\* The failure of an attempt takes nothing from a release that is built.
LEMMA RecordCommitSerial ==
    ASSUME Inv, SerialInv, NEW p \in Importers, RecordCommit(p), UNCHANGED ops
    PROVE  SerialInv'
<1>1. Live(p) /\ Finish(p, "failed") /\ UNCHANGED partition
  BY DEF RecordCommit, At, Live, Recording
<1>2. CASE UNCHANGED rows
  BY <1>1, <1>2, FailSerial DEF ImportEnded
<1>3. ASSUME NEW i \in Ids, Exists(i), rows' = [rows EXCEPT ![i] = RecordedRow(rows[i])],
             RecordedRow(rows[i]) \in Row,
             RecordedState(rows[i]) # rows[i].state => RecordedState(rows[i]) = "failed"
      PROVE  SerialInv'
  <2> DEFINE r == RecordedRow(rows[i])
  <2>1. /\ r # None /\ r.name = rows[i].name /\ r.checksum = rows[i].checksum
        /\ r.validation = rows[i].validation /\ (r.state \in Built => rows[i].state \in Built)
    BY <1>3, RegistryAssumption DEF RecordedRow, Built
  <2>2. /\ \A q \in Importers \ {p} : imp'[q] = imp[q]
        /\ imp[p].swapped => imp'[p].swapped /\ imp'[p].rid = imp[p].rid
        /\ AttemptNow(p)'
    BY <1>1, EndSerial DEF ImportEnded
  <2>3. \A j \in Ids : UnaccountedSwap(j) => UnaccountedSwap(j)'
    BY <2>2, StillUnaccounted
  <2> HIDE DEF r
  <2>4. r.state \in Built /\ partition[i] # None =>
           /\ r.checksum = partition[i] \/ UnaccountedSwap(i)'
           /\ NoRevalidation =>
                 \/ r.validation = Summarize(StagingStatus[partition[i]],
                                             ProductionStatus[partition[i]])
                 \/ UnaccountedSwap(i)'
    BY <1>3, <2>1, <2>3 DEF SerialInv, RowsAreDescribed, RowDescribesPartition
  <2>4a. r.state \in Built => r.validation # "failed"
    BY <1>3, <2>1 DEF SerialInv, BuiltRowsPassed
  <2>5. rows' = [rows EXCEPT ![i] = r]
    BY <1>3 DEF r
  <2>6. TablesOK'
    BY <1>1, <1>3, <2>1, <2>3, <2>4, <2>4a, <2>5, RewriteTables
  <2> QED
    BY <1>1, <2>2, <2>6, AtWorkAlone, SerialFrame
<1> QED
  BY <1>2, <1>3, RecordEffect

\* An import that is done has nothing more to rely on.
LEMMA CleanupSerial ==
    ASSUME Inv, SerialInv, NEW p \in Importers, Cleanup(p), UNCHANGED ops
    PROVE  SerialInv'
<1>1. Live(p) /\ Finish(p, "done") /\ UNCHANGED <<rows, partition>>
  BY DEF Cleanup, At, Live, TryBlock
<1> QED
  BY <1>1, FailSerial DEF ImportEnded

\* What raises changes neither a row nor a partition.
LEMMA FailuresSerial ==
    ASSUME Inv, SerialInv, NEW p \in Importers, UNCHANGED ops,
           \/ RefuseActive(p) \/ OpenRunFails(p) \/ PhaseB1Fails(p) \/ SwapFails(p)
           \/ FinalizeCommitFails(p) \/ ActivateImportedFails(p) \/ RecordCommitFails(p)
           \/ ImportFault(p)
    PROVE  SerialInv'
<1>1. CASE \/ RefuseActive(p) \/ OpenRunFails(p) \/ PhaseB1Fails(p) \/ SwapFails(p)
           \/ FinalizeCommitFails(p) \/ ActivateImportedFails(p)
  <2>1. Live(p) /\ Raise(p) /\ UNCHANGED registryVars
    BY <1>1 DEF RefuseActive, OpenRunFails, PhaseB1Fails, SwapFails, FinalizeCommitFails,
                ActivateImportedFails, At, Live, TryBlock
  <2> QED
    BY <2>1, FailSerial DEF registryVars
<1>2. CASE RecordCommitFails(p) \/ RecorderError(p)
  <2>1. Live(p) /\ Unrecorded(p) /\ UNCHANGED registryVars
    BY <1>2 DEF RecordCommitFails, RecorderError, At, Live, Recording
  <2> QED
    BY <2>1, FailSerial DEF registryVars
<1>3. CASE DatabaseError(p)
  <2>1. Live(p) /\ Raise(p) /\ UNCHANGED registryVars
    BY <1>3 DEF DatabaseError, Live
  <2> QED
    BY <2>1, FailSerial DEF registryVars
<1>4. CASE Crash(p)
  <2>1. Live(p) /\ Finish(p, "crashed") /\ UNCHANGED registryVars
    BY <1>4 DEF Crash
  <2> QED
    BY <2>1, FailSerial DEF registryVars, ImportEnded
<1> QED
  BY <1>1, <1>2, <1>3, <1>4 DEF ImportFault

\* Every step of an attempt.
LEMMA ImportSerial ==
    ASSUME Inv, SerialInv, NEW p \in Importers, ImportStep(p) \/ ImportFault(p), UNCHANGED ops
    PROVE  SerialInv'
BY SyncFamilySerial, OpenSerial, SkipUnchangedSerial, OpenRunSerial, ReadRunIdSerial,
   PhaseASerial, PhaseB1Serial, LockTimeoutSerial, SwapSerial, FinalizeSerial,
   FinalizeCommitSerial, ReadBackSerial, ActivateImportedSerial, ReportSkipSerial, CleanupSerial, RecordSerial, RecordCommitSerial,
   FailuresSerial
   DEF ImportStep

-----------------------------------------------------------------------------
(* Commands                                                                *)

\* A command that ends has nothing to rely on.
LEMMA EndCommand ==
    ASSUME Inv, NEW o \in Operators, NEW l \in OperatorEnded, EndOperation(o, l)
    PROVE  /\ \A u \in Operators \ {o} : ops'[u] = ops[u]
           /\ CommandNow(o)'
<1>1. ops \in [Operators -> Invocation]
  BY DEF Inv, TypeOK, MaintenanceTypeOK
<1>2. ops'[o].pc = l /\ \A u \in Operators \ {o} : ops'[u] = ops[u]
  BY <1>1 DEF EndOperation, NewInvocation
<1> QED
  BY <1>2 DEF CommandNow, Busy, Asked, OperatorEnded

\* A command that ends without a change of the rows and the partitions.
LEMMA EndCommandSerial ==
    ASSUME Inv, SerialInv, NEW o \in Operators, Busy(o), NEW l \in OperatorEnded,
           EndOperation(o, l), UNCHANGED <<rows, partition, imp>>
    PROVE  SerialInv'
BY EndCommand, AtWorkAlone, QuietSerialCommand

\* A command begins when nobody is at work.
LEMMA BeginOperationSerial ==
    ASSUME Exclusive, Inv, SerialInv, NEW o \in Operators, MayStart, BeginOperation(o),
           UNCHANGED imp
    PROVE  SerialInv'
<1>1. ops \in [Operators -> Invocation] /\ ops[o] \in Invocation
  BY DEF Inv, TypeOK, MaintenanceTypeOK
<1>2. PICK q \in OperatorRequests : ops' = [ops EXCEPT ![o].pc = "start", ![o].req = q]
  BY DEF BeginOperation
<1>3. /\ ops'[o].pc = "start" /\ ops'[o].req = q
      /\ \A u \in Operators \ {o} : ops'[u] = ops[u]
  BY <1>1, <1>2 DEF Invocation
<1>4. CommandNow(o)'
  BY <1>3 DEF CommandNow, Busy, Asked
<1>5. OnlyCommand(o)
  BY DEF MayStart, OnlyCommand
<1> QED
  BY <1>3, <1>4, <1>5, QuietSerialCommand DEF BeginOperation, registryVars

\* A command looks its release up by name, and nobody moves it before it acts.
LEMMA LookupSerial ==
    ASSUME Inv, SerialInv, NEW o \in Operators, UNCHANGED imp,
           Activate(o) \/ Deactivate(o) \/ Remove(o) \/ Validate(o)
    PROVE  SerialInv'
<1> DEFINE q == ops[o].req
           active == ActiveIds(FamilyOf[q.name])
<1>1. /\ ops \in [Operators -> Invocation] /\ ops[o] \in Invocation /\ CommandNow(o)
      /\ ops[o].pc = "start" /\ Busy(o) /\ q \in OperatorRequests /\ UNCHANGED registryVars
      /\ rows \in [Ids -> Row \cup {None}]
  BY DEF Inv, TypeOK, MaintenanceTypeOK, RegistryTypeOK, SerialInv, Activate, Deactivate, Remove,
         Validate, Asked, Busy, OperatorEnded, CommandNow
<1>2. \A i \in Named(o) : Found(i, q.name, States) /\ Found(i, q.name, {rows[i].state})
  BY <1>1 DEF Named, IdsNamed, Found, Exists, Row
<1>3. CASE \E l \in OperatorEnded : EndOperation(o, l)
  BY <1>1, <1>3, EndCommandSerial DEF registryVars
<1>4. ASSUME NEW n, NEW i, NEW s, NEW c
      PROVE  /\ Found(i, n, s)' <=> Found(i, n, s)
             /\ Supersedes(c, n)' <=> Supersedes(c, n)
  BY <1>1 DEF Found, Supersedes, ActiveIds, Exists, FamilyOfId, registryVars
<1>5. ASSUME q.kind = "activate", NEW i \in Named(o), Promotable(rows[i]),
             NEW c \in IF active = {} THEN {None} ELSE active,
             ops' = [ops EXCEPT ![o].pc = "commit", ![o].rid = i, ![o].current = c]
      PROVE  SerialInv'
  <2>1. /\ ops'[o].pc = "commit" /\ ops'[o].rid = i /\ ops'[o].current = c /\ ops'[o].req = q
        /\ \A u \in Operators \ {o} : ops'[u] = ops[u]
    BY <1>1, <1>5 DEF Invocation
  <2>2. Found(i, q.name, Activatable) /\ Found(i, q.name, States) /\ Supersedes(c, q.name)
    BY <1>2, <1>5, LoadedSupersedes DEF Found, Promotable
  <2>3. CommandNow(o)'
    BY <1>1, <1>4, <1>5, <2>1, <2>2 DEF CommandNow, Asked
  <2> QED
    BY <1>1, <2>1, <2>3, AtWorkAlone, QuietSerialCommand DEF registryVars
<1>6. ASSUME q.kind = "deactivate", NEW i \in Named(o), rows[i].state = "active",
             ops' = [ops EXCEPT ![o].pc = "commit", ![o].rid = i]
      PROVE  SerialInv'
  <2>1. /\ ops'[o].pc = "commit" /\ ops'[o].rid = i /\ ops'[o].req = q
        /\ \A u \in Operators \ {o} : ops'[u] = ops[u]
    BY <1>1, <1>6 DEF Invocation
  <2>2. Found(i, q.name, {"active"}) /\ Found(i, q.name, States)
    BY <1>2, <1>6
  <2>3. CommandNow(o)'
    BY <1>1, <1>4, <1>6, <2>1, <2>2 DEF CommandNow, Asked
  <2> QED
    BY <1>1, <2>1, <2>3, AtWorkAlone, QuietSerialCommand DEF registryVars
<1>7. ASSUME q.kind = "remove", NEW i \in Named(o), ~Refused(rows[i], q),
             ops' = [ops EXCEPT ![o].pc = "drop", ![o].rid = i, ![o].prod = rows[i].table]
      PROVE  SerialInv'
  <2>1. /\ ops'[o].pc = "drop" /\ ops'[o].rid = i /\ ops'[o].req = q
        /\ ops'[o].prod = rows[i].table
        /\ \A u \in Operators \ {o} : ops'[u] = ops[u]
    BY <1>1, <1>7 DEF Invocation
  <2>2. Found(i, q.name, States) /\ (rows[i].state = "active" => q.force)
    BY <1>2, <1>7 DEF Refused
  <2>3. CommandNow(o)'
    BY <1>1, <1>4, <1>7, <2>1, <2>2 DEF CommandNow, Asked, registryVars
  <2> QED
    BY <1>1, <2>1, <2>3, AtWorkAlone, QuietSerialCommand DEF registryVars
<1>8. ASSUME q.kind = "validate", NEW i \in Named(o),
             ops' = [ops EXCEPT ![o].pc = "check", ![o].rid = i]
      PROVE  SerialInv'
  <2>1. /\ ops'[o].pc = "check" /\ ops'[o].rid = i /\ ops'[o].req = q
        /\ \A u \in Operators \ {o} : ops'[u] = ops[u]
    BY <1>1, <1>8 DEF Invocation
  <2>2. CommandNow(o)'
    BY <1>1, <1>2, <1>4, <1>8, <2>1 DEF CommandNow, Asked
  <2> QED
    BY <1>1, <2>1, <2>2, AtWorkAlone, QuietSerialCommand DEF registryVars
<1>9. CASE Activate(o)
  BY <1>5, <1>9 DEF Activate, Asked
<1>10. CASE Deactivate(o)
  <2>1. "done" \in OperatorEnded
    BY DEF OperatorEnded
  <2> QED
    BY <1>3, <1>6, <1>10, <2>1 DEF Deactivate, Asked
<1>11. CASE Remove(o)
  <2>1. "failed" \in OperatorEnded
    BY DEF OperatorEnded
  <2> QED
    BY <1>3, <1>7, <1>11, <2>1 DEF Remove, Asked
<1>12. CASE Validate(o)
  <2>1. "failed" \in OperatorEnded
    BY DEF OperatorEnded
  <2> QED
    BY <1>3, <1>8, <1>12, <2>1 DEF Validate, Asked
<1> QED
  BY <1>9, <1>10, <1>11, <1>12

\* A refusal, a re-affirmation, a clean-up and a kill change no row.
LEMMA OthersSerial ==
    ASSUME Inv, SerialInv, NEW o \in Operators, UNCHANGED imp,
           ActivateNothing(o) \/ CleanStaging(o) \/ UnknownRelease(o) \/ Interrupt(o)
    PROVE  SerialInv'
<1>1. {"done", "failed", "crashed"} \subseteq OperatorEnded
  BY DEF OperatorEnded
<1>2. PICK l \in OperatorEnded : EndOperation(o, l) /\ Busy(o) /\ UNCHANGED <<rows, partition>>
  BY <1>1 DEF ActivateNothing, CleanStaging, UnknownRelease, Interrupt, Busy, Asked,
              OperatorEnded, registryVars
<1> QED
  BY <1>2, EndCommandSerial

\* The commit of `activate`.
LEMMA ActivateCommitSerial ==
    ASSUME Inv, SerialInv, NEW o \in Operators, ActivateCommit(o), UNCHANGED imp
    PROVE  SerialInv'
<1> DEFINE i == ops[o].rid
           c == ops[o].current
           q == ops[o].req
<1>1. /\ CommandNow(o) /\ Asked(o, "commit", "activate") /\ Busy(o) /\ UNCHANGED partition
      /\ {"done", "failed"} \subseteq OperatorEnded
  BY DEF SerialInv, ActivateCommit, Asked, Busy, OperatorEnded
<1>2. i \in Ids /\ Found(i, q.name, Activatable) /\ Supersedes(c, q.name)
  BY <1>1 DEF CommandNow, Found
<1>3. CASE ActivationCommits(i, c)
  <2>1. rows' = WithActive(i, c) /\ EndOperation(o, "done")
    BY <1>3 DEF ActivateCommit
  <2>2. TablesOK'
    BY <1>1, <1>2, <1>3, <2>1, ActivationTables DEF UnaccountedSwap
  <2> QED
    BY <1>1, <2>1, <2>2, EndCommand, AtWorkAlone, SerialCommandFrame
<1>4. CASE ~ActivationCommits(i, c)
  <2>1. UNCHANGED rows /\ EndOperation(o, "failed")
    BY <1>4 DEF ActivateCommit
  <2> QED
    BY <1>1, <2>1, EndCommandSerial
<1> QED
  BY <1>3, <1>4

\* The row of an active release after `deactivate`, and of a validated one.
WithState(row, s) == [row EXCEPT !.state = s]
WithValidation(row, s) == [row EXCEPT !.validation = s]

\* The commit of `deactivate`: the release was there and ACTIVE.
LEMMA DeactivateEffect ==
    ASSUME Inv, SerialInv, NEW o \in Operators, DeactivateCommit(o)
    PROVE  LET i == ops[o].rid  r == WithState(rows[i], "superseded") IN
           /\ Found(i, ops[o].req.name, {"active"})
           /\ rows' = [rows EXCEPT ![i] = r]
           /\ r \in Row /\ r.name = rows[i].name /\ r.checksum = rows[i].checksum
           /\ r.validation = rows[i].validation /\ r.state = "superseded"
           /\ EndOperation(o, "done")
<1> DEFINE i == ops[o].rid
<1>1. Found(i, ops[o].req.name, {"active"}) /\ rows[i] \in Row /\ Exists(i)
  BY DEF SerialInv, CommandNow, DeactivateCommit, Inv, TypeOK, RegistryTypeOK, Found, Exists
<1>2. rows' = [rows EXCEPT ![i] = WithState(rows[i], "superseded")] /\ EndOperation(o, "done")
  BY <1>1 DEF DeactivateCommit, WithState
<1>3. LET r == WithState(rows[i], "superseded") IN
      /\ r \in Row /\ r.name = rows[i].name /\ r.checksum = rows[i].checksum
      /\ r.validation = rows[i].validation /\ r.state = "superseded"
  BY <1>1 DEF WithState, Row, States
<1> QED
  BY <1>1, <1>2, <1>3

\* A release that is no longer ACTIVE stays described.
LEMMA DeactivateCommitSerial ==
    ASSUME Inv, SerialInv, NEW o \in Operators, DeactivateCommit(o), UNCHANGED imp
    PROVE  SerialInv'
<1> PICK i \in Ids : i = ops[o].rid
  BY DeactivateEffect DEF Found
<1> DEFINE r == WithState(rows[i], "superseded")
<1>1. /\ Found(i, ops[o].req.name, {"active"}) /\ rows' = [rows EXCEPT ![i] = r]
      /\ r \in Row /\ r.name = rows[i].name /\ r.checksum = rows[i].checksum
      /\ r.validation = rows[i].validation /\ EndOperation(o, "done")
  BY DeactivateEffect
<1>2. /\ i \in Ids /\ Exists(i) /\ rows[i].state \in Built /\ r # None
      /\ Busy(o) /\ UNCHANGED partition /\ "done" \in OperatorEnded
  BY <1>1, RegistryAssumption DEF Found, Built, DeactivateCommit, Asked, Busy, OperatorEnded
<1>3. \A j \in Ids : UnaccountedSwap(j) => UnaccountedSwap(j)'
  BY DEF UnaccountedSwap
<1> HIDE DEF r
<1>4. partition[i] # None =>
         /\ r.checksum = partition[i] \/ UnaccountedSwap(i)'
         /\ NoRevalidation =>
               \/ r.validation = Summarize(StagingStatus[partition[i]],
                                           ProductionStatus[partition[i]])
               \/ UnaccountedSwap(i)'
  BY <1>1, <1>2, <1>3 DEF SerialInv, RowsAreDescribed, RowDescribesPartition
<1>4a. r.validation # "failed"
  BY <1>1, <1>2 DEF SerialInv, BuiltRowsPassed
<1>5. TablesOK'
  BY <1>1, <1>2, <1>3, <1>4, <1>4a, RewriteTables
<1> QED
  BY <1>1, <1>2, <1>5, EndCommand, AtWorkAlone, SerialCommandFrame

\* A removal waits for a lock while its release stays what it was.
LEMMA QueueingSerial ==
    ASSUME Inv, SerialInv, NEW o \in Operators, AwaitLock(o) \/ DetachFails(o), UNCHANGED imp
    PROVE  SerialInv'
<1> DEFINE i == ops[o].rid
           q == ops[o].req
<1>1. /\ ops \in [Operators -> Invocation] /\ ops[o] \in Invocation /\ CommandNow(o) /\ Busy(o)
      /\ UNCHANGED registryVars /\ "failed" \in OperatorEnded
  BY DEF Inv, TypeOK, MaintenanceTypeOK, SerialInv, AwaitLock, DetachFails, Asked, Busy,
         OperatorEnded
<1>2. CASE DetachFails(o)
  BY <1>1, <1>2, EndCommandSerial DEF DetachFails, registryVars
<1>3. CASE AwaitLock(o)
  <2>1. /\ ops[o].pc = "drop" /\ partition[i] # None
        /\ ops' = [ops EXCEPT ![o].pc = "wait"]
    BY <1>3 DEF AwaitLock, Asked, Blocked
  <2>2. /\ ops'[o].pc = "wait" /\ ops'[o].rid = i /\ ops'[o].req = q /\ ops'[o].prod = ops[o].prod
        /\ \A u \in Operators \ {o} : ops'[u] = ops[u]
    BY <1>1, <2>1 DEF Invocation
  <2>3. CommandNow(o)'
    BY <1>1, <2>1, <2>2 DEF CommandNow, Asked, Found, Exists, Busy, OperatorEnded, registryVars
  <2> QED
    BY <1>1, <2>2, <2>3, AtWorkAlone, QuietSerialCommand DEF registryVars
<1> QED
  BY <1>2, <1>3

\* A removal drops the partition of its own release.
LEMMA RemovePartitionSerial ==
    ASSUME Inv, SerialInv, NEW o \in Operators, RemovePartition(o), UNCHANGED imp
    PROVE  SerialInv'
<1> DEFINE i == ops[o].rid
           q == ops[o].req
<1>1. /\ ops \in [Operators -> Invocation] /\ ops[o] \in Invocation /\ CommandNow(o)
      /\ partition \in [Ids -> Sources \cup {None}]
      /\ ops[o].pc \in {"drop", "wait"} /\ q.kind = "remove" /\ Busy(o) /\ q \in OperatorRequests
      /\ UNCHANGED rows
  BY DEF Inv, TypeOK, MaintenanceTypeOK, RegistryTypeOK, SerialInv, RemovePartition, Asked, Busy,
         OperatorEnded, CommandNow
<1>2. /\ partition' = (IF ops[o].prod THEN [partition EXCEPT ![i] = None] ELSE partition)
      /\ ops' = [ops EXCEPT ![o].pc = "delete", ![o].dropped = ops[o].prod]
  BY DEF RemovePartition
<1>3. /\ ops'[o].pc = "delete" /\ ops'[o].rid = i /\ ops'[o].req = q /\ ops'[o].prod = ops[o].prod
      /\ \A u \in Operators \ {o} : ops'[u] = ops[u]
  BY <1>1, <1>2 DEF Invocation
<1>4. /\ Found(i, q.name, States) /\ (rows[i].state = "active" => q.force)
      /\ ops[o].prod <=> rows[i].table
  BY <1>1 DEF CommandNow, Asked
<1>5. i \in Ids /\ \A j \in Ids : partition'[j] \in {partition[j], None}
  BY <1>1, <1>2, <1>4 DEF Found
<1>6. ops[o].prod => partition'[i] = None
  BY <1>1, <1>2, <1>5
<1>7. CommandNow(o)'
  BY <1>1, <1>3, <1>4, <1>6 DEF CommandNow, Asked, Found, Exists
<1>8. NamesAreUnique' /\ PartitionsAreChecked' /\ BuiltRowsPassed'
  BY <1>1, <1>5 DEF SerialInv, NamesAreUnique, PartitionsAreChecked, BuiltRowsPassed, Exists,
                    Checked
<1>9. RowsAreDescribed'
  <2>1. \A j \in Ids : partition'[j] # None => partition'[j] = partition[j]
    BY <1>5
  <2> QED
    BY <1>1, <2>1 DEF SerialInv, RowsAreDescribed, RowDescribesPartition, Exists, UnaccountedSwap
<1> QED
  BY <1>1, <1>3, <1>7, <1>8, <1>9, AtWorkAlone, SerialCommandFrame DEF TablesOK

\* The row goes.
LEMMA RemoveRowSerial ==
    ASSUME Inv, SerialInv, NEW o \in Operators, RemoveRow(o), UNCHANGED imp
    PROVE  SerialInv'
<1> DEFINE i == ops[o].rid
<1>1. /\ rows \in [Ids -> Row \cup {None}] /\ rows' = [rows EXCEPT ![i] = None]
      /\ UNCHANGED partition /\ EndOperation(o, "done") /\ "done" \in OperatorEnded /\ Busy(o)
  BY DEF Inv, TypeOK, RegistryTypeOK, RemoveRow, Asked, Busy, OperatorEnded
<1>2. \A j \in Ids : rows'[j] # None => rows'[j] = rows[j]
  BY <1>1
<1>3. NamesAreUnique' /\ PartitionsAreChecked' /\ BuiltRowsPassed'
  BY <1>1, <1>2 DEF SerialInv, NamesAreUnique, PartitionsAreChecked, BuiltRowsPassed, Exists,
                    Checked
<1>4. RowsAreDescribed'
  BY <1>1, <1>2 DEF SerialInv, RowsAreDescribed, RowDescribesPartition, Exists, UnaccountedSwap
<1> QED
  BY <1>1, <1>3, <1>4, EndCommand, AtWorkAlone, SerialCommandFrame DEF TablesOK

\* The checks of `validate` read the partition.
LEMMA ValidatePartitionSerial ==
    ASSUME Inv, SerialInv, NEW o \in Operators, ValidatePartition(o), UNCHANGED imp
    PROVE  SerialInv'
<1> DEFINE i == ops[o].rid
           q == ops[o].req
<1>1. /\ ops \in [Operators -> Invocation] /\ ops[o] \in Invocation /\ CommandNow(o)
      /\ ops[o].pc = "check" /\ q.kind = "validate" /\ Busy(o) /\ q \in OperatorRequests
      /\ UNCHANGED registryVars /\ "failed" \in OperatorEnded
  BY DEF Inv, TypeOK, MaintenanceTypeOK, SerialInv, ValidatePartition, Asked, Busy,
         OperatorEnded, CommandNow
<1>2. CASE partition[i] = None
  BY <1>1, <1>2, EndCommandSerial DEF ValidatePartition, registryVars
<1>3. CASE partition[i] # None
  <2>1. ops' = [ops EXCEPT ![o].pc = "commit", ![o].status = ProductionStatus[partition[i]]]
    BY <1>3 DEF ValidatePartition
  <2>2. /\ ops'[o].pc = "commit" /\ ops'[o].rid = i /\ ops'[o].req = q
        /\ ops'[o].status = ProductionStatus[partition[i]]
        /\ \A u \in Operators \ {o} : ops'[u] = ops[u]
    BY <1>1, <2>1 DEF Invocation
  <2>2a. ops'[o].status # "failed"
    BY <1>1, <1>3, <2>2 DEF CommandNow, Found, SerialInv, PartitionsAreChecked, Checked
  <2>3. CommandNow(o)'
    BY <1>1, <2>2, <2>2a DEF CommandNow, Asked, Found, Exists, registryVars
  <2> QED
    BY <1>1, <2>2, <2>3, AtWorkAlone, QuietSerialCommand DEF registryVars
<1> QED
  BY <1>2, <1>3

\* The commit of `validate` touches the status of the row alone.
LEMMA ValidateCommitSerial ==
    ASSUME Inv, SerialInv, NEW o \in Operators, ValidateCommit(o), UNCHANGED imp
    PROVE  SerialInv'
<1> PICK i \in Ids : i = ops[o].rid
  BY DEF SerialInv, CommandNow, ValidateCommit, Asked, Found
<1> DEFINE r == WithValidation(rows[i], ops[o].status)
<1>1. /\ CommandNow(o) /\ Asked(o, "commit", "validate") /\ Busy(o) /\ UNCHANGED partition
      /\ rows \in [Ids -> Row \cup {None}] /\ ops[o] \in Invocation
      /\ "done" \in OperatorEnded
  BY DEF Inv, TypeOK, MaintenanceTypeOK, RegistryTypeOK, SerialInv, ValidateCommit, Asked, Busy,
         OperatorEnded
<1>2. Found(i, ops[o].req.name, States) /\ ~NoRevalidation
  BY <1>1 DEF CommandNow, Asked, NoRevalidation
<1>3. i \in Ids /\ Exists(i) /\ rows[i] \in Row /\ ops[o].status \in Statuses
  <2>1. ops[o].status # None
    BY <1>1 DEF Inv, CommandOK
  <2> QED
    BY <1>1, <1>2, <2>1 DEF Found, Exists, Invocation
<1>4. rows' = [rows EXCEPT ![i] = r] /\ EndOperation(o, "done")
  BY <1>3 DEF ValidateCommit, WithValidation
<1>5. /\ r \in Row /\ r.name = rows[i].name /\ r.checksum = rows[i].checksum
      /\ r.state = rows[i].state /\ r.validation = ops[o].status
  BY <1>3 DEF WithValidation, Row
<1>6. r # None
  BY <1>5, RegistryAssumption
<1>7. \A j \in Ids : UnaccountedSwap(j) => UnaccountedSwap(j)'
  BY DEF UnaccountedSwap
<1> HIDE DEF r
<1>8. r.state \in Built /\ partition[i] # None => r.checksum = partition[i] \/ UnaccountedSwap(i)'
  BY <1>3, <1>5, <1>7 DEF SerialInv, RowsAreDescribed, RowDescribesPartition
<1>8a. r.validation # "failed"
  BY <1>1, <1>5 DEF CommandNow
<1>9. TablesOK'
  BY <1>1, <1>2, <1>3, <1>4, <1>5, <1>6, <1>7, <1>8, <1>8a, RewriteTables
<1> QED
  BY <1>1, <1>4, <1>9, EndCommand, AtWorkAlone, SerialCommandFrame

\* Every step of a command.
LEMMA OperatorSerial ==
    ASSUME Inv, SerialInv, NEW o \in Operators, OperatorStep(o) \/ Interrupt(o), UNCHANGED imp
    PROVE  SerialInv'
BY LookupSerial, OthersSerial, ActivateCommitSerial, DeactivateCommitSerial,
   QueueingSerial, RemovePartitionSerial, RemoveRowSerial, ValidatePartitionSerial, ValidateCommitSerial
   DEF OperatorStep

-----------------------------------------------------------------------------
(* Who moves, and what comes through                                       *)

\* A step of attempt p is no step of another.
LEMMA OneMoves ==
    ASSUME Inv, NEW p \in Importers, BeginImport(p) \/ ImportStep(p) \/ ImportFault(p)
    PROVE  \A q \in Importers \ {p} : imp'[q] = imp[q]
<1>1. imp \in [Importers -> Attempt]
  BY DEF Inv, TypeOK, ImportTypeOK
<1>2. CASE BeginImport(p)
  BY <1>1, <1>2 DEF BeginImport
<1>3. CASE ImportFault(p)
  BY <1>1, <1>3 DEF ImportFault, DatabaseError, RecorderError, Crash, Raise, Unrecorded, Finish
<1>4. CASE SyncFamily(p) \/ OpenNewRelease(p) \/ RefuseActive(p) \/ OpenRelease(p) \/ OpenRun(p)
           \/ OpenRunFails(p) \/ ReadRunId(p) \/ PhaseA(p) \/ PhaseB1(p) \/ PhaseB1Fails(p)
  BY <1>1, <1>4 DEF SyncFamily, OpenNewRelease, RefuseActive, OpenRelease, OpenRun, OpenRunFails,
                    ReadRunId, PhaseA, PhaseB1, PhaseB1Fails, Goto, Raise
<1>5. CASE Swap(p) \/ SwapFails(p) \/ LockTimeout(p) \/ Finalize(p) \/ FinalizeCommit(p)
           \/ FinalizeCommitFails(p)
  BY <1>1, <1>5 DEF Swap, SwapFails, LockTimeout, Finalize, FinalizeCommit, FinalizeCommitFails,
                    Raise
<1>6. CASE SkipUnchanged(p)
  <2>1. PICK i \in IdsNamed(imp[p].req.name) :
           \/ Finish(p, "done")
           \/ Raise(p)
           \/ \E c : imp' = [imp EXCEPT ![p].pc = "skipActivate", ![p].target = i, ![p].current = c]
    BY <1>6 DEF SkipUnchanged
  <2> QED
    BY <1>1, <2>1 DEF Finish, Raise
<1>7. CASE ReadBack(p)
  <2>1. \/ Goto(p, "cleanup")
        \/ Raise(p)
        \/ \E c : imp' = [imp EXCEPT ![p].pc = "activate", ![p].target = imp[p].rid, ![p].current = c]
    BY <1>7 DEF ReadBack
  <2> QED
    BY <1>1, <2>1 DEF Goto, Raise
<1>8. CASE ActivateImported(p) \/ ActivateImportedFails(p) \/ ReportSkip(p) \/ Cleanup(p)
  BY <1>1, <1>8 DEF ActivateImported, ActivateImportedFails, ReportSkip, Cleanup, Finish, Raise
<1>9. CASE Record(p) \/ RecordCommit(p) \/ RecordCommitFails(p)
  BY <1>1, <1>9 DEF Record, RecordCommit, RecordCommitFails, Finish, Unrecorded
<1> QED
  BY <1>2, <1>3, <1>4, <1>5, <1>6, <1>7, <1>8, <1>9 DEF ImportStep

\* An attempt that steps or meets a fault has started.
LEMMA StepperIsLive ==
    ASSUME NEW p \in Importers, ImportStep(p) \/ ImportFault(p)
    PROVE  Live(p)
<1>1. CASE ImportStep(p)
  BY <1>1 DEF ImportStep, Live, TryBlock, Recording, At, SyncFamily, OpenNewRelease,
              SkipUnchanged, RefuseActive, OpenRelease, OpenRun, OpenRunFails, ReadRunId,
              ReportSkip, PhaseA, PhaseB1,
              PhaseB1Fails, Swap, SwapFails, LockTimeout, Finalize, FinalizeCommit,
              FinalizeCommitFails, ReadBack, ActivateImported, ActivateImportedFails, Cleanup,
              Record, RecordCommit, RecordCommitFails
<1>2. CASE ImportFault(p)
  BY <1>2 DEF ImportFault, DatabaseError, RecorderError, Crash, Live
<1> QED
  BY <1>1, <1>2

\* A command that acts has started.
LEMMA CommanderIsBusy ==
    ASSUME NEW o \in Operators, OperatorStep(o) \/ Interrupt(o)
    PROVE  Busy(o)
BY DEF OperatorStep, Interrupt, Busy, OperatorEnded, Asked, Activate, ActivateNothing,
       ActivateCommit, Deactivate, DeactivateCommit, Remove, AwaitLock, RemovePartition,
       DetachFails, RemoveRow,
       Validate, ValidatePartition, ValidateCommit, CleanStaging, UnknownRelease

\* With nobody else at work the unique index refuses no activation.
LEMMA ActivationGoesThrough ==
    ASSUME Inv, NEW i \in Ids, NEW c, NEW n, Found(i, n, Activatable), Supersedes(c, n)
    PROVE  ActivationCommits(i, c)
<1> DEFINE s == WithActive(i, c)
<1>1. \A j \in Ids : rows[j] # None => rows[j] \in Row
  BY DEF Inv, TypeOK, RegistryTypeOK
<1>2. c # None => /\ c \in Ids /\ Exists(c) /\ FamilyOf[rows[c].name] = FamilyOf[n]
                  /\ rows[c].state = "active"
  BY DEF Supersedes, ActiveIds, FamilyOfId
<1>3. Exists(i) /\ rows[i].name = n
  BY DEF Found
<1>4. ASSUME NEW j \in Ids, s[j] # None, s[j].state = "active"
      PROVE  /\ rows[j] # None /\ s[j].name = rows[j].name
             /\ j = i \/ (j # c /\ rows[j].state = "active")
  <2>1. CASE j = i
    <3>1. s[j] = [rows[j] EXCEPT !.state = "active"] /\ rows[j] \in Row
      BY <1>1, <1>3, <2>1 DEF WithActive, Exists
    <3> QED
      BY <1>3, <2>1, <3>1 DEF Row, Exists
  <2>2. CASE j # i /\ j = c
    <3>1. c # None
      BY <2>2, RegistryAssumption
    <3>2. s[j] = [rows[j] EXCEPT !.state = "superseded"] /\ rows[j] \in Row
      BY <1>1, <1>2, <2>2, <3>1 DEF WithActive, Exists
    <3>3. s[j].state = "superseded"
      BY <3>2 DEF Row
    <3> QED
      BY <1>4, <3>3
  <2>3. CASE j # i /\ j # c
    BY <1>4, <2>3 DEF WithActive
  <2> QED
    BY <2>1, <2>2, <2>3
<1>5. \A j \in Ids : j # i /\ j # c /\ rows[j] # None /\ rows[j].state = "active"
                       => FamilyOf[rows[j].name] # FamilyOf[n]
  <2>1. CASE c = None
    BY <2>1 DEF Supersedes, ActiveIds, Exists, FamilyOfId
  <2>2. CASE c # None
    BY <1>2, <2>2 DEF Inv, OneActivePerFamily, UniqueActive, Exists
  <2> QED
    BY <2>1, <2>2
<1>6. UniqueActive(s)
  <2> SUFFICES ASSUME NEW j \in Ids, NEW k \in Ids, s[j] # None, s[k] # None,
                      s[j].state = "active", s[k].state = "active",
                      FamilyOf[s[j].name] = FamilyOf[s[k].name]
               PROVE  j = k
    BY DEF UniqueActive
  <2>1. /\ rows[j] # None /\ rows[k] # None
        /\ FamilyOf[rows[j].name] = FamilyOf[rows[k].name]
        /\ j = i \/ (j # c /\ rows[j].state = "active")
        /\ k = i \/ (k # c /\ rows[k].state = "active")
    BY <1>4
  <2>2. CASE j # i /\ k # i
    BY <2>1, <2>2 DEF Inv, OneActivePerFamily, UniqueActive
  <2>3. CASE j = i \/ k = i
    BY <1>3, <1>5, <2>1, <2>3
  <2> QED
    BY <2>2, <2>3
<1> QED
  BY <1>2, <1>3, <1>6 DEF ActivationCommits

-----------------------------------------------------------------------------
(* The invariant                                                           *)

\* What moves neither a process nor a row nor a partition.
LEMMA StutterSerial ==
    ASSUME SerialInv, UNCHANGED <<rows, partition, incoming, staging, imp, ops>>
    PROVE  SerialInv'
<1>1. TablesOK'
  BY TablesAsTheyAre DEF UnaccountedSwap
<1>2. OneAtATime'
  BY DEF SerialInv, OneAtATime, Live, Busy
<1>3. \A p \in Importers : AttemptNow(p)'
  BY DEF SerialInv, AttemptNow, At, OwnRelease, Published, Found, Supersedes, ActiveIds, Exists,
         FamilyOfId, IdsNamed, Checked, FinalStatus
<1>4. \A o \in Operators : CommandNow(o)'
  BY DEF SerialInv, CommandNow, Asked, Busy, Found, Supersedes, ActiveIds, Exists, FamilyOfId
<1> QED
  BY <1>1, <1>2, <1>3, <1>4 DEF TablesOK, SerialInv

\* It holds of what the seeds leave.
LEMMA InitSerial ==
    ASSUME Init
    PROVE  SerialInv
<1>1. /\ \A p \in Importers : imp[p] = NewAttempt
      /\ \A o \in Operators : ops[o] = NewInvocation
  BY DEF Init, ImportInit, MaintenanceInit
<1>2. /\ \A p \in Importers : ~Live(p) /\ AttemptNow(p)
      /\ \A o \in Operators : ~Busy(o) /\ CommandNow(o)
  BY <1>1 DEF Live, TryBlock, Recording, NewAttempt, Busy, NewInvocation, AttemptNow, At,
              CommandNow, Asked
<1>3. \A i \in Ids : rows[i] # None =>
         /\ i \in SeedIds /\ rows[i].name = Seed[i].name /\ rows[i].checksum = Seed[i].source
         /\ rows[i].validation = Summarize(StagingStatus[Seed[i].source],
                                           ProductionStatus[Seed[i].source])
  BY DEF Init, RegistryInit
<1>4. \A i \in Ids : partition[i] # None => i \in SeedIds /\ partition[i] = Seed[i].source
  BY DEF Init, RegistryInit
<1>5. NamesAreUnique
  BY <1>3, SeedAssumption DEF NamesAreUnique, Exists
<1>6. PartitionsAreChecked
  BY <1>4, SeedAssumption DEF PartitionsAreChecked, Checked
<1>7. RowsAreDescribed
  BY <1>3, <1>4 DEF RowsAreDescribed, RowDescribesPartition, Exists
<1>8. BuiltRowsPassed
  BY <1>3, SeedAssumption DEF BuiltRowsPassed, Exists, Summarize
<1> QED
  BY <1>2, <1>5, <1>6, <1>7, <1>8 DEF SerialInv, OneAtATime

\* Every step keeps the invariant, if no process starts while one is at work.
LEMMA NextSerial ==
    ASSUME Exclusive, Inv, SerialInv, [Next]_vars
    PROVE  SerialInv'
<1>1. ASSUME NEW p \in Importers,
             \/ MayStart /\ BeginImport(p) /\ UNCHANGED ops
             \/ Importer(p)
             \/ ImportFault(p) /\ UNCHANGED ops
      PROVE  SerialInv'
  BY <1>1, BeginImportSerial, ImportSerial DEF Importer
<1>2. ASSUME NEW o \in Operators,
             \/ MayStart /\ BeginOperation(o) /\ UNCHANGED imp
             \/ Operator(o)
             \/ Interrupt(o) /\ UNCHANGED imp
      PROVE  SerialInv'
  BY <1>2, BeginOperationSerial, OperatorSerial DEF Operator
<1>3. ASSUME NEW f \in LockHolders, LockHolder(f) /\ UNCHANGED <<imp, ops>>
      PROVE  SerialInv'
  BY <1>3, StutterSerial DEF LockHolder, Hold, Unhold
<1>4. CASE Rest \/ UNCHANGED vars
  BY <1>4, StutterSerial DEF Rest, vars, registryVars
<1> QED
  BY <1>1, <1>2, <1>3, <1>4 DEF Next

\* The actions that write a release row; every other step leaves the rows.
AttemptWrites(p) == OpenRun(p) \/ FinalizeCommit(p) \/ ActivateImported(p) \/ RecordCommit(p)
CommandWrites(o) ==
    ActivateCommit(o) \/ DeactivateCommit(o) \/ RemoveRow(o) \/ ValidateCommit(o)

\* The steps that change the registry's rows are these.
LEMMA RowWriters ==
    ASSUME [Next]_vars
    PROVE  \/ UNCHANGED rows
           \/ \E p \in Importers : AttemptWrites(p)
           \/ \E o \in Operators : CommandWrites(o)
<1>1. ASSUME NEW p \in Importers,
             BeginImport(p) \/ ImportStep(p) \/ ImportFault(p)
      PROVE  UNCHANGED rows \/ AttemptWrites(p)
  <2>1. CASE ImportStep(p)
    BY <2>1 DEF ImportStep, AttemptWrites, registryVars, SyncFamily, OpenNewRelease,
                SkipUnchanged, RefuseActive, OpenRelease, OpenRunFails, ReadRunId, ReportSkip,
                PhaseA, PhaseB1,
                PhaseB1Fails, Swap, SwapFails, LockTimeout, Finalize, FinalizeCommitFails,
                ReadBack, ActivateImportedFails, Cleanup, Record, RecordCommitFails
  <2> QED
    BY <1>1, <2>1 DEF BeginImport, ImportFault, DatabaseError, RecorderError, Crash, registryVars
<1>2. ASSUME NEW o \in Operators,
             BeginOperation(o) \/ OperatorStep(o) \/ Interrupt(o)
      PROVE  UNCHANGED rows \/ CommandWrites(o)
  BY <1>2 DEF OperatorStep, CommandWrites, registryVars, BeginOperation, Interrupt, Activate,
              ActivateNothing, Deactivate, Remove, AwaitLock, RemovePartition, DetachFails,
              Validate, ValidatePartition, CleanStaging, UnknownRelease
<1> QED
  BY <1>1, <1>2 DEF Next, Importer, Operator, LockHolder, Hold, Unhold, Rest, vars, registryVars

\* A release moves along the documented state graph.
LEMMA MovesAreLegal ==
    ASSUME Inv, SerialInv, [Next]_vars,
           NEW i \in Ids, rows[i] # None, rows'[i] # None
    PROVE  LegalMove(rows[i].state, rows'[i].state)
<1>1. rows \in [Ids -> Row \cup {None}] /\ rows[i].state \in States
  BY DEF Inv, TypeOK, RegistryTypeOK, Row
<1>2. CASE UNCHANGED rows
  BY <1>2 DEF LegalMove
<1>3. ASSUME NEW j \in Ids, NEW c, NEW n, Found(j, n, Activatable), Supersedes(c, n),
             ActivationCommits(j, c), rows' = WithActive(j, c)
      PROVE  LegalMove(rows[i].state, rows'[i].state)
  <2>1. j = i => rows[i].state \in Activatable
    BY <1>3 DEF Found
  <2>2. c = i => rows[i].state = "active"
    BY <1>3, RegistryAssumption DEF Supersedes, ActiveIds
  <2>3. rows'[i].state = IF i = j THEN "active" ELSE IF i = c THEN "superseded" ELSE rows[i].state
    BY <1>3, ActivationEffect
  <2> QED
    BY <2>1, <2>2, <2>3 DEF LegalMove
<1>4. ASSUME NEW p \in Importers, AttemptWrites(p)
      PROVE  LegalMove(rows[i].state, rows'[i].state)
  <2>1. AttemptNow(p)
    BY DEF SerialInv
  <2>2. CASE OpenRun(p)
    <3>1. rows[p] = None
      BY <2>2 DEF Inv, RowsOK, Issued, OpenRun, At, Exists, Ids
    <3>2. rows'[i] = rows[i]
      BY <1>1, <2>2, <3>1 DEF OpenRun
    <3> QED
      BY <3>2 DEF LegalMove
  <2>3. CASE FinalizeCommit(p)
    <3>1. /\ rows' = [rows EXCEPT ![imp[p].rid] = FinalRow(p)]
          /\ imp[p].wasActive <=> rows[imp[p].rid].state = "active"
      BY <2>3, FinalizeEffect DEF OwnRelease
    <3>2. FinalRow(p).state = IF imp[p].wasActive THEN "active" ELSE "ready"
      BY DEF FinalRow, FinalState
    <3>3. CASE i = imp[p].rid
      <4>1. rows'[i].state = IF rows[i].state = "active" THEN "active" ELSE "ready"
        BY <1>1, <3>1, <3>2, <3>3
      <4> QED
        BY <1>1, <4>1 DEF LegalMove, States
    <3>4. CASE i # imp[p].rid
      BY <1>1, <3>1, <3>4 DEF LegalMove
    <3> QED
      BY <3>3, <3>4
  <2>4. CASE ActivateImported(p)
    <3>1. /\ Found(imp[p].target, imp[p].req.name, Activatable)
          /\ Supersedes(imp[p].current, imp[p].req.name) /\ imp[p].target \in Ids
      BY <2>1, <2>4 DEF ActivateImported, AttemptNow, At, Published, Found, Activatable
    <3> QED
      BY <1>3, <2>4, <3>1 DEF ActivateImported
  <2>5. CASE RecordCommit(p)
    <3> SUFFICES ASSUME rows' # rows
                 PROVE  LegalMove(rows[i].state, rows'[i].state)
      BY <1>2
    <3>1. PICK j \in Ids :
             /\ rows' = [rows EXCEPT ![j] = RecordedRow(rows[j])]
             /\ RecordedState(rows[j]) # rows[j].state =>
                   RecordedState(rows[j]) = "failed" /\ rows[j].state \in {"registered", "failed"}
      BY <2>5, RecordEffect
    <3>2. RecordedRow(rows[j]).state = RecordedState(rows[j])
      BY DEF RecordedRow
    <3>3. i = j => rows'[i].state \in {rows[i].state, RecordedState(rows[i])}
      BY <1>1, <3>1, <3>2
    <3>4. i # j => rows'[i] = rows[i]
      BY <1>1, <3>1
    <3> QED
      BY <3>1, <3>3, <3>4 DEF LegalMove
  <2> QED
    BY <1>4, <2>2, <2>3, <2>4, <2>5 DEF AttemptWrites
<1>5. ASSUME NEW o \in Operators, CommandWrites(o)
      PROVE  LegalMove(rows[i].state, rows'[i].state)
  <2>1. CommandNow(o)
    BY DEF SerialInv
  <2>2. CASE ActivateCommit(o)
    <3>1. /\ Found(ops[o].rid, ops[o].req.name, Activatable)
          /\ Supersedes(ops[o].current, ops[o].req.name) /\ ops[o].rid \in Ids
      BY <2>1, <2>2 DEF ActivateCommit, CommandNow, Found
    <3> QED
      BY <1>2, <1>3, <2>2, <3>1 DEF ActivateCommit
  <2>3. CASE DeactivateCommit(o)
    <3>1. /\ rows[ops[o].rid].state = "active" /\ ops[o].rid \in Ids
          /\ rows' = [rows EXCEPT ![ops[o].rid] = WithState(rows[ops[o].rid], "superseded")]
          /\ WithState(rows[ops[o].rid], "superseded").state = "superseded"
      BY <2>3, DeactivateEffect DEF Found
    <3>2. i = ops[o].rid => rows'[i].state = "superseded"
      BY <1>1, <3>1
    <3>3. i # ops[o].rid => rows'[i] = rows[i]
      BY <1>1, <3>1
    <3> QED
      BY <3>1, <3>2, <3>3 DEF LegalMove
  <2>4. CASE RemoveRow(o)
    BY <1>1, <2>4 DEF RemoveRow, LegalMove
  <2>5. CASE ValidateCommit(o)
    <3>1. rows'[i].state = rows[i].state
      BY <1>1, <2>5 DEF ValidateCommit, Row, Exists
    <3> QED
      BY <3>1 DEF LegalMove
  <2> QED
    BY <1>5, <2>2, <2>3, <2>4, <2>5 DEF CommandWrites
<1> QED
  BY <1>2, <1>4, <1>5, RowWriters

\* Only `deactivate` and a forced removal leave a family without the ACTIVE
\* release it had.
LEMMA FamilyKeepsActive ==
    ASSUME Inv, SerialInv, [Next]_vars,
           NEW f \in Families, ActiveIds(f) # {}, ActiveIds(f)' = {}
    PROVE  \E o \in Operators : \/ Asked(o, "commit", "deactivate")
                                \/ Asked(o, "delete", "remove") /\ ops[o].req.force
<1>1. rows \in [Ids -> Row \cup {None}]
  BY DEF Inv, TypeOK, RegistryTypeOK
<1>2. PICK i \in Ids : rows[i] # None /\ FamilyOf[rows[i].name] = f /\ rows[i].state = "active"
  BY DEF ActiveIds, Exists, FamilyOfId
<1>3. \A j \in Ids : ~(rows'[j] # None /\ FamilyOf[rows'[j].name] = f /\ rows'[j].state = "active")
  BY DEF ActiveIds, Exists, FamilyOfId
<1>4. ~(rows'[i] # None /\ rows'[i].name = rows[i].name /\ rows'[i].state = "active")
  BY <1>2, <1>3
<1>5. rows' # rows
  BY <1>2, <1>4
<1>6. ASSUME NEW j \in Ids, NEW c, NEW n, Found(j, n, Activatable), Supersedes(c, n),
             ActivationCommits(j, c), rows' = WithActive(j, c)
      PROVE  FALSE
  <2>1. rows[j] # None /\ rows[j].name = n /\ rows'[j] # None /\ rows'[j].name = n
        /\ rows'[j].state = "active"
    BY <1>6, ActivationEffect DEF Found, Exists
  <2>2. i # j /\ i = c
    BY <1>2, <1>4, <1>6, ActivationEffect
  <2>3. c # None
    BY <2>2, RegistryAssumption
  <2>4. FamilyOf[n] = f
    BY <1>2, <1>6, <2>2, <2>3 DEF Supersedes, ActiveIds, FamilyOfId
  <2> QED
    BY <1>3, <2>1, <2>4
<1>7. ASSUME NEW p \in Importers, AttemptWrites(p)
      PROVE  FALSE
  <2>1. AttemptNow(p)
    BY DEF SerialInv
  <2>2. CASE OpenRun(p)
    <3>1. rows[p] = None
      BY <2>2 DEF Inv, RowsOK, Issued, OpenRun, At, Exists, Ids
    <3> QED
      BY <1>1, <1>2, <1>4, <2>2, <3>1 DEF OpenRun
  <2>3. CASE FinalizeCommit(p)
    <3>1. /\ rows' = [rows EXCEPT ![imp[p].rid] = FinalRow(p)] /\ OwnRelease(p)
          /\ imp[p].rid \in Ids /\ FinalRow(p).name = imp[p].req.name
          /\ FinalRow(p).state = IF imp[p].wasActive THEN "active" ELSE "ready"
      BY <2>3, FinalizeEffect DEF OwnRelease, Found, FinalRow, FinalState
    <3>2. i = imp[p].rid => /\ rows'[i] = FinalRow(p)
                            /\ FinalRow(p).name = rows[i].name /\ FinalRow(p).state = "active"
      BY <1>1, <1>2, <3>1 DEF OwnRelease, Found
    <3>3. i # imp[p].rid => rows'[i] = rows[i]
      BY <1>1, <3>1
    <3>4. FinalRow(p) # None
      BY <2>3, FinalRowType, RegistryAssumption
    <3> QED
      BY <1>2, <1>4, <3>2, <3>3, <3>4
  <2>4. CASE ActivateImported(p)
    <3>1. /\ Found(imp[p].target, imp[p].req.name, Activatable)
          /\ Supersedes(imp[p].current, imp[p].req.name) /\ imp[p].target \in Ids
      BY <2>1, <2>4 DEF ActivateImported, AttemptNow, At, Published, Found, Activatable
    <3> QED
      BY <1>6, <2>4, <3>1 DEF ActivateImported
  <2>5. CASE RecordCommit(p)
    <3>1. PICK j \in Ids :
             /\ rows' = [rows EXCEPT ![j] = RecordedRow(rows[j])]
             /\ RecordedRow(rows[j]) \in Row
             /\ RecordedState(rows[j]) # rows[j].state => rows[j].state \in {"registered", "failed"}
      BY <1>5, <2>5, RecordEffect
    <3>2. i # j => rows'[i] = rows[i]
      BY <1>1, <3>1
    <3>3. i = j => /\ rows'[i] = RecordedRow(rows[i]) /\ rows'[i] # None
                   /\ RecordedRow(rows[i]).name = rows[i].name
                   /\ RecordedRow(rows[i]).state = rows[i].state
      BY <1>1, <1>2, <3>1, RegistryAssumption DEF RecordedRow
    <3> QED
      BY <1>2, <1>4, <3>2, <3>3
  <2> QED
    BY <1>7, <2>2, <2>3, <2>4, <2>5 DEF AttemptWrites
<1>8. ASSUME NEW o \in Operators, CommandWrites(o),
             ~Asked(o, "commit", "deactivate"),
             ~(Asked(o, "delete", "remove") /\ ops[o].req.force)
      PROVE  FALSE
  <2>1. CommandNow(o)
    BY DEF SerialInv
  <2>2. CASE ActivateCommit(o)
    <3>1. /\ Found(ops[o].rid, ops[o].req.name, Activatable)
          /\ Supersedes(ops[o].current, ops[o].req.name) /\ ops[o].rid \in Ids
      BY <2>1, <2>2 DEF ActivateCommit, CommandNow, Found
    <3> QED
      BY <1>5, <1>6, <2>2, <3>1 DEF ActivateCommit
  <2>3. CASE RemoveRow(o)
    <3>1. rows' = [rows EXCEPT ![ops[o].rid] = None] /\ rows[ops[o].rid].state # "active"
      BY <1>8, <2>1, <2>3 DEF RemoveRow, CommandNow, Asked
    <3> QED
      BY <1>1, <1>2, <1>4, <3>1
  <2>4. CASE ValidateCommit(o)
    <3>1. rows'[i] = rows[i] \/ rows'[i] = [rows[i] EXCEPT !.validation = ops[o].status]
      BY <1>1, <2>4 DEF ValidateCommit
    <3>2. ops[o].status \in Statuses
      BY <2>4 DEF ValidateCommit, Inv, TypeOK, MaintenanceTypeOK, Invocation, CommandOK
    <3>3. LET r == [rows[i] EXCEPT !.validation = ops[o].status] IN
          r \in Row /\ r.name = rows[i].name /\ r.state = rows[i].state
      BY <1>1, <1>2, <3>2 DEF Row
    <3> QED
      BY <1>2, <1>4, <3>1, <3>3, RegistryAssumption
  <2> QED
    BY <1>8, <2>2, <2>3, <2>4 DEF CommandWrites, DeactivateCommit
<1> QED
  BY <1>5, <1>7, <1>8, RowWriters

\* Two lists of checks of which the summary passed have both passed.
LEMMA PassedTogether ==
    ASSUME NEW a \in Statuses, NEW b \in Statuses, Summarize(a, b) \notin {"failed", "passed_with_warnings"}
    PROVE  a = "passed" /\ b = "passed"
BY DEF Summarize, Statuses

\* An import activates rows without warnings, or was told to allow them.
LEMMA GateHolds ==
    ASSUME NoRevalidation, Inv, SerialInv, [Next]_vars, NEW p \in Importers, NEW i \in Ids,
           At(p, "skipActivate") \/ At(p, "activate"),
           rows[i] # None, rows[i].state # "active", rows'[i].state = "active",
           partition[i] # None, ~imp[p].req.allow_warnings, ~UnaccountedSwap(i)
    PROVE  /\ StagingStatus[partition[i]] = "passed"
           /\ ProductionStatus[partition[i]] = "passed"
<1> DEFINE t == imp[p].target
           q == imp[p].req
<1>1. /\ Live(p) /\ AttemptNow(p) /\ OnlyAttempt(p) /\ imp[p] \in Attempt /\ q # None
      /\ partition \in [Ids -> Sources \cup {None}]
  BY AtWorkAlone DEF At, Live, TryBlock, SerialInv, Inv, TypeOK, ImportTypeOK, RegistryTypeOK,
                     AttemptOK
<1>2. ActivateImported(p)
  <2>1. rows' # rows
    OBVIOUS
  <2>2. \A r \in Importers \ {p} : ~AttemptWrites(r)
    BY <1>1 DEF OnlyAttempt, AttemptWrites, OpenRun, FinalizeCommit, ActivateImported,
                RecordCommit, At, Live, TryBlock, Recording
  <2>3. \A o \in Operators : ~CommandWrites(o)
    BY <1>1 DEF OnlyAttempt, CommandWrites, ActivateCommit, DeactivateCommit, RemoveRow,
                ValidateCommit, Asked, Busy, OperatorEnded
  <2>4. AttemptWrites(p)
    BY <2>1, <2>2, <2>3, RowWriters
  <2> QED
    BY <2>4 DEF AttemptWrites, OpenRun, FinalizeCommit, RecordCommit, At
<1>3. /\ t \in Ids /\ Found(t, q.name, Activatable) /\ q.activate
      /\ ActivationCommits(t, imp[p].current) /\ rows' = WithActive(t, imp[p].current)
  BY <1>1, <1>2 DEF AttemptNow, Published, Found, Activatable, At, ActivateImported
<1>4. i = t
  BY <1>3, ActivationEffect
<1>5. partition[i] \in Sources
  BY <1>1
<1>6. StagingStatus[partition[i]] \in Statuses /\ ProductionStatus[partition[i]] \in Statuses
  BY <1>5, RegistryAssumption
<1>7. ASSUME NEW s, Gate(s, q) = "activate"
      PROVE  s \notin {"failed", "passed_with_warnings"}
  BY <1>7 DEF Gate
<1> DEFINE verdict == Summarize(StagingStatus[partition[i]], ProductionStatus[partition[i]])
<1>8. verdict \notin {"failed", "passed_with_warnings"}
  <2>1. CASE At(p, "activate")
    <3>1. partition[i] = q.src /\ imp[p].imported = q.src /\ Gate(FinalStatus(p), q) = "activate"
      BY <1>1, <1>4, <2>1 DEF AttemptNow, Published
    <3> QED
      BY <1>7, <3>1 DEF FinalStatus
  <2>2. CASE At(p, "skipActivate")
    <3>1. Gate(rows[i].validation, q) = "activate" /\ rows[i].state \in Built /\ Exists(i)
      BY <1>1, <1>3, <1>4, <2>2 DEF AttemptNow, Found, Activatable, Built
    <3>2. rows[i].validation = verdict
      BY <3>1 DEF SerialInv, RowsAreDescribed
    <3> QED
      BY <1>7, <3>1, <3>2
  <2> QED
    BY <2>1, <2>2
<1> HIDE DEF verdict
<1> QED
  BY <1>6, <1>8, PassedTogether DEF verdict

-----------------------------------------------------------------------------
(* The theorems                                                            *)

\* With one process at a time, what a process loaded is what there is.
THEOREM SerialInvariance ==
    ASSUME Exclusive
    PROVE  Spec => []SerialInv
<1>1. Init => SerialInv
  BY InitSerial
<1>2. Inv /\ SerialInv /\ [Next]_vars => SerialInv'
  BY NextSerial
<1> QED
  BY <1>1, <1>2, Invariance, PTL DEF Spec

\* The provenance of a built release is that of the rows it serves, but for
\* an attempt that swapped and never got to finalize.
THEOREM ProvenanceDescribesRows ==
    ASSUME Exclusive
    PROVE  Spec => []RowDescribesPartition
<1>1. SerialInv => RowDescribesPartition
  BY DEF SerialInv, RowsAreDescribed
<1> QED
  BY <1>1, SerialInvariance, PTL

\* What an ACTIVE release serves has passed every critical check.
THEOREM ActiveReleasesAreValid ==
    ASSUME Exclusive
    PROVE  Spec => []ActiveIsValid
<1>1. SerialInv => ActiveIsValid
  BY DEF SerialInv, PartitionsAreChecked, Checked, ActiveIsValid
<1> QED
  BY <1>1, SerialInvariance, PTL

\* A release moves along the documented state graph and no other way.
THEOREM TransitionsAreLegal ==
    ASSUME Exclusive
    PROVE  Spec => LegalTransitions
<1>1. Inv /\ SerialInv /\ [Next]_vars =>
         [\A i \in Ids : rows[i] # None /\ rows[i]' # None
                           => LegalMove(rows[i].state, rows[i]'.state)]_vars
  BY MovesAreLegal
<1> QED
  BY <1>1, Invariance, SerialInvariance, PTL DEF Spec, LegalTransitions

\* No import, however it ends, leaves a family without the ACTIVE release it had.
THEOREM FamiliesStayActive ==
    ASSUME Exclusive
    PROVE  Spec => FamilyStaysActive
<1>1. Inv /\ SerialInv /\ [Next]_vars =>
         [\A f \in Families :
             ActiveIds(f) # {} /\ ActiveIds(f)' = {}
               => \E o \in Operators : Asked(o, "commit", "deactivate")
                                       \/ (Asked(o, "delete", "remove") /\ ops[o].req.force)]_vars
  BY FamilyKeepsActive
<1> QED
  BY <1>1, Invariance, SerialInvariance, PTL DEF Spec, FamilyStaysActive

\* Where `validate` does not overwrite the verdict of the import, --activate
\* never activates rows that raised a warning without --allow-warnings.
THEOREM WarningsAreGated ==
    ASSUME Exclusive, NoRevalidation
    PROVE  Spec => WarningsGate
<1>1. Inv /\ SerialInv /\ [Next]_vars =>
         [\A p \in Importers, i \in Ids :
             /\ At(p, "skipActivate") \/ At(p, "activate")
             /\ imp'[p] # imp[p]
             /\ rows[i] # None /\ rows[i].state # "active" /\ rows[i]'.state = "active"
             /\ partition[i] # None
             => \/ imp[p].req.allow_warnings
                \/ UnaccountedSwap(i)
                \/ /\ StagingStatus[partition[i]] = "passed"
                   /\ ProductionStatus[partition[i]] = "passed"]_vars
  BY GateHolds
<1> QED
  BY <1>1, Invariance, SerialInvariance, PTL DEF Spec, WarningsGate
=============================================================================
