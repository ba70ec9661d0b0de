-------------------------- MODULE LifecycleProofs --------------------------
(***************************************************************************)
(* The safety of the release lifecycle, for any number of attempts,        *)
(* commands and releases, however they interleave and fail.  Each action   *)
(* is shown to preserve Inv by a frame lemma: QuietAttempt or QuietCommand *)
(* when it only moves its process, TableFrame, AttemptFrame or             *)
(* CommandEndFrame when it writes.                                         *)
(***************************************************************************)
EXTENDS LifecycleInvariant, TLAPS

\* Nothing an action does may undo what another process relies on.
Steady ==
    /\ \A i \in Ids : Issued(i) => Issued(i)'
    /\ \A i \in Ids : Issued(i) /\ Exists(i)' =>
          Exists(i) /\ (rows[i].table => rows[i]'.table)
    /\ \A i \in Ids : Kept(i) => Kept(i)'

\* A run changes with its attempt, or goes with its release.
RunKept(p) ==
    \/ runs'[p] = runs[p]
    \/ /\ runs'[p] = None
       /\ \E i \in Ids : runs[p].release = i /\ ~Exists(i)'

\* What attempt p needs survives a step of another process that is steady: it
\* removes no row an attempt has opened a run for and builds no release away.
LEMMA AttemptStable ==
    ASSUME TypeOK, NEW p \in Importers, AttemptOK(p), Steady, RunKept(p),
           imp'[p] = imp[p]
    PROVE  AttemptOK(p)'
<1>1. \A i \in Ids : Usable(i) => Usable(i)'
  BY DEF Usable, Steady
<1>2. RunOpen(p)'
  <2> DEFINE i == imp[p].rid
  <2>1. imp[p].pc \in Opened => i \in Ids /\ Issued(i)'
    BY DEF AttemptOK, RunOpen, Steady
  <2>2. ASSUME imp[p].pc \in Opened, Exists(i)'
        PROVE  runs'[p] # None /\ runs'[p].release = i
    BY <2>2 DEF AttemptOK, RunOpen, Steady, RunKept
  <2>3. runs'[p] = runs[p] \/ runs'[p] = None
    BY DEF RunKept
  <2> QED
    BY <2>1, <2>2, <2>3 DEF AttemptOK, RunOpen
<1>3. /\ At(p, "openRun")' => imp[p]'.rid = p \/ (imp[p]'.rid \in Ids /\ Issued(imp[p].rid)')
      /\ imp[p]'.pc \in {"finalize", "finalizeCommit"} => Kept(imp[p].rid)'
  BY DEF AttemptOK, RunOpen, Steady, At, Opened
<1>4. /\ At(p, "finalizeCommit")' => (imp[p]'.loaded.table => Usable(imp[p].rid)')
      /\ At(p, "activate")' \/ At(p, "skipActivate")' =>
          /\ Usable(imp[p].target)'
          /\ imp[p]'.current # None => Usable(imp[p].current)'
  BY <1>1 DEF AttemptOK, At, Usable
<1> QED
  BY <1>2, <1>3, <1>4 DEF AttemptOK, Live, At

\* What command o needs survives a steady step of another process.
LEMMA CommandStable ==
    ASSUME TypeOK, NEW o \in Operators, CommandOK(o), Steady, ops'[o] = ops[o]
    PROVE  CommandOK(o)'
<1>1. \A i \in Ids : Usable(i) => Usable(i)'
  BY DEF Usable, Steady
<1>2. /\ Asked(o, "commit", "activate") \/ Asked(o, "commit", "deactivate")
            => Usable(ops[o].rid)'
      /\ Asked(o, "commit", "activate") /\ ops[o].current # None => Usable(ops[o].current)'
  BY <1>1 DEF CommandOK, Usable
<1> QED
  BY <1>2 DEF CommandOK, Busy, Asked

\* A step of attempt p keeps the invariant if it keeps the types, the index
\* and the rows, is steady, and leaves p itself with what it needs.
LEMMA AttemptFrame ==
    ASSUME Inv, NEW p \in Importers, TypeOK', OneActivePerFamily', RowsOK',
           UNCHANGED ops, \A q \in Importers \ {p} : imp'[q] = imp[q],
           \A q \in Importers \ {p} : RunKept(q), Steady, AttemptOK(p)'
    PROVE  Inv'
<1>1. \A q \in Importers : AttemptOK(q)'
  BY AttemptStable DEF Inv
<1>2. \A o \in Operators : CommandOK(o)'
  BY CommandStable DEF Inv
<1> QED
  BY <1>1, <1>2 DEF Inv

\* A step of command o keeps the invariant if it keeps the types, the index
\* and the rows, is steady, and leaves o itself with what it needs.
LEMMA CommandFrame ==
    ASSUME Inv, NEW o \in Operators, TypeOK', OneActivePerFamily', RowsOK',
           UNCHANGED imp, \A q \in Operators \ {o} : ops'[q] = ops[q],
           \A q \in Importers : RunKept(q), Steady, CommandOK(o)'
    PROVE  Inv'
<1>1. \A q \in Importers : AttemptOK(q)'
  BY AttemptStable DEF Inv
<1>2. \A q \in Operators : CommandOK(q)'
  BY CommandStable DEF Inv
<1> QED
  BY <1>1, <1>2 DEF Inv

\* A step that only moves attempt p, forward if it has opened its run.
LEMMA QuietAttempt ==
    ASSUME Inv, NEW p \in Importers, UNCHANGED <<registryVars, ops>>,
           \A q \in Importers \ {p} : imp'[q] = imp[q],
           imp' \in [Importers -> Attempt],
           Issued(p) => Issued(p)', AttemptOK(p)'
    PROVE  Inv'
<1>1. TypeOK'
  BY DEF Inv, TypeOK, RegistryTypeOK, ImportTypeOK, MaintenanceTypeOK, registryVars
<1>2. \A i \in Ids : Issued(i) => Issued(i)'
  BY DEF Issued
<1>3. \A i \in Ids : (Exists(i)' <=> Exists(i)) /\ (Kept(i)' <=> Kept(i))
  BY DEF Exists, Kept, RemovalUnderWay, registryVars
<1>4. Steady
  BY <1>2, <1>3 DEF Steady, registryVars
<1>5. RowsOK'
  BY <1>2, <1>3 DEF Inv, RowsOK, registryVars
<1>6. OneActivePerFamily' /\ \A q \in Importers : RunKept(q)
  BY DEF Inv, OneActivePerFamily, UniqueActive, RunKept, registryVars
<1> QED
  BY <1>1, <1>4, <1>5, <1>6, AttemptFrame

\* A step that only moves command o, which keeps what it dropped in view.
LEMMA QuietCommand ==
    ASSUME Inv, NEW o \in Operators, UNCHANGED <<registryVars, imp>>,
           \A q \in Operators \ {o} : ops'[q] = ops[q],
           ops' \in [Operators -> Invocation],
           ops[o].dropped => ops'[o].dropped /\ ops'[o].rid = ops[o].rid,
           CommandOK(o)'
    PROVE  Inv'
<1>1. TypeOK'
  BY DEF Inv, TypeOK, RegistryTypeOK, ImportTypeOK, MaintenanceTypeOK, registryVars
<1>2. \A i \in Ids : (Issued(i)' <=> Issued(i)) /\ (Exists(i)' <=> Exists(i))
  BY DEF Issued, Exists, registryVars
<1>3. \A i \in Ids : Kept(i) => Kept(i)'
  BY DEF Kept, RemovalUnderWay, registryVars
<1>4. Steady
  BY <1>2, <1>3 DEF Steady, registryVars
<1>5. RowsOK'
  BY <1>2, <1>3 DEF Inv, RowsOK, registryVars
<1>6. OneActivePerFamily' /\ \A q \in Importers : RunKept(q)
  BY DEF Inv, OneActivePerFamily, UniqueActive, RunKept, registryVars
<1> QED
  BY <1>1, <1>4, <1>5, <1>6, CommandFrame
-----------------------------------------------------------------------------
(* The attempts: steps that end or fail one                                *)

\* An attempt that has not started has the type of one.
LEMMA NewAttemptType == NewAttempt \in Attempt
BY ImportAssumption DEF NewAttempt, Attempt

\* An exception in import_release() leaves the attempt with what its recorder
\* needs: the names and the run.
LEMMA RaisePreserves ==
    ASSUME Inv, NEW p \in Importers, imp[p].pc \in TryBlock, Raise(p),
           UNCHANGED <<registryVars, ops>>
    PROVE  Inv'
<1>1. imp[p] \in Attempt /\ imp[p].req # None
  BY DEF Inv, TypeOK, ImportTypeOK, AttemptOK, Live
<1>2. imp'[p] \in Attempt
  <2>1. imp'[p] = [NewAttempt EXCEPT !.pc = "record", !.req = imp[p].req,
                                     !.rid = imp[p].rid, !.runId = imp[p].runId,
                                     !.swapped = imp[p].swapped]
    BY DEF Raise, Inv, TypeOK, ImportTypeOK
  <2> QED
    BY <1>1, <2>1, NewAttemptType DEF Attempt, Recording
<1>3. imp' \in [Importers -> Attempt]
  BY <1>2 DEF Raise, Inv, TypeOK, ImportTypeOK
<1>4. imp'[p].pc = "record" /\ imp'[p].req = imp[p].req
  BY DEF Raise, NewAttempt, Inv, TypeOK, ImportTypeOK
<1>5. AttemptOK(p)'
  BY <1>1, <1>4 DEF AttemptOK, RunOpen, Opened, Unopened, Recording, At, Live
<1> QED
  BY <1>3, <1>4, <1>5, QuietAttempt DEF Raise, Issued, Inv, TypeOK, ImportTypeOK

\* What ends an attempt leaves no run running, a kill apart.
LEMMA FinishPreserves ==
    ASSUME Inv, NEW p \in Importers, NEW l \in ImportEnded, Finish(p, l),
           UNCHANGED <<registryVars, ops>>,
           l = "crashed" \/ runs[p] = None \/ runs[p].status # "running"
    PROVE  Inv'
<1>1. imp[p] \in Attempt
  BY DEF Inv, TypeOK, ImportTypeOK
<1>2. imp'[p] = [NewAttempt EXCEPT
                   !.pc = l, !.swapped = imp[p].swapped, !.runId = imp[p].runId,
                   !.rid = IF imp[p].swapped THEN imp[p].rid ELSE None]
  BY DEF Finish, Inv, TypeOK, ImportTypeOK
<1>3. imp'[p] \in Attempt
  BY <1>1, <1>2, NewAttemptType DEF Attempt
<1>4. imp' \in [Importers -> Attempt]
  BY <1>3 DEF Finish, Inv, TypeOK, ImportTypeOK
<1>5. imp'[p].pc = l
  BY <1>2 DEF NewAttempt
<1>6. AttemptOK(p)'
  BY <1>5 DEF AttemptOK, RunOpen, Opened, Unopened, Recording, At, Live, TryBlock, ImportEnded, registryVars
<1> QED
  BY <1>4, <1>5, <1>6, QuietAttempt DEF Finish, Issued, Inv, TypeOK, ImportTypeOK, ImportEnded

\* A recorder that fails itself leaves its run running, and says so.
LEMMA UnrecordedPreserves ==
    ASSUME Inv, NEW p \in Importers, Unrecorded(p), UNCHANGED <<registryVars, ops>>
    PROVE  Inv'
<1>1. imp[p] \in Attempt
  BY DEF Inv, TypeOK, ImportTypeOK
<1>2. imp'[p] = [NewAttempt EXCEPT
                   !.pc = "failed", !.unrecorded = TRUE, !.swapped = imp[p].swapped,
                   !.rid = IF imp[p].swapped THEN imp[p].rid ELSE None]
  BY DEF Unrecorded, Inv, TypeOK, ImportTypeOK
<1>3. imp'[p] \in Attempt
  BY <1>1, <1>2, NewAttemptType DEF Attempt, ImportEnded
<1>4. imp' \in [Importers -> Attempt]
  BY <1>3 DEF Unrecorded, Inv, TypeOK, ImportTypeOK
<1>5. imp'[p].pc = "failed" /\ imp'[p].unrecorded
  BY <1>2 DEF NewAttempt
<1>6. AttemptOK(p)'
  BY <1>5 DEF AttemptOK, RunOpen, Opened, Unopened, Recording, At, Live, TryBlock, registryVars
<1> QED
  BY <1>4, <1>5, <1>6, QuietAttempt DEF Unrecorded, Issued, Inv, TypeOK, ImportTypeOK

\* Neither a failing statement nor a killed process breaks the invariant.
LEMMA FaultPreserves ==
    ASSUME Inv, NEW p \in Importers, ImportFault(p), UNCHANGED ops
    PROVE  Inv'
<1>1. CASE DatabaseError(p)
  BY <1>1, RaisePreserves DEF DatabaseError, registryVars
<1>2. CASE RecorderError(p)
  BY <1>2, UnrecordedPreserves DEF RecorderError
<1>3. CASE Crash(p)
  BY <1>3, FinishPreserves DEF Crash, ImportEnded
<1> QED
  BY <1>1, <1>2, <1>3 DEF ImportFault
-----------------------------------------------------------------------------
(* The attempts: steps that read                                           *)

\* The arguments of an import_release() call are in place when it begins.
LEMMA BeginImportPreserves ==
    ASSUME Inv, NEW p \in Importers, BeginImport(p), UNCHANGED ops
    PROVE  Inv'
<1>1. imp[p] \in Attempt /\ imp[p].pc = "idle" /\ runs[p] = None /\ ~imp[p].runId
  BY DEF Inv, TypeOK, ImportTypeOK, BeginImport, At, AttemptOK, RunOpen, Unopened
<1>2. PICK q \in ImportRequests : imp' = [imp EXCEPT ![p].pc = "sync", ![p].req = q]
  BY DEF BeginImport
<1>3. q \in Request /\ q # None
  BY ImportAssumption
<1>4. imp'[p] = [imp[p] EXCEPT !.pc = "sync", !.req = q]
  BY <1>2 DEF Inv, TypeOK, ImportTypeOK
<1>5. imp'[p] \in Attempt
  BY <1>1, <1>3, <1>4 DEF Attempt, TryBlock
<1>6. imp' \in [Importers -> Attempt]
  BY <1>2, <1>5 DEF Inv, TypeOK, ImportTypeOK
<1>7. AttemptOK(p)'
  BY <1>1, <1>3, <1>4 DEF AttemptOK, RunOpen, Opened, Unopened, Recording, At, Live, TryBlock,
                         BeginImport, registryVars, Attempt
<1> QED
  BY <1>1, <1>2, <1>4, <1>6, <1>7, QuietAttempt DEF BeginImport, Issued

\* The lookup of the release, found or not, keeps the invariant.
LEMMA OpenPreserves ==
    ASSUME Inv, NEW p \in Importers, OpenNewRelease(p) \/ OpenRelease(p), UNCHANGED ops
    PROVE  Inv'
<1>1. /\ imp[p] \in Attempt /\ imp[p].pc = "open" /\ imp[p].req # None /\ runs[p] = None
      /\ ~imp[p].runId
  BY DEF Inv, TypeOK, ImportTypeOK, OpenNewRelease, OpenRelease, At, AttemptOK, RunOpen, Unopened, Live, TryBlock
<1>2. PICK i \in Ids, b \in BOOLEAN :
         /\ i = p \/ Exists(i)
         /\ imp' = [imp EXCEPT ![p].pc = "openRun", ![p].rid = i, ![p].wasActive = b]
  <2>1. CASE OpenNewRelease(p)
    <3>1. imp' = [imp EXCEPT ![p].pc = "openRun", ![p].rid = p,
                             ![p].wasActive = imp[p].wasActive]
      BY <1>1, <2>1 DEF OpenNewRelease, Attempt, Inv, TypeOK, ImportTypeOK
    <3> QED
      BY <1>1, <3>1 DEF Ids, Attempt
  <2>2. CASE OpenRelease(p)
    BY <2>2 DEF OpenRelease, IdsNamed
  <2> QED
    BY <2>1, <2>2
<1>3. i = p \/ Issued(i)
  BY <1>2 DEF Inv, RowsOK
<1>4. imp'[p] = [imp[p] EXCEPT !.pc = "openRun", !.rid = i, !.wasActive = b]
  BY <1>2 DEF Inv, TypeOK, ImportTypeOK
<1>5. /\ imp'[p] \in Attempt /\ imp'[p].pc = "openRun" /\ imp'[p].rid = i
      /\ imp'[p].req # None /\ imp'[p].runId = imp[p].runId
  <2>1. \A a \in Attempt : LET b1 == [a EXCEPT !.pc = "openRun", !.rid = i, !.wasActive = b]
                           IN  /\ b1 \in Attempt /\ b1.pc = "openRun" /\ b1.rid = i
                               /\ b1.req = a.req /\ b1.runId = a.runId
    BY DEF Attempt, TryBlock
  <2> QED
    BY <1>1, <1>4, <2>1
<1>6. imp' \in [Importers -> Attempt]
  BY <1>2, <1>5 DEF Inv, TypeOK, ImportTypeOK
<1>7. i = p \/ Issued(i)'
  BY <1>2, <1>3 DEF Issued, Inv, TypeOK, ImportTypeOK
<1>8. UNCHANGED registryVars
  BY DEF OpenNewRelease, OpenRelease
<1>9. AttemptOK(p)'
  BY <1>1, <1>5, <1>7, <1>8 DEF AttemptOK, RunOpen, Opened, Unopened, Recording, At, Live,
                         TryBlock, registryVars
<1> QED
  BY <1>1, <1>2, <1>4, <1>6, <1>8, <1>9, QuietAttempt DEF Issued

\* A built release has a table, and so has the one it supersedes.
LEMMA LoadedUsable ==
    ASSUME Inv, NEW i \in Ids, Exists(i), rows[i].state \in Built \/ IsBuilt(rows[i])
    PROVE  Usable(i)
BY DEF Inv, RowsOK, Usable, IsBuilt

\* The release an activation supersedes has a table to be served from.
LEMMA ActiveUsable ==
    ASSUME Inv, NEW f, NEW c \in IF ActiveIds(f) = {} THEN {None} ELSE ActiveIds(f)
    PROVE  c \in Ids \cup {None} /\ (c # None => Usable(c))
BY LoadedUsable DEF ActiveIds, Built

\* An activation is prepared: p holds the release and the one to supersede.
LEMMA LoadActivation ==
    ASSUME Inv, NEW p \in Importers, UNCHANGED <<registryVars, ops>>,
           NEW l \in {"activate", "skipActivate"},
           imp[p].pc = IF l = "activate" THEN "readBack" ELSE "open",
           NEW i \in Ids, Usable(i),
           NEW c \in Ids \cup {None}, c # None => Usable(c),
           imp' = [imp EXCEPT ![p].pc = l, ![p].target = i, ![p].current = c]
    PROVE  Inv'
<1>1. imp[p] \in Attempt /\ imp[p].req # None /\ RunOpen(p)
  BY DEF Inv, TypeOK, ImportTypeOK, AttemptOK, Live, TryBlock
<1>2. imp'[p] = [imp[p] EXCEPT !.pc = l, !.target = i, !.current = c]
  BY DEF Inv, TypeOK, ImportTypeOK
<1>3. /\ imp'[p] \in Attempt /\ imp'[p].pc = l /\ imp'[p].target = i /\ imp'[p].current = c
      /\ imp'[p].req = imp[p].req /\ imp'[p].rid = imp[p].rid /\ imp'[p].runId = imp[p].runId
  <2>1. l \in TryBlock
    BY DEF TryBlock
  <2>2. ASSUME NEW a \in Attempt
        PROVE  [a EXCEPT !.pc = l, !.target = i, !.current = c] \in Attempt
    BY <2>1 DEF Attempt
  <2>3. ASSUME NEW a \in Attempt
        PROVE  LET b == [a EXCEPT !.pc = l, !.target = i, !.current = c] IN
               /\ b.pc = l /\ b.target = i /\ b.current = c
               /\ b.req = a.req /\ b.rid = a.rid /\ b.runId = a.runId
    BY DEF Attempt
  <2> QED
    BY <1>1, <1>2, <2>2, <2>3
<1>4. imp' \in [Importers -> Attempt]
  BY <1>3 DEF Inv, TypeOK, ImportTypeOK
<1>5. \A j \in Ids : (Issued(j) => Issued(j)') /\ (Usable(j) => Usable(j)')
  BY <1>3 DEF Issued, Usable, Exists, registryVars, Inv, TypeOK, ImportTypeOK
<1>6. RunOpen(p)'
  BY <1>1, <1>3, <1>5 DEF RunOpen, Opened, Unopened, Recording, Exists, registryVars
<1>7. AttemptOK(p)'
  BY <1>1, <1>3, <1>5, <1>6 DEF AttemptOK, At, Live
<1> QED
  BY <1>4, <1>5, <1>7, QuietAttempt DEF Ids

\* The idempotent skip, whether it returns, refuses or prepares an activation.
LEMMA SkipUnchangedPreserves ==
    ASSUME Inv, NEW p \in Importers, SkipUnchanged(p), UNCHANGED ops
    PROVE  Inv'
<1>1. PICK i \in Ids :
        /\ Exists(i) /\ IsBuilt(rows[i])
        /\ \/ Finish(p, "done")
           \/ Raise(p)
           \/ \E c \in IF ActiveIds(FamilyOf[imp[p].req.name]) = {} THEN {None}
                       ELSE ActiveIds(FamilyOf[imp[p].req.name]) :
                 imp' = [imp EXCEPT ![p].pc = "skipActivate",
                                    ![p].target = i, ![p].current = c]
  BY DEF SkipUnchanged, IdsNamed, Unchanged
<1>2. imp[p].pc = "open" /\ runs[p] = None /\ UNCHANGED registryVars
  BY DEF SkipUnchanged, At, Inv, AttemptOK, RunOpen, Unopened
<1>3. CASE Finish(p, "done")
  BY <1>2, <1>3, FinishPreserves DEF ImportEnded
<1>4. CASE Raise(p)
  BY <1>2, <1>4, RaisePreserves DEF TryBlock
<1>5. ASSUME NEW c \in IF ActiveIds(FamilyOf[imp[p].req.name]) = {} THEN {None}
                       ELSE ActiveIds(FamilyOf[imp[p].req.name]),
             imp' = [imp EXCEPT ![p].pc = "skipActivate",
                                ![p].target = i, ![p].current = c]
      PROVE  Inv'
  BY <1>1, <1>2, <1>5, LoadedUsable, ActiveUsable, LoadActivation
<1> QED
  BY <1>1, <1>3, <1>4, <1>5

\* A lock timeout of Phase B2 moves tries within its bound, or gives up.
LEMMA LockTimeoutPreserves ==
    ASSUME Inv, NEW p \in Importers, LockTimeout(p), UNCHANGED ops
    PROVE  Inv'
<1>1. imp[p] \in Attempt /\ imp[p].pc = "swap" /\ UNCHANGED registryVars /\ AttemptOK(p)
  BY DEF Inv, TypeOK, ImportTypeOK, LockTimeout, At
<1>2. CASE Raise(p)
  BY <1>1, <1>2, RaisePreserves DEF TryBlock
<1>3. CASE imp[p].tries + 1 < MaxLockAttempts /\ imp' = [imp EXCEPT ![p].tries = @ + 1]
  <2>1. imp'[p] = [imp[p] EXCEPT !.tries = @ + 1]
    BY <1>3 DEF Inv, TypeOK, ImportTypeOK
  <2>2. imp[p].tries + 1 \in 0..(MaxLockAttempts - 1)
    BY <1>1, <1>3, ImportAssumption DEF Attempt
  <2>3. ASSUME NEW a \in Attempt, NEW n \in 0..(MaxLockAttempts - 1)
        PROVE  [a EXCEPT !.tries = n] \in Attempt
    BY DEF Attempt
  <2>4. imp'[p] \in Attempt
    BY <1>1, <2>1, <2>2, <2>3
  <2>5. /\ imp'[p].pc = imp[p].pc /\ imp'[p].req = imp[p].req /\ imp'[p].rid = imp[p].rid
        /\ imp'[p].imported = imp[p].imported /\ imp'[p].runId = imp[p].runId
    BY <1>1, <2>1 DEF Attempt
  <2>6. imp' \in [Importers -> Attempt]
    BY <1>3, <2>4 DEF Inv, TypeOK, ImportTypeOK
  <2>7. \A j \in Ids : Issued(j) => Issued(j)'
    BY <1>3, <2>5 DEF Issued, Inv, TypeOK, ImportTypeOK
  <2>8. RunOpen(p)'
    BY <1>1, <2>5, <2>7 DEF AttemptOK, RunOpen, Opened, Unopened, Recording, Exists, registryVars
  <2>9. AttemptOK(p)'
    BY <1>1, <2>5, <2>8 DEF AttemptOK, Live, At
  <2> QED
    BY <1>1, <1>3, <2>6, <2>7, <2>9, QuietAttempt DEF Ids
<1> QED
  BY <1>1, <1>2, <1>3 DEF LockTimeout

\* The finalize session loads a row of the type its flush needs.
LEMMA FinalizePreserves ==
    ASSUME Inv, NEW p \in Importers, Finalize(p), UNCHANGED ops
    PROVE  Inv'
<1> DEFINE i == imp[p].rid
<1>1. /\ imp[p] \in Attempt /\ imp[p].pc = "finalize" /\ UNCHANGED registryVars
      /\ AttemptOK(p) /\ i \in Ids /\ Issued(i)
  BY DEF Inv, TypeOK, ImportTypeOK, Finalize, At, AttemptOK, RunOpen, Opened, Unopened
<1>2. CASE Raise(p)
  BY <1>1, <1>2, RaisePreserves DEF TryBlock
<1>3. CASE Exists(i) /\ imp' = [imp EXCEPT ![p].pc = "finalizeCommit", ![p].target = i,
                                           ![p].loaded = rows[i]]
  <2>1. imp'[p] = [imp[p] EXCEPT !.pc = "finalizeCommit", !.target = i, !.loaded = rows[i]]
    BY <1>3 DEF Inv, TypeOK, ImportTypeOK
  <2>2. rows[i] \in Row /\ rows[i] # None
    BY <1>1, <1>3 DEF Exists, Inv, TypeOK, RegistryTypeOK
  <2>3. "finalizeCommit" \in TryBlock
    BY DEF TryBlock
  <2>4. imp'[p] \in Attempt
    BY <1>1, <2>1, <2>2, <2>3 DEF Attempt
  <2>5. /\ imp'[p].pc = "finalizeCommit" /\ imp'[p].req = imp[p].req /\ imp'[p].rid = i
        /\ imp'[p].imported = imp[p].imported /\ imp'[p].runId = imp[p].runId
        /\ imp'[p].target = i /\ imp'[p].loaded = rows[i]
    BY <1>1, <2>1 DEF Attempt
  <2>6. imp' \in [Importers -> Attempt]
    BY <1>3, <2>4 DEF Inv, TypeOK, ImportTypeOK
  <2>7. \A j \in Ids : (Issued(j) => Issued(j)') /\ (Kept(j) => Kept(j)')
    BY <1>1, <1>3, <2>5 DEF Issued, Kept, RemovalUnderWay, registryVars, Inv, TypeOK, ImportTypeOK
  <2>8. RunOpen(p)'
    BY <1>1, <2>5, <2>7 DEF AttemptOK, RunOpen, Opened, Unopened, Recording, Exists, registryVars
  <2>9. Kept(imp[p].rid)' /\ (imp[p].loaded.table => Usable(imp[p].rid))'
    BY <1>1, <2>5, <2>7 DEF AttemptOK, Usable, Exists, registryVars
  <2>10. AttemptOK(p)'
    BY <1>1, <2>2, <2>5, <2>8, <2>9 DEF AttemptOK, Live, At, TryBlock
  <2> QED
    BY <1>1, <1>3, <2>6, <2>7, <2>10, QuietAttempt DEF Ids
<1> QED
  BY <1>1, <1>2, <1>3 DEF Finalize

\* An attempt with nothing left to write moves on to the cleanup.
LEMMA GotoCleanup ==
    ASSUME Inv, NEW p \in Importers, At(p, "readBack"), Goto(p, "cleanup"),
           UNCHANGED <<registryVars, ops>>
    PROVE  Inv'
<1>1. imp[p] \in Attempt /\ imp[p].pc = "readBack" /\ AttemptOK(p)
  BY DEF Inv, TypeOK, ImportTypeOK, At
<1>2. imp'[p] = [imp[p] EXCEPT !.pc = "cleanup"]
  BY DEF Goto, Inv, TypeOK, ImportTypeOK
<1>3. imp'[p] \in Attempt
  BY <1>1, <1>2 DEF Attempt, TryBlock
<1>4. /\ imp'[p].pc = "cleanup" /\ imp'[p].req = imp[p].req /\ imp'[p].rid = imp[p].rid
      /\ imp'[p].runId = imp[p].runId
  BY <1>1, <1>2 DEF Attempt
<1>5. imp' \in [Importers -> Attempt]
  BY <1>3 DEF Goto, Inv, TypeOK, ImportTypeOK
<1>6. \A j \in Ids : Issued(j) => Issued(j)'
  BY <1>4 DEF Goto, Issued, Inv, TypeOK, ImportTypeOK
<1>7. RunOpen(p)'
  BY <1>1, <1>4, <1>6 DEF AttemptOK, RunOpen, Opened, Unopened, Recording, Exists, registryVars
<1>8. AttemptOK(p)'
  BY <1>1, <1>4, <1>7 DEF AttemptOK, Live, At, TryBlock
<1> QED
  BY <1>5, <1>6, <1>8, QuietAttempt DEF Ids, Goto

\* The gate after a finalize holds, refuses or prepares an activation.
LEMMA ReadBackPreserves ==
    ASSUME Inv, NEW p \in Importers, ReadBack(p), UNCHANGED ops
    PROVE  Inv'
<1> DEFINE i == imp[p].rid
           f == FamilyOf[imp[p].req.name]
<1>1. /\ imp[p].pc = "readBack" /\ At(p, "readBack") /\ UNCHANGED registryVars /\ i \in Ids
  BY DEF Inv, ReadBack, At, AttemptOK, RunOpen, Opened, Unopened
<1>2. \/ Goto(p, "cleanup")
      \/ Raise(p)
      \/ /\ Exists(i) /\ rows[i].state \in Activatable
         /\ \E c \in IF ActiveIds(f) = {} THEN {None} ELSE ActiveIds(f) :
              imp' = [imp EXCEPT ![p].pc = "activate", ![p].target = i, ![p].current = c]
  BY DEF ReadBack
<1>3. CASE Goto(p, "cleanup")
  BY <1>1, <1>3, GotoCleanup
<1>4. CASE Raise(p)
  BY <1>1, <1>4, RaisePreserves DEF TryBlock
<1>5. ASSUME Exists(i), rows[i].state \in Activatable,
             NEW c \in IF ActiveIds(f) = {} THEN {None} ELSE ActiveIds(f),
             imp' = [imp EXCEPT ![p].pc = "activate", ![p].target = i, ![p].current = c]
      PROVE  Inv'
  <2>1. Usable(i)
    BY <1>1, <1>5, LoadedUsable DEF Activatable, Built
  <2>2. c \in Ids \cup {None} /\ (c # None => Usable(c))
    BY <1>5, ActiveUsable
  <2> QED
    BY <1>1, <1>5, <2>1, <2>2, LoadActivation
<1> QED
  BY <1>2, <1>3, <1>4, <1>5

\* The recorder loads the release it finds by name, if there is one.
LEMMA RecordPreserves ==
    ASSUME Inv, NEW p \in Importers, Record(p), UNCHANGED ops
    PROVE  Inv'
<1>1. imp[p] \in Attempt /\ imp[p].pc = "record" /\ AttemptOK(p) /\ UNCHANGED registryVars
  BY DEF Inv, TypeOK, ImportTypeOK, At, Record
<1>2. PICK i \in Ids \cup {None}, r \in Row \cup {None} :
        /\ i # None => r # None
        /\ imp' = [imp EXCEPT ![p].pc = "recordCommit", ![p].target = i, ![p].loaded = r]
  BY DEF Record, IdsNamed, Exists, Inv, TypeOK, RegistryTypeOK
<1>3. imp'[p] = [imp[p] EXCEPT !.pc = "recordCommit", !.target = i, !.loaded = r]
  BY <1>2 DEF Inv, TypeOK, ImportTypeOK
<1>4. imp'[p] \in Attempt
  <2>1. ASSUME NEW a \in Attempt
        PROVE  [a EXCEPT !.pc = "recordCommit", !.target = i, !.loaded = r] \in Attempt
    BY DEF Attempt, Recording
  <2> QED
    BY <1>1, <1>3, <2>1
<1>5. /\ imp'[p].pc = "recordCommit" /\ imp'[p].req = imp[p].req
      /\ imp'[p].target = i /\ imp'[p].loaded = r
  BY <1>1, <1>3 DEF Attempt
<1>6. imp' \in [Importers -> Attempt]
  BY <1>2, <1>4 DEF Inv, TypeOK, ImportTypeOK
<1>7. AttemptOK(p)'
  BY <1>1, <1>2, <1>5 DEF AttemptOK, RunOpen, Opened, Unopened, Live, At, Recording, registryVars
<1> QED
  BY <1>1, <1>2, <1>5, <1>6, <1>7, QuietAttempt DEF Issued

\* The steps that find what they need gone, or refuse.
LEMMA RaisingPreserves ==
    ASSUME Inv, NEW p \in Importers, UNCHANGED ops,
           \/ RefuseActive(p) \/ OpenRunFails(p) \/ PhaseB1Fails(p) \/ SwapFails(p)
           \/ FinalizeCommitFails(p) \/ ActivateImportedFails(p)
    PROVE  Inv'
<1>1. Raise(p) /\ UNCHANGED registryVars /\ imp[p].pc \in TryBlock
  BY DEF RefuseActive, OpenRunFails, PhaseB1Fails, SwapFails, FinalizeCommitFails,
         ActivateImportedFails, At, TryBlock
<1> QED
  BY <1>1, RaisePreserves
-----------------------------------------------------------------------------
(* The attempts: steps that write tables, not rows                         *)

\* A step of attempt p that writes tables, and no row or run, keeps the
\* invariant if no release loses its partition.
LEMMA TableFrame ==
    ASSUME Inv, NEW p \in Importers, UNCHANGED <<rows, runs, held, ops>>, TypeOK',
           \A q \in Importers \ {p} : imp'[q] = imp[q],
           Issued(p) => Issued(p)',
           \A i \in Ids : partition[i] # None => partition'[i] # None,
           AttemptOK(p)'
    PROVE  Inv'
<1>1. \A i \in Ids : (Exists(i)' <=> Exists(i)) /\ (Kept(i) => Kept(i)')
  BY DEF Exists, Kept, RemovalUnderWay
<1>2. Steady
  BY <1>1 DEF Steady, Issued
<1>3. RowsOK'
  BY <1>1, <1>2 DEF Inv, RowsOK, Steady
<1>4. OneActivePerFamily' /\ \A q \in Importers : RunKept(q)
  BY DEF Inv, OneActivePerFamily, UniqueActive, RunKept
<1> QED
  BY <1>2, <1>3, <1>4, AttemptFrame

\* The attempt moves on with its run, its request and its release.
LEMMA RunStaysOpen ==
    ASSUME Inv, NEW p \in Importers, UNCHANGED <<rows, runs>>,
           imp[p].pc \in Opened, imp'[p].pc \in Opened,
           imp'[p].rid = imp[p].rid, imp'[p].runId = imp[p].runId, imp[p].pc # "runId",
           imp'[p].pc # "runId",
           \/ imp'[p].pc \in {"stage", "build", "swap", "finalize", "finalizeCommit"}
           \/ imp[p].pc \in {"readBack", "activate", "cleanup"},
           \A j \in Ids : Issued(j) => Issued(j)'
    PROVE  RunOpen(p)'
<1>1. RunOpen(p)
  BY DEF Inv, AttemptOK
<1> QED
  BY <1>1 DEF RunOpen, Opened, Unopened, Recording, Exists

\* sync_family() touches no release.
LEMMA SyncFamilyPreserves ==
    ASSUME Inv, NEW p \in Importers, SyncFamily(p), UNCHANGED ops
    PROVE  Inv'
<1>1. imp[p] \in Attempt /\ imp[p].pc = "sync" /\ AttemptOK(p)
  BY DEF Inv, TypeOK, ImportTypeOK, At, SyncFamily
<1>2. imp'[p] = [imp[p] EXCEPT !.pc = "open"]
  BY DEF SyncFamily, Goto, Inv, TypeOK, ImportTypeOK
<1>3. imp'[p] \in Attempt
  BY <1>1, <1>2 DEF Attempt, TryBlock
<1>4. imp'[p].pc = "open" /\ imp'[p].req = imp[p].req /\ imp'[p].runId = imp[p].runId
  BY <1>1, <1>2 DEF Attempt
<1>5. FamilyOf[imp[p].req.name] \in Families
  BY <1>1, RegistryAssumption DEF AttemptOK, Live, TryBlock, Attempt, Request
<1>6. TypeOK'
  BY <1>3, <1>5 DEF SyncFamily, Goto, Inv, TypeOK, RegistryTypeOK, ImportTypeOK, MaintenanceTypeOK
<1>7. AttemptOK(p)'
  BY <1>1, <1>4 DEF SyncFamily, AttemptOK, RunOpen, Opened, Unopened, Live, At, TryBlock, Recording
<1> QED
  BY <1>1, <1>6, <1>7, TableFrame DEF SyncFamily, Goto, Issued

\* Phase A fills the staging table and passes, or raises, with its run open.
LEMMA PhaseAPreserves ==
    ASSUME Inv, NEW p \in Importers, PhaseA(p), UNCHANGED ops
    PROVE  Inv'
<1> DEFINE q == imp[p].req
<1>1. imp[p] \in Attempt /\ imp[p].pc = "stage" /\ AttemptOK(p) /\ q \in Request
  BY DEF Inv, TypeOK, ImportTypeOK, At, PhaseA, AttemptOK, Live, TryBlock, Attempt
<1>2. /\ staging' \in [Names -> Sources \cup {None}]
      /\ rejects' \in [Names -> Sources \cup {None}]
  BY <1>1 DEF PhaseA, Request, Inv, TypeOK, RegistryTypeOK
<1>3. imp'[p] \in Attempt
  <2>1. CASE Raise(p)
    <3>1. imp'[p] = [NewAttempt EXCEPT !.pc = "record", !.req = q, !.rid = imp[p].rid,
                                       !.runId = imp[p].runId, !.swapped = imp[p].swapped]
      BY <2>1 DEF Raise, Inv, TypeOK, ImportTypeOK
    <3> QED
      BY <1>1, <3>1, NewAttemptType DEF Attempt, Recording
  <2>2. CASE Goto(p, "build")
    <3>1. imp'[p] = [imp[p] EXCEPT !.pc = "build"]
      BY <2>2 DEF Goto, Inv, TypeOK, ImportTypeOK
    <3> QED
      BY <1>1, <3>1 DEF Attempt, TryBlock
  <2> QED
    BY <2>1, <2>2 DEF PhaseA
<1>4. imp' \in [Importers -> Attempt] /\ \A r \in Importers \ {p} : imp'[r] = imp[r]
  BY <1>3 DEF PhaseA, Raise, Goto, Inv, TypeOK, ImportTypeOK
<1>5. /\ imp'[p].pc \in {"build", "record"} /\ imp'[p].req = q /\ imp'[p].rid = imp[p].rid
      /\ imp'[p].runId = imp[p].runId
  <2>1. CASE Raise(p)
    BY <2>1 DEF Raise, NewAttempt, Inv, TypeOK, ImportTypeOK
  <2>2. CASE Goto(p, "build")
    BY <1>1, <2>2 DEF Goto, Inv, TypeOK, ImportTypeOK, Attempt
  <2> QED
    BY <2>1, <2>2 DEF PhaseA
<1>6. TypeOK'
  BY <1>2, <1>4 DEF PhaseA, Inv, TypeOK, RegistryTypeOK, ImportTypeOK, MaintenanceTypeOK
<1>7. \A j \in Ids : Issued(j) => Issued(j)'
  BY <1>4, <1>5 DEF Issued
<1>8. RunOpen(p)'
  BY <1>1, <1>5, <1>7, RunStaysOpen DEF PhaseA, RunOpen, Opened, Unopened, Recording
<1>9. AttemptOK(p)'
  BY <1>1, <1>5, <1>8 DEF AttemptOK, Live, At, TryBlock
<1> QED
  BY <1>4, <1>6, <1>7, <1>9, TableFrame DEF PhaseA, Ids

\* Phase B1 fills the detached replacement of the attempt's own release.
LEMMA PhaseB1Preserves ==
    ASSUME Inv, NEW p \in Importers, PhaseB1(p), UNCHANGED ops
    PROVE  Inv'
<1> DEFINE rebuilt == staging[imp[p].req.name]
<1>1. imp[p] \in Attempt /\ imp[p].pc = "build" /\ AttemptOK(p) /\ imp[p].req \in Request
  BY DEF Inv, TypeOK, ImportTypeOK, At, PhaseB1, AttemptOK, Live, TryBlock, Attempt
<1>2. rebuilt \in Sources /\ rebuilt # None
  BY <1>1 DEF PhaseB1, Request, Inv, TypeOK, RegistryTypeOK
<1>3. imp'[p] = [imp[p] EXCEPT !.pc = "swap", !.imported = rebuilt]
  BY DEF PhaseB1, Inv, TypeOK, ImportTypeOK
<1>4. imp'[p] \in Attempt
  BY <1>1, <1>2, <1>3 DEF Attempt, TryBlock
<1>5. /\ imp'[p].pc = "swap" /\ imp'[p].req = imp[p].req /\ imp'[p].rid = imp[p].rid
      /\ imp'[p].imported = rebuilt /\ imp'[p].runId = imp[p].runId
  BY <1>1, <1>3 DEF Attempt
<1>6. imp' \in [Importers -> Attempt] /\ \A r \in Importers \ {p} : imp'[r] = imp[r]
  BY <1>4 DEF PhaseB1, Inv, TypeOK, ImportTypeOK
<1>7. TypeOK'
  BY <1>2, <1>6 DEF PhaseB1, Inv, TypeOK, RegistryTypeOK, ImportTypeOK, MaintenanceTypeOK
<1>8. \A j \in Ids : Issued(j) => Issued(j)'
  BY <1>5, <1>6 DEF Issued
<1>9. AttemptOK(p)'
  BY <1>1, <1>2, <1>5, <1>8, RunStaysOpen DEF PhaseB1, AttemptOK, Live, At, TryBlock, Opened
<1> QED
  BY <1>6, <1>7, <1>8, <1>9, TableFrame DEF PhaseB1, Ids

\* The swap leaves the release with a partition: the replacement's.
LEMMA SwapPreserves ==
    ASSUME Inv, NEW p \in Importers, Swap(p), UNCHANGED ops
    PROVE  Inv'
<1> DEFINE i == imp[p].rid
<1>1. imp[p] \in Attempt /\ imp[p].pc = "swap" /\ AttemptOK(p) /\ i \in Ids
  BY DEF Inv, TypeOK, ImportTypeOK, At, Swap, AttemptOK, RunOpen, Opened, Unopened
<1>2. imp'[p] = [imp[p] EXCEPT !.pc = "finalize", !.swapped = TRUE, !.tries = 0]
  BY DEF Swap, Inv, TypeOK, ImportTypeOK
<1>3. imp'[p] \in Attempt
  <2>1. 0 \in 0..(MaxLockAttempts - 1)
    BY ImportAssumption
  <2>2. ASSUME NEW a \in Attempt
        PROVE  [a EXCEPT !.pc = "finalize", !.swapped = TRUE, !.tries = 0] \in Attempt
    BY <2>1 DEF Attempt, TryBlock
  <2> QED
    BY <1>1, <1>2, <2>2
<1>4. /\ imp'[p].pc = "finalize" /\ imp'[p].req = imp[p].req /\ imp'[p].rid = imp[p].rid
      /\ imp'[p].imported = imp[p].imported /\ imp'[p].runId = imp[p].runId
  BY <1>1, <1>2 DEF Attempt
<1>5. imp' \in [Importers -> Attempt] /\ \A r \in Importers \ {p} : imp'[r] = imp[r]
  BY <1>3 DEF Swap, Inv, TypeOK, ImportTypeOK
<1>6. /\ partition' \in [Ids -> Sources \cup {None}] /\ partition'[i] # None
      /\ \A j \in Ids : partition[j] # None => partition'[j] # None
      /\ incoming' \in [Ids -> Sources \cup {None}]
  BY <1>1 DEF Swap, Inv, TypeOK, RegistryTypeOK
<1>7. TypeOK'
  BY <1>5, <1>6 DEF Swap, Inv, TypeOK, RegistryTypeOK, ImportTypeOK, MaintenanceTypeOK
<1>8. \A j \in Ids : Issued(j) => Issued(j)'
  BY <1>4, <1>5 DEF Issued
<1>9. RunOpen(p)' /\ Kept(imp[p].rid)'
  BY <1>1, <1>4, <1>6, <1>8, RunStaysOpen DEF Swap, Opened, Kept
<1>10. AttemptOK(p)'
  BY <1>1, <1>4, <1>9 DEF AttemptOK, Live, At, TryBlock
<1> QED
  BY <1>5, <1>6, <1>7, <1>8, <1>10, TableFrame DEF Swap, Ids

\* The cleanup drops a staging table and ends the attempt.
LEMMA CleanupPreserves ==
    ASSUME Inv, NEW p \in Importers, Cleanup(p), UNCHANGED ops
    PROVE  Inv'
<1>1. /\ imp[p] \in Attempt /\ imp[p].pc = "cleanup" /\ AttemptOK(p)
      /\ runs[p] = None \/ runs[p].status # "running"
  BY DEF Inv, TypeOK, ImportTypeOK, At, Cleanup, AttemptOK, RunOpen, Recording
<1>2. imp'[p] = [NewAttempt EXCEPT
                   !.pc = "done", !.swapped = imp[p].swapped, !.runId = imp[p].runId,
                   !.rid = IF imp[p].swapped THEN imp[p].rid ELSE None]
  BY DEF Cleanup, Finish, Inv, TypeOK, ImportTypeOK
<1>3. imp'[p] \in Attempt
  BY <1>1, <1>2, NewAttemptType DEF Attempt, ImportEnded
<1>4. imp' \in [Importers -> Attempt] /\ \A r \in Importers \ {p} : imp'[r] = imp[r]
  BY <1>3 DEF Cleanup, Finish, Inv, TypeOK, ImportTypeOK
<1>5. imp'[p].pc = "done"
  BY <1>2 DEF NewAttempt
<1>6. staging' \in [Names -> Sources \cup {None}]
  BY DEF Cleanup, Inv, TypeOK, RegistryTypeOK
<1>7. TypeOK'
  BY <1>4, <1>6 DEF Cleanup, Inv, TypeOK, RegistryTypeOK, ImportTypeOK, MaintenanceTypeOK
<1>8. AttemptOK(p)'
  BY <1>1, <1>5 DEF Cleanup, AttemptOK, RunOpen, Opened, Unopened, Recording, Live, At, TryBlock
<1> QED
  BY <1>4, <1>5, <1>7, <1>8, TableFrame DEF Cleanup, Issued
-----------------------------------------------------------------------------
(* The attempts: steps that write rows                                     *)

\* summarize() returns one of the validation statuses.
LEMMA SummarizeType ==
    ASSUME NEW a \in Statuses, NEW b \in Statuses
    PROVE  Summarize(a, b) \in Statuses
BY DEF Summarize, Statuses

\* A flush writes what the session changed and keeps the rest.
LEMMA FlushType ==
    ASSUME NEW row \in Row, NEW loaded \in Row, NEW assigned \in Row
    PROVE  /\ Flush(row, loaded, assigned) \in Row
           /\ Flush(row, loaded, assigned).name = row.name
           /\ Flush(row, loaded, assigned).state \in {row.state, assigned.state}
           /\ Flush(row, loaded, assigned).state # row.state =>
                 assigned.state # loaded.state
           /\ Flush(row, loaded, assigned).table =
                 IF assigned.table # loaded.table THEN assigned.table ELSE row.table
BY DEF Flush, Column, Row

\* A write of rows that builds nothing without a table to serve it from.
LEMMA RowFrame ==
    ASSUME Inv, NEW fresh \in SUBSET Ids,
           \A i \in Ids : Issued(i) => Issued(i)',
           \A i \in Ids : Kept(i) => Kept(i)',
           \A i \in Ids : rows'[i] # None =>
              /\ i \in fresh => Issued(i)' /\ ~Issued(i)
              /\ i \notin fresh => Exists(i) /\ (rows[i].table => rows'[i].table)
              /\ rows'[i].state \in Built => rows'[i].table
              /\ rows'[i].table => Kept(i)
    PROVE  RowsOK' /\ Steady
<1>1. Steady
  BY DEF Steady, Exists
<1>2. RowsOK'
  BY DEF Inv, RowsOK, Exists
<1> QED
  BY <1>1, <1>2

\* RowFrame for a step that changes the row of one release.
LEMMA RowUpdate ==
    ASSUME Inv,
           \A i \in Ids : Issued(i) => Issued(i)',
           \A i \in Ids : Kept(i) => Kept(i)',
           \A i \in Ids : rows'[i] # None =>
              /\ Exists(i) /\ (rows[i].table => rows'[i].table)
              /\ rows'[i].state \in Built => rows'[i].table
              /\ rows'[i].table => Kept(i)
    PROVE  RowsOK' /\ Steady
<1>1. {} \in SUBSET Ids
  OBVIOUS
<1> QED
  BY <1>1, RowFrame

\* The insert of the run, and of the row if it is new, in state REGISTERED.
LEMMA OpenRunPreserves ==
    ASSUME Inv, NEW p \in Importers, OpenRun(p), UNCHANGED ops
    PROVE  Inv'
<1> DEFINE i == imp[p].rid
           n == imp[p].req.name
<1>1. /\ imp[p] \in Attempt /\ imp[p].pc = "openRun" /\ AttemptOK(p) /\ ~imp[p].runId
      /\ i \in Ids /\ (i = p \/ Issued(i)) /\ n \in Names /\ imp[p].req # None
  BY DEF Inv, TypeOK, ImportTypeOK, At, OpenRun, AttemptOK, RunOpen, Unopened, Live, TryBlock,
         Attempt, Request, Ids
<1>2. ~Exists(p) /\ ~Issued(p)
  BY <1>1 DEF Inv, RowsOK, Issued, Ids
<1>3. imp'[p] = [imp[p] EXCEPT !.pc = "runId"]
  BY DEF OpenRun, Goto, Inv, TypeOK, ImportTypeOK
<1>4. imp'[p] \in Attempt
  BY <1>1, <1>3 DEF Attempt, TryBlock
<1>5. imp'[p].pc = "runId" /\ imp'[p].req = imp[p].req /\ imp'[p].rid = i /\ ~imp'[p].runId
  BY <1>1, <1>3 DEF Attempt
<1>6. imp' \in [Importers -> Attempt] /\ \A r \in Importers \ {p} : imp'[r] = imp[r]
  BY <1>4 DEF OpenRun, Goto, Inv, TypeOK, ImportTypeOK
<1>7. NewRow(n) \in Row /\ NewRow(n).state = "registered" /\ NewRow(n).table = FALSE
  BY <1>1 DEF NewRow, Row, States
<1>8. rows' \in [Ids -> Row \cup {None}]
  BY <1>7 DEF OpenRun, Inv, TypeOK, RegistryTypeOK
<1>9. /\ runs' \in [Importers -> Run \cup {None}]
      /\ runs'[p].release = i /\ runs'[p] # None
      /\ \A r \in Importers \ {p} : runs'[r] = runs[r]
  BY <1>1, RegistryAssumption DEF OpenRun, Run, Inv, TypeOK, RegistryTypeOK
<1>10. TypeOK'
  BY <1>6, <1>8, <1>9 DEF OpenRun, Inv, TypeOK, RegistryTypeOK, ImportTypeOK, MaintenanceTypeOK
<1>11. \A j \in Ids : rows'[j] # None =>
          \/ j = p /\ rows'[j] = NewRow(n) /\ i = p
          \/ rows'[j] = rows[j] /\ Exists(j)
  BY <1>2 DEF OpenRun, Inv, TypeOK, RegistryTypeOK, Exists
<1>12. \A j \in Ids : (Issued(j) => Issued(j)') /\ (Kept(j) => Kept(j)')
  BY <1>5, <1>6 DEF OpenRun, Issued, Kept, RemovalUnderWay
<1>13. Issued(p)' /\ Issued(i)'
  BY <1>1, <1>5, <1>12 DEF Issued, Ids
<1>14. RowsOK' /\ Steady
  <2>1. \A j \in Ids : rows'[j] # None =>
              /\ j \in {p} => Issued(j)' /\ ~Issued(j)
              /\ j \notin {p} => Exists(j) /\ (rows[j].table => rows'[j].table)
              /\ rows'[j].state \in Built => rows'[j].table
              /\ rows'[j].table => Kept(j)
    BY <1>2, <1>7, <1>11, <1>13 DEF Inv, RowsOK, Built
  <2> QED
    BY <1>12, <2>1, RowFrame DEF Ids
<1>15. OneActivePerFamily'
  BY <1>7, <1>11 DEF Inv, OneActivePerFamily, UniqueActive, Exists
<1>16. AttemptOK(p)'
  BY <1>1, <1>5, <1>9, <1>13 DEF AttemptOK, RunOpen, Opened, Unopened, Recording, Live, At, TryBlock
<1> QED
  BY <1>6, <1>9, <1>10, <1>14, <1>15, <1>16, AttemptFrame DEF RunKept

\* The id of the run is read back, or its release is found gone.
LEMMA ReadRunIdPreserves ==
    ASSUME Inv, NEW p \in Importers, ReadRunId(p), UNCHANGED ops
    PROVE  Inv'
<1>1. imp[p] \in Attempt /\ imp[p].pc = "runId" /\ AttemptOK(p) /\ UNCHANGED registryVars
  BY DEF Inv, TypeOK, ImportTypeOK, At, ReadRunId
<1>2. CASE Raise(p)
  BY <1>1, <1>2, RaisePreserves DEF TryBlock
<1>3. CASE runs[p] # None /\ imp' = [imp EXCEPT ![p].pc = "stage", ![p].runId = TRUE]
  <2>1. imp'[p] = [imp[p] EXCEPT !.pc = "stage", !.runId = TRUE]
    BY <1>3 DEF Inv, TypeOK, ImportTypeOK
  <2>2. imp'[p] \in Attempt
    BY <1>1, <2>1 DEF Attempt, TryBlock
  <2>3. /\ imp'[p].pc = "stage" /\ imp'[p].req = imp[p].req /\ imp'[p].rid = imp[p].rid
        /\ imp'[p].runId
    BY <1>1, <2>1 DEF Attempt
  <2>4. imp' \in [Importers -> Attempt] /\ \A r \in Importers \ {p} : imp'[r] = imp[r]
    BY <1>3, <2>2 DEF Inv, TypeOK, ImportTypeOK
  <2>5. \A j \in Ids : Issued(j) => Issued(j)'
    BY <2>3, <2>4 DEF Issued
  <2>6. RunOpen(p)'
    BY <1>1, <2>3, <2>5 DEF AttemptOK, RunOpen, Opened, Unopened, Recording, Exists, registryVars
  <2>7. AttemptOK(p)'
    BY <1>1, <2>3, <2>6 DEF AttemptOK, Live, At, TryBlock
  <2> QED
    BY <1>1, <2>4, <2>5, <2>7, QuietAttempt DEF Ids
<1> QED
  BY <1>2, <1>3 DEF ReadRunId

\* The event of the skip reads the release back, or fails the attempt.
LEMMA ReportSkipPreserves ==
    ASSUME Inv, NEW p \in Importers, ReportSkip(p), UNCHANGED ops
    PROVE  Inv'
<1>1. imp[p].pc = "skipReport" /\ runs[p] = None /\ UNCHANGED registryVars
  BY DEF Inv, At, ReportSkip, AttemptOK, RunOpen, Unopened
<1>2. CASE Finish(p, "done")
  BY <1>1, <1>2, FinishPreserves DEF ImportEnded
<1>3. CASE Raise(p)
  BY <1>1, <1>3, RaisePreserves DEF TryBlock
<1> QED
  BY <1>2, <1>3 DEF ReportSkip

\* The finalize commit: the release is built only with its table recorded and
\* its partition swapped in, the index admits it, and the run has succeeded.
LEMMA FinalizeCommitPreserves ==
    ASSUME Inv, NEW p \in Importers, FinalizeCommit(p), UNCHANGED ops
    PROVE  Inv'
<1> DEFINE i == imp[p].rid
           loaded == imp[p].loaded
           assigned == [loaded EXCEPT !.state = FinalState(p), !.checksum = imp[p].req.src,
                                      !.table = TRUE, !.validation = FinalStatus(p)]
<1>1. /\ imp[p] \in Attempt /\ imp[p].pc = "finalizeCommit" /\ AttemptOK(p)
      /\ i \in Ids /\ Issued(i) /\ Kept(i) /\ imp[p].target = i
      /\ loaded \in Row /\ (loaded.table => Usable(i))
      /\ imp[p].req \in Request /\ imp[p].req # None /\ imp[p].imported \in Sources
  BY DEF Inv, TypeOK, ImportTypeOK, At, FinalizeCommit, AttemptOK, RunOpen, Live, TryBlock,
         Opened, Attempt
<1>2. Exists(i) /\ rows[i] \in Row /\ UniqueActive(Finalized(p))
  BY <1>1 DEF FinalizeCommit, CannotFinalize, Exists, Inv, TypeOK, RegistryTypeOK
<1>3. runs[p] \in Run
  BY <1>1, <1>2 DEF AttemptOK, RunOpen, Opened, Unopened, Inv, TypeOK, RegistryTypeOK
<1>4. assigned \in Row
  <2>1. FinalState(p) \in States
    BY DEF FinalState, States
  <2>2. FinalStatus(p) \in Statuses
    BY <1>1, RegistryAssumption, SummarizeType DEF FinalStatus, Request
  <2>3. imp[p].req.src \in Sources
    BY <1>1 DEF Request
  <2> QED
    BY <1>1, <2>1, <2>2, <2>3 DEF Row
<1>5. assigned.table = TRUE
  BY <1>1 DEF Row
<1> HIDE DEF assigned
<1> DEFINE row == Flush(rows[i], loaded, assigned)
<1>6. row \in Row /\ row.table
  <2>1. /\ row \in Row
        /\ row.table = IF assigned.table # loaded.table THEN assigned.table ELSE rows[i].table
    BY <1>1, <1>2, <1>4, FlushType
  <2>2. CASE loaded.table
    BY <1>1, <1>2, <1>5, <2>1, <2>2 DEF Usable
  <2>3. CASE ~loaded.table
    BY <1>1, <1>5, <2>1, <2>3
  <2> QED
    BY <2>1, <2>2, <2>3
<1>7. rows' = [rows EXCEPT ![i] = row] /\ rows' = Finalized(p)
  BY <1>1 DEF FinalizeCommit, Finalized, assigned
<1> HIDE DEF row
<1>8. imp'[p] = [imp[p] EXCEPT !.pc = "readBack", !.swapped = FALSE, !.target = None,
                               !.loaded = None]
  BY DEF FinalizeCommit, Inv, TypeOK, ImportTypeOK
<1>9. imp'[p] \in Attempt
  <2>1. ASSUME NEW a \in Attempt
        PROVE  [a EXCEPT !.pc = "readBack", !.swapped = FALSE, !.target = None,
                         !.loaded = None] \in Attempt
    BY DEF Attempt, TryBlock
  <2> QED
    BY <1>1, <1>8, <2>1
<1>10. /\ imp'[p].pc = "readBack" /\ imp'[p].req = imp[p].req /\ imp'[p].rid = i
       /\ imp'[p].runId = imp[p].runId
  BY <1>1, <1>8 DEF Attempt
<1>11. imp' \in [Importers -> Attempt] /\ \A r \in Importers \ {p} : imp'[r] = imp[r]
  BY <1>9 DEF FinalizeCommit, Inv, TypeOK, ImportTypeOK
<1>12. /\ runs' \in [Importers -> Run \cup {None}]
       /\ runs'[p].release = runs[p].release /\ runs'[p].status = "succeeded"
       /\ runs'[p] # None /\ \A r \in Importers \ {p} : runs'[r] = runs[r]
  <2>1. [runs[p] EXCEPT !.status = "succeeded"] \in Run
    BY <1>3 DEF Run
  <2> QED
    BY <1>3, <2>1, RegistryAssumption DEF FinalizeCommit, Inv, TypeOK, RegistryTypeOK, Run
<1>13. TypeOK'
  <2>1. rows' \in [Ids -> Row \cup {None}]
    BY <1>6, <1>7 DEF Inv, TypeOK, RegistryTypeOK
  <2> QED
    BY <1>11, <1>12, <2>1 DEF FinalizeCommit, Inv, TypeOK, RegistryTypeOK, ImportTypeOK,
                              MaintenanceTypeOK
<1>14. \A j \in Ids : (Issued(j) => Issued(j)') /\ (Kept(j) => Kept(j)')
  BY <1>10, <1>11 DEF FinalizeCommit, Issued, Kept, RemovalUnderWay
<1>15. RowsOK' /\ Steady
  <2>1. \A j \in Ids : rows'[j] # None =>
              /\ Exists(j) /\ (rows[j].table => rows'[j].table)
              /\ rows'[j].state \in Built => rows'[j].table
              /\ rows'[j].table => Kept(j)
    BY <1>1, <1>2, <1>6, <1>7 DEF Inv, RowsOK, TypeOK, RegistryTypeOK, Exists
  <2> QED
    BY <1>14, <2>1, RowUpdate
<1>16. OneActivePerFamily'
  BY <1>2, <1>7 DEF OneActivePerFamily, UniqueActive
<1>17. AttemptOK(p)'
  BY <1>1, <1>2, <1>3, <1>10, <1>12, <1>14 DEF AttemptOK, RunOpen, Opened, Unopened, Recording, Live, At,
                                              TryBlock
<1> QED
  BY <1>11, <1>12, <1>13, <1>15, <1>16, <1>17, AttemptFrame DEF FinalizeCommit, RunKept

\* What one activation does to the rows, whoever runs it.
LEMMA ActivationRows ==
    ASSUME Inv, NEW i \in Ids, Usable(i), NEW c \in Ids \cup {None}, c # None => Usable(c),
           ActivationCommits(i, c), rows' = WithActive(i, c),
           \A j \in Ids : Issued(j) => Issued(j)', \A j \in Ids : Kept(j) => Kept(j)'
    PROVE  /\ rows' \in [Ids -> Row \cup {None}]
           /\ OneActivePerFamily' /\ RowsOK' /\ Steady
<1>1. Exists(i) /\ (c # None => Exists(c))
  BY DEF ActivationCommits
<1>2. \A j \in Ids : rows[j] \in Row \cup {None}
  BY DEF Inv, TypeOK, RegistryTypeOK
<1>3. ASSUME NEW j \in Ids, rows'[j] # None
      PROVE  /\ rows'[j] \in Row /\ Exists(j) /\ rows'[j].table = rows[j].table
             /\ rows'[j].state \in Built => rows[j].table
  <2>1. ASSUME NEW row \in Row, NEW st \in {"active", "superseded"}
        PROVE  /\ [row EXCEPT !.state = st] \in Row
               /\ [row EXCEPT !.state = st].table = row.table
    BY DEF Row, States
  <2>2. CASE j = i
    BY <1>1, <1>2, <2>1, <2>2 DEF WithActive, Usable, Exists
  <2>3. CASE j # i /\ j = c
    BY <1>1, <1>2, <2>1, <2>3, RegistryAssumption DEF WithActive, Usable, Exists
  <2>4. CASE j # i /\ j # c
    BY <1>2, <1>3, <2>4 DEF WithActive, Exists, Inv, RowsOK
  <2> QED
    BY <2>2, <2>3, <2>4
<1>5. RowsOK' /\ Steady
  <2>1. \A j \in Ids : rows'[j] # None =>
              /\ Exists(j) /\ (rows[j].table => rows'[j].table)
              /\ rows'[j].state \in Built => rows'[j].table
              /\ rows'[j].table => Kept(j)
    BY <1>3 DEF Inv, RowsOK
  <2> QED
    BY <2>1, RowUpdate
<1>6. rows' \in [Ids -> Row \cup {None}]
  BY <1>3 DEF WithActive
<1>7. OneActivePerFamily'
  BY DEF ActivationCommits, OneActivePerFamily, UniqueActive
<1> QED
  BY <1>5, <1>6, <1>7

\* The activation of import --activate, admitted or refused by the index.
LEMMA ActivateImportedPreserves ==
    ASSUME Inv, NEW p \in Importers, ActivateImported(p), UNCHANGED ops
    PROVE  Inv'
<1> DEFINE i == imp[p].target
           c == imp[p].current
<1>1. /\ imp[p] \in Attempt /\ imp[p].pc \in {"activate", "skipActivate"} /\ AttemptOK(p)
      /\ Usable(i) /\ i \in Ids /\ c \in Ids \cup {None} /\ (c # None => Usable(c))
      /\ imp[p].req # None /\ runs' = runs /\ (runs[p] = None \/ runs[p].status # "running")
  BY DEF Inv, TypeOK, ImportTypeOK, At, ActivateImported, AttemptOK, RunOpen, Recording,
         Live, TryBlock, Usable, Attempt
<1> DEFINE l == IF imp[p].pc = "skipActivate" THEN "skipReport" ELSE "cleanup"
<1>2. imp'[p] = [imp[p] EXCEPT !.pc = l, !.current = None]
  BY DEF ActivateImported, At, Inv, TypeOK, ImportTypeOK
<1>3. /\ imp'[p] \in Attempt /\ imp'[p].pc = l /\ imp'[p].target = i
      /\ imp'[p].req = imp[p].req /\ imp'[p].rid = imp[p].rid /\ imp'[p].runId = imp[p].runId
  <2>1. l \in TryBlock
    BY DEF TryBlock
  <2> HIDE DEF l
  <2>2. ASSUME NEW a \in Attempt
        PROVE  [a EXCEPT !.pc = l, !.current = None] \in Attempt
    BY <2>1 DEF Attempt
  <2>3. ASSUME NEW a \in Attempt
        PROVE  LET b == [a EXCEPT !.pc = l, !.current = None] IN
               /\ b.pc = l /\ b.target = a.target /\ b.req = a.req /\ b.rid = a.rid
               /\ b.runId = a.runId
    BY DEF Attempt
  <2> QED
    BY <1>1, <1>2, <2>2, <2>3
<1>4. imp' \in [Importers -> Attempt] /\ \A r \in Importers \ {p} : imp'[r] = imp[r]
  BY <1>3 DEF ActivateImported, Inv, TypeOK, ImportTypeOK
<1>5. \A j \in Ids : (Issued(j) => Issued(j)') /\ (Kept(j) => Kept(j)')
  BY <1>1, <1>3, <1>4 DEF ActivateImported, Issued, Kept, RemovalUnderWay
<1>6. /\ rows' \in [Ids -> Row \cup {None}]
      /\ OneActivePerFamily' /\ RowsOK' /\ Steady
  BY <1>1, <1>5, ActivationRows DEF ActivateImported
<1>7. TypeOK'
  BY <1>4, <1>6 DEF ActivateImported, Inv, TypeOK, RegistryTypeOK, ImportTypeOK, MaintenanceTypeOK
<1>8. RunOpen(p)'
  BY <1>1, <1>3, <1>5, <1>6 DEF AttemptOK, RunOpen, Opened, Unopened, Recording, Steady
<1>9. AttemptOK(p)'
  BY <1>1, <1>3, <1>8 DEF AttemptOK, At, Live, TryBlock, Recording
<1> QED
  BY <1>1, <1>4, <1>6, <1>7, <1>9, AttemptFrame DEF RunKept

\* The recorder's commit: a release keeps its state or is FAILED, and the run
\* of the attempt is no longer running.
LEMMA RecordCommitPreserves ==
    ASSUME Inv, NEW p \in Importers, RecordCommit(p), UNCHANGED ops
    PROVE  Inv'
<1> DEFINE i == imp[p].target
           loaded == imp[p].loaded
           assigned == [loaded EXCEPT !.state = RecordedState(loaded)]
<1>1. /\ imp[p] \in Attempt /\ imp[p].pc = "recordCommit"
      /\ i \in Ids \cup {None}
      /\ i # None => Exists(i) /\ i \in Ids /\ rows[i] \in Row /\ loaded \in Row
  BY DEF Inv, TypeOK, ImportTypeOK, RegistryTypeOK, At, RecordCommit, AttemptOK, Attempt, Exists
<1>2. ASSUME i # None
      PROVE  /\ assigned \in Row /\ assigned.table = loaded.table
             /\ assigned.state \in {loaded.state, "failed"}
  BY <1>1, <1>2 DEF Row, RecordedState, States
<1> HIDE DEF assigned
<1> DEFINE row == Flush(rows[i], loaded, assigned)
<1>3. ASSUME i # None
      PROVE  /\ row \in Row /\ row.name = rows[i].name /\ row.table = rows[i].table
             /\ row.state \in {rows[i].state, "failed"}
  BY <1>1, <1>2, <1>3, FlushType
<1>4. rows' = IF i = None THEN rows ELSE [rows EXCEPT ![i] = row]
  BY DEF RecordCommit, assigned
<1> HIDE DEF row
<1>5. /\ rows' \in [Ids -> Row \cup {None}]
      /\ \A j \in Ids : rows'[j] # None =>
            /\ Exists(j) /\ rows'[j].name = rows[j].name /\ rows'[j].table = rows[j].table
            /\ rows'[j].state \in {rows[j].state, "failed"}
  BY <1>1, <1>3, <1>4 DEF Exists, Inv, TypeOK, RegistryTypeOK
<1>6. /\ runs' \in [Importers -> Run \cup {None}]
      /\ runs'[p] = None \/ runs'[p].status # "running" \/ ~imp[p].runId
      /\ \A r \in Importers \ {p} : runs'[r] = runs[r]
  <2>1. runs' = RunFailed(p) /\ runs \in [Importers -> Run \cup {None}]
    BY DEF RecordCommit, Inv, TypeOK, RegistryTypeOK
  <2>2. ASSUME NEW run \in Run
        PROVE  /\ [run EXCEPT !.status = "failed"] \in Run
               /\ [run EXCEPT !.status = "failed"].status = "failed"
    BY DEF Run
  <2> QED
    BY <2>1, <2>2 DEF RunFailed
<1>7. imp'[p] = [NewAttempt EXCEPT
                   !.pc = "failed", !.swapped = imp[p].swapped, !.runId = imp[p].runId,
                   !.rid = IF imp[p].swapped THEN imp[p].rid ELSE None]
  BY DEF RecordCommit, Finish, Inv, TypeOK, ImportTypeOK
<1>8. imp'[p] \in Attempt
  BY <1>1, <1>7, NewAttemptType DEF Attempt, ImportEnded
<1>9. imp' \in [Importers -> Attempt] /\ \A r \in Importers \ {p} : imp'[r] = imp[r]
  BY <1>8 DEF RecordCommit, Finish, Inv, TypeOK, ImportTypeOK
<1>10. imp'[p].pc = "failed" /\ imp'[p].runId = imp[p].runId
  BY <1>1, <1>7 DEF NewAttempt, Attempt
<1>11. TypeOK'
  BY <1>5, <1>6, <1>9 DEF RecordCommit, Inv, TypeOK, RegistryTypeOK, ImportTypeOK,
                          MaintenanceTypeOK
<1>12. \A j \in Ids : (Issued(j) => Issued(j)') /\ (Kept(j) => Kept(j)')
  BY <1>9, <1>10 DEF RecordCommit, Issued, Kept, RemovalUnderWay
<1>13. RowsOK' /\ Steady
  <2>1. \A j \in Ids : rows'[j] # None =>
              /\ Exists(j) /\ (rows[j].table => rows'[j].table)
              /\ rows'[j].state \in Built => rows'[j].table
              /\ rows'[j].table => Kept(j)
    BY <1>5 DEF Inv, RowsOK, Built
  <2> QED
    BY <1>12, <2>1, RowUpdate
<1>14. OneActivePerFamily'
  BY <1>5 DEF Inv, OneActivePerFamily, UniqueActive, Exists
<1>15. AttemptOK(p)'
  BY <1>6, <1>10 DEF AttemptOK, RunOpen, Opened, Unopened, Recording, Live, At, TryBlock
<1> QED
  BY <1>6, <1>9, <1>11, <1>13, <1>14, <1>15, AttemptFrame DEF RunKept

\* Every step of import_release(), in whatever state other processes left the
\* database, keeps the invariant.
THEOREM ImportPreserves ==
    ASSUME Inv, NEW p \in Importers, UNCHANGED ops,
           BeginImport(p) \/ ImportStep(p) \/ ImportFault(p)
    PROVE  Inv'
<1>1. CASE RecordCommitFails(p)
  BY <1>1, UnrecordedPreserves DEF RecordCommitFails
<1> QED
  BY <1>1, BeginImportPreserves, SyncFamilyPreserves, OpenPreserves, SkipUnchangedPreserves,
     RaisingPreserves, OpenRunPreserves, ReadRunIdPreserves, PhaseAPreserves,
     PhaseB1Preserves, SwapPreserves,
     LockTimeoutPreserves, FinalizePreserves, FinalizeCommitPreserves, ReadBackPreserves,
     ActivateImportedPreserves, ReportSkipPreserves, CleanupPreserves, RecordPreserves,
     RecordCommitPreserves, FaultPreserves DEF ImportStep
-----------------------------------------------------------------------------
(* The operator commands                                                   *)

\* A command that has not started has the type of one.
LEMMA NewInvocationType == NewInvocation \in Invocation
BY DEF NewInvocation, Invocation

\* What ending a command leaves of its local state.
LEMMA EndedCommand ==
    ASSUME Inv, NEW o \in Operators, NEW l \in OperatorEnded, EndOperation(o, l)
    PROVE  /\ ops' \in [Operators -> Invocation]
           /\ \A q \in Operators \ {o} : ops'[q] = ops[q]
           /\ ops'[o].pc = l
           /\ ops[o].dropped => ops'[o].dropped /\ ops'[o].rid = ops[o].rid
<1>1. ops[o] \in Invocation
  BY DEF Inv, TypeOK, MaintenanceTypeOK
<1>2. ops'[o] = [NewInvocation EXCEPT
                   !.pc = l, !.dropped = ops[o].dropped,
                   !.rid = IF ops[o].dropped THEN ops[o].rid ELSE None]
  BY DEF EndOperation, Inv, TypeOK, MaintenanceTypeOK
<1>3. ops'[o] \in Invocation
  BY <1>1, <1>2, NewInvocationType DEF Invocation
<1>4. ops'[o].pc = l /\ ops'[o].dropped = ops[o].dropped
      /\ (ops[o].dropped => ops'[o].rid = ops[o].rid)
  BY <1>1, <1>2 DEF NewInvocation, Invocation
<1> QED
  BY <1>3, <1>4 DEF EndOperation, Inv, TypeOK, MaintenanceTypeOK

\* A command that ends without writing keeps the invariant.
LEMMA EndPreserves ==
    ASSUME Inv, NEW o \in Operators, NEW l \in OperatorEnded, EndOperation(o, l),
           UNCHANGED <<registryVars, imp>>
    PROVE  Inv'
<1>1. ops'[o].pc \in OperatorEnded
  BY EndedCommand
<1>2. CommandOK(o)'
  BY <1>1 DEF CommandOK, Busy, Asked, OperatorEnded
<1> QED
  BY <1>2, EndedCommand, QuietCommand

\* The arguments of a command are in place when it begins.
LEMMA BeginOperationPreserves ==
    ASSUME Inv, NEW o \in Operators, BeginOperation(o), UNCHANGED imp
    PROVE  Inv'
<1>1. ops[o] \in Invocation /\ ops[o].pc = "idle" /\ CommandOK(o)
  BY DEF BeginOperation, Inv, TypeOK, MaintenanceTypeOK
<1>2. PICK q \in OperatorRequests : ops' = [ops EXCEPT ![o].pc = "start", ![o].req = q]
  BY DEF BeginOperation
<1>3. q \in Command /\ q # None
  BY MaintenanceAssumption
<1>4. ops'[o] = [ops[o] EXCEPT !.pc = "start", !.req = q]
  BY <1>2 DEF Inv, TypeOK, MaintenanceTypeOK
<1>5. ops'[o] \in Invocation
  BY <1>1, <1>3, <1>4 DEF Invocation
<1>6. /\ ops'[o].pc = "start" /\ ops'[o].req = q /\ ops'[o].dropped = ops[o].dropped
      /\ ops'[o].rid = ops[o].rid
  BY <1>1, <1>4 DEF Invocation
<1>7. ops' \in [Operators -> Invocation] /\ \A r \in Operators \ {o} : ops'[r] = ops[r]
  BY <1>2, <1>5 DEF Inv, TypeOK, MaintenanceTypeOK
<1>8. CommandOK(o)'
  BY <1>1, <1>3, <1>6 DEF CommandOK, Busy, Asked, OperatorEnded
<1> QED
  BY <1>6, <1>7, <1>8, QuietCommand DEF BeginOperation

\* A command moves on from start with the release it found.
LEMMA StartedCommand ==
    ASSUME Inv, NEW o \in Operators, ops[o].pc = "start",
           UNCHANGED <<registryVars, imp>>,
           NEW l \in {"commit", "check", "drop"}, NEW i \in Ids,
           NEW a \in Invocation, ops' = [ops EXCEPT ![o] = a],
           a.pc = l, a.rid = i, a.req = ops[o].req, a.dropped = ops[o].dropped,
           l = "commit" =>
              /\ a.req.kind \in {"activate", "deactivate"}
              /\ Usable(i)
              /\ a.req.kind = "activate" /\ a.current # None => Usable(a.current)
    PROVE  Inv'
<1>1. CommandOK(o)
  BY DEF Inv
<1>2. ops'[o] = a /\ ops' \in [Operators -> Invocation]
  BY DEF Inv, TypeOK, MaintenanceTypeOK
<1>3. ~ops[o].dropped /\ ops[o].req # None
  BY <1>1 DEF CommandOK, OperatorEnded, Busy
<1>4. \A j \in Ids : Usable(j) => Usable(j)'
  BY DEF Usable, Issued, Exists, registryVars
<1>5. (l = "commit" /\ a.req.kind = "activate" /\ a.current # None) => Usable(a.current)'
  BY <1>4 DEF Usable
<1>6. CommandOK(o)'
  BY <1>2, <1>3, <1>4, <1>5 DEF CommandOK, Busy, Asked, OperatorEnded
<1> QED
  BY <1>2, <1>3, <1>6, QuietCommand

\* The first session of every command, which only reads.
LEMMA StartPreserves ==
    ASSUME Inv, NEW o \in Operators, UNCHANGED imp,
           \/ Activate(o) \/ Deactivate(o) \/ Remove(o) \/ Validate(o)
           \/ ActivateNothing(o) \/ UnknownRelease(o) \/ Interrupt(o)
    PROVE  Inv'
<1>1. ops[o] \in Invocation /\ UNCHANGED registryVars
  BY DEF Inv, TypeOK, MaintenanceTypeOK, Activate, Deactivate, Remove, Validate,
         ActivateNothing, UnknownRelease, Interrupt
<1>2. CASE \E l \in OperatorEnded : EndOperation(o, l)
  BY <1>1, <1>2, EndPreserves
<1>3. CASE Activate(o)
  <2>1. PICK i \in Ids, c \in IF ActiveIds(FamilyOf[ops[o].req.name]) = {} THEN {None}
                              ELSE ActiveIds(FamilyOf[ops[o].req.name]) :
           /\ Exists(i) /\ Promotable(rows[i])
           /\ ops' = [ops EXCEPT ![o].pc = "commit", ![o].rid = i, ![o].current = c]
    BY <1>3 DEF Activate, Named, IdsNamed
  <2>2. Usable(i) /\ c \in Ids \cup {None} /\ (c # None => Usable(c))
    BY <2>1, LoadedUsable, ActiveUsable DEF Promotable, Activatable, Built
  <2>3. ops[o].pc = "start" /\ ops[o].req.kind = "activate"
    BY <1>3 DEF Activate, Asked
  <2> DEFINE a == [ops[o] EXCEPT !.pc = "commit", !.rid = i, !.current = c]
  <2>4. a \in Invocation
    BY <1>1, <2>2 DEF Invocation
  <2>5. /\ a.pc = "commit" /\ a.rid = i /\ a.req = ops[o].req /\ a.dropped = ops[o].dropped
        /\ a.current = c
    BY <1>1 DEF Invocation
  <2>6. ops' = [ops EXCEPT ![o] = a]
    BY <2>1
  <2> HIDE DEF a
  <2>7. /\ a.req.kind \in {"activate", "deactivate"}
        /\ a.req.kind = "activate" /\ a.current # None => Usable(a.current)
    BY <2>2, <2>3, <2>5
  <2> QED
    BY <1>1, <2>2, <2>3, <2>4, <2>5, <2>6, <2>7, StartedCommand
<1>4. ASSUME Deactivate(o) \/ Validate(o), ops[o].pc = "start",
             NEW l \in {"commit", "check"}, NEW i \in Ids,
             l = "commit" => ops[o].req.kind = "deactivate" /\ Usable(i),
             ops' = [ops EXCEPT ![o].pc = l, ![o].rid = i]
      PROVE  Inv'
  <2> DEFINE a == [ops[o] EXCEPT !.pc = l, !.rid = i]
  <2>1. a \in Invocation
    BY <1>1 DEF Invocation
  <2>2. a.pc = l /\ a.rid = i /\ a.req = ops[o].req /\ a.dropped = ops[o].dropped
    BY <1>1 DEF Invocation
  <2>3. ops' = [ops EXCEPT ![o] = a]
    BY <1>4
  <2> HIDE DEF a
  <2>4. /\ l = "commit" => a.req.kind = "deactivate" /\ Usable(i)
        /\ l \in {"commit", "check", "drop"} /\ ops[o].pc = "start"
    BY <1>4, <2>2
  <2> QED
    BY <1>1, <2>1, <2>2, <2>3, <2>4, StartedCommand
<1>5. CASE Deactivate(o)
  <2>1. PICK i \in Ids : /\ Exists(i)
                         /\ \/ EndOperation(o, "done")
                            \/ /\ rows[i].state = "active"
                               /\ ops' = [ops EXCEPT ![o].pc = "commit", ![o].rid = i]
    BY <1>5 DEF Deactivate, Named, IdsNamed
  <2>2. ops[o].pc = "start" /\ ops[o].req.kind = "deactivate"
    BY <1>5 DEF Deactivate, Asked
  <2> QED
    BY <1>2, <1>4, <1>5, <2>1, <2>2, LoadedUsable DEF Built, OperatorEnded
<1>6. CASE Validate(o)
  <2>1. PICK i \in Ids : \/ EndOperation(o, "failed")
                         \/ ops' = [ops EXCEPT ![o].pc = "check", ![o].rid = i]
    BY <1>6 DEF Validate, Named, IdsNamed
  <2>2. ops[o].pc = "start"
    BY <1>6 DEF Validate, Asked
  <2> QED
    BY <1>2, <1>4, <1>6, <2>1, <2>2 DEF OperatorEnded
<1>7. CASE Remove(o)
  <2>1. PICK i \in Ids :
           /\ Exists(i)
           /\ \/ EndOperation(o, "failed")
              \/ ops' = [ops EXCEPT ![o].pc = "drop", ![o].rid = i, ![o].prod = rows[i].table]
    BY <1>7 DEF Remove, Named, IdsNamed
  <2>2. rows[i].table \in BOOLEAN /\ ops[o].pc = "start"
    BY <1>7, <2>1 DEF Remove, Asked, Exists, Inv, TypeOK, RegistryTypeOK, Row
  <2>3. CASE ops' = [ops EXCEPT ![o].pc = "drop", ![o].rid = i, ![o].prod = rows[i].table]
    <3> DEFINE a == [ops[o] EXCEPT !.pc = "drop", !.rid = i, !.prod = rows[i].table]
    <3>1. a \in Invocation
      BY <1>1, <2>2 DEF Invocation
    <3>2. a.pc = "drop" /\ a.rid = i /\ a.req = ops[o].req /\ a.dropped = ops[o].dropped
      BY <1>1 DEF Invocation
    <3>3. ops' = [ops EXCEPT ![o] = a]
      BY <2>3
    <3> HIDE DEF a
    <3> QED
      BY <1>1, <2>2, <3>1, <3>2, <3>3, StartedCommand
  <2> QED
    BY <1>2, <2>1, <2>3 DEF OperatorEnded
<1> QED
  BY <1>2, <1>3, <1>5, <1>6, <1>7 DEF ActivateNothing, UnknownRelease, Interrupt, OperatorEnded

\* The last step of a command that writes rows: it ends, whatever it wrote.
LEMMA CommandEndFrame ==
    ASSUME Inv, NEW o \in Operators, NEW l \in OperatorEnded, EndOperation(o, l),
           UNCHANGED <<families, incoming, held, imp>>,
           runs' \in [Importers -> Run \cup {None}],
           partition' = partition,
           staging' \in [Names -> Sources \cup {None}],
           rejects' \in [Names -> Sources \cup {None}],
           rows' \in [Ids -> Row \cup {None}],
           OneActivePerFamily', \A q \in Importers : RunKept(q),
           \A i \in Ids : rows'[i] # None =>
              /\ Exists(i) /\ (rows[i].table => rows'[i].table)
              /\ rows'[i].state \in Built => rows'[i].table
              /\ rows'[i].table => Kept(i)
    PROVE  Inv'
<1>1. /\ ops' \in [Operators -> Invocation] /\ ops'[o].pc = l
      /\ \A q \in Operators \ {o} : ops'[q] = ops[q]
      /\ ops[o].dropped => ops'[o].dropped /\ ops'[o].rid = ops[o].rid
  BY EndedCommand
<1>2. TypeOK'
  BY <1>1 DEF Inv, TypeOK, RegistryTypeOK, ImportTypeOK, MaintenanceTypeOK
<1>3. \A i \in Ids : (Issued(i) => Issued(i)') /\ (Kept(i) => Kept(i)')
  BY <1>1 DEF Issued, Kept, RemovalUnderWay
<1>4. RowsOK' /\ Steady
  BY <1>3, RowUpdate
<1>5. CommandOK(o)'
  BY <1>1 DEF CommandOK, Busy, Asked, OperatorEnded
<1> QED
  BY <1>1, <1>2, <1>4, <1>5, CommandFrame

\* The facts RowFrame asks of a step hold of the rows it leaves alone.
LEMMA RowsAsTheyAre ==
    ASSUME Inv, UNCHANGED <<rows, runs>>
    PROVE  /\ rows' \in [Ids -> Row \cup {None}] /\ runs' \in [Importers -> Run \cup {None}]
           /\ OneActivePerFamily' /\ \A q \in Importers : RunKept(q)
           /\ \A i \in Ids : rows'[i] # None =>
                 /\ Exists(i) /\ (rows[i].table => rows'[i].table)
                 /\ rows'[i].state \in Built => rows'[i].table
                 /\ rows'[i].table => Kept(i)
BY DEF Inv, TypeOK, RegistryTypeOK, OneActivePerFamily, UniqueActive, RunKept, RowsOK, Exists

\* activate_release() and its commit, admitted or refused by the index.
LEMMA ActivateCommitPreserves ==
    ASSUME Inv, NEW o \in Operators, ActivateCommit(o), UNCHANGED imp
    PROVE  Inv'
<1> DEFINE i == ops[o].rid
           c == ops[o].current
<1>1. Usable(i) /\ i \in Ids /\ c \in Ids \cup {None} /\ (c # None => Usable(c))
  BY DEF ActivateCommit, Usable, Inv, CommandOK, TypeOK, MaintenanceTypeOK, Invocation
<1>2. CASE rows' = rows /\ EndOperation(o, "failed")
  BY <1>2, EndPreserves DEF ActivateCommit, registryVars, OperatorEnded
<1>3. CASE ActivationCommits(i, c) /\ rows' = WithActive(i, c) /\ EndOperation(o, "done")
  <2>1. /\ ops' \in [Operators -> Invocation] /\ ops'[o].pc = "done"
        /\ \A q \in Operators \ {o} : ops'[q] = ops[q]
        /\ ops[o].dropped => ops'[o].dropped /\ ops'[o].rid = ops[o].rid
    BY <1>3, EndedCommand DEF OperatorEnded
  <2>2. \A j \in Ids : (Issued(j) => Issued(j)') /\ (Kept(j) => Kept(j)')
    BY <2>1 DEF ActivateCommit, Issued, Kept, RemovalUnderWay
  <2>3. /\ rows' \in [Ids -> Row \cup {None}]
        /\ OneActivePerFamily' /\ RowsOK' /\ Steady
    BY <1>1, <1>3, <2>2, ActivationRows
  <2>4. TypeOK'
    BY <2>1, <2>3 DEF ActivateCommit, Inv, TypeOK, RegistryTypeOK, ImportTypeOK,
                      MaintenanceTypeOK
  <2>5. CommandOK(o)'
    BY <2>1 DEF CommandOK, Busy, Asked, OperatorEnded
  <2> QED
    BY <2>1, <2>3, <2>4, <2>5, CommandFrame DEF ActivateCommit, RunKept
<1> QED
  BY <1>2, <1>3 DEF ActivateCommit

\* deactivate and validate write one column of a row that keeps its table.
LEMMA RewritingPreserves ==
    ASSUME Inv, NEW o \in Operators, DeactivateCommit(o) \/ ValidateCommit(o), UNCHANGED imp
    PROVE  Inv'
<1> DEFINE i == ops[o].rid
<1>1. i \in Ids
  BY DEF DeactivateCommit, ValidateCommit, Inv, CommandOK, Usable
<1>2. CASE rows' = rows /\ EndOperation(o, "failed")
  BY <1>2, EndPreserves DEF DeactivateCommit, ValidateCommit, registryVars, OperatorEnded
<1>3. ASSUME NEW row \in Row, Exists(i), rows' = [rows EXCEPT ![i] = row],
             row.name = rows[i].name, row.table = rows[i].table,
             row.state \in Built => row.table,
             row.state \in {rows[i].state, "superseded"}, EndOperation(o, "done")
      PROVE  Inv'
  <2>1. /\ rows' \in [Ids -> Row \cup {None}]
        /\ \A j \in Ids : rows'[j] # None =>
              /\ Exists(j) /\ rows'[j].name = rows[j].name /\ rows'[j].table = rows[j].table
              /\ rows'[j].state \in {rows[j].state, "superseded"}
              /\ rows'[j].state \in Built => rows'[j].table
    BY <1>1, <1>3 DEF Exists, Inv, TypeOK, RegistryTypeOK, RowsOK
  <2>2. OneActivePerFamily'
    BY <2>1 DEF Inv, OneActivePerFamily, UniqueActive, Exists
  <2>3. \A j \in Ids : rows'[j] # None =>
              /\ Exists(j) /\ (rows[j].table => rows'[j].table)
              /\ rows'[j].state \in Built => rows'[j].table
              /\ rows'[j].table => Kept(j)
    BY <2>1 DEF Inv, RowsOK
  <2>4. UNCHANGED <<families, runs, partition, incoming, staging, rejects, held>>
    BY DEF DeactivateCommit, ValidateCommit
  <2>5. \A q \in Importers : RunKept(q)
    BY <2>4 DEF RunKept
  <2>6. /\ runs' \in [Importers -> Run \cup {None}]
        /\ staging' \in [Names -> Sources \cup {None}]
        /\ rejects' \in [Names -> Sources \cup {None}]
    BY <2>4 DEF Inv, TypeOK, RegistryTypeOK
  <2> QED
    BY <1>3, <2>1, <2>2, <2>3, <2>4, <2>5, <2>6, CommandEndFrame DEF OperatorEnded
<1>4. CASE Exists(i) /\ EndOperation(o, "done") /\ DeactivateCommit(o)
  <2> DEFINE row == [rows[i] EXCEPT !.state = "superseded"]
  <2>1. rows[i] \in Row /\ rows[i].table
    BY <1>1, <1>4 DEF DeactivateCommit, Usable, Exists, Inv, CommandOK, TypeOK, RegistryTypeOK
  <2>2. row \in Row /\ row.name = rows[i].name /\ row.table = rows[i].table
        /\ row.state = "superseded"
    BY <2>1 DEF Row, States
  <2>3. rows' = [rows EXCEPT ![i] = row]
    BY <1>4 DEF DeactivateCommit
  <2> HIDE DEF row
  <2> QED
    BY <1>3, <1>4, <2>1, <2>2, <2>3
<1>5. CASE Exists(i) /\ EndOperation(o, "done") /\ ValidateCommit(o)
  <2> DEFINE row == [rows[i] EXCEPT !.validation = ops[o].status]
  <2>1. rows[i] \in Row /\ (rows[i].state \in Built => rows[i].table)
        /\ ops[o].status \in Statuses
    BY <1>1, <1>5 DEF ValidateCommit, Exists, Inv, CommandOK, TypeOK, RegistryTypeOK, RowsOK,
                      MaintenanceTypeOK, Invocation
  <2>2. row \in Row /\ row.name = rows[i].name /\ row.table = rows[i].table
        /\ row.state = rows[i].state
    BY <2>1 DEF Row
  <2>3. rows' = [rows EXCEPT ![i] = row]
    BY <1>5 DEF ValidateCommit
  <2> HIDE DEF row
  <2> QED
    BY <1>3, <1>5, <2>1, <2>2, <2>3
<1> QED
  BY <1>2, <1>4, <1>5 DEF DeactivateCommit, ValidateCommit

\* remove-release waits for the lock of the parent with its release in view,
\* and finds the table it waited for gone.
LEMMA QueueingPreserves ==
    ASSUME Inv, NEW o \in Operators, AwaitLock(o) \/ DetachFails(o), UNCHANGED imp
    PROVE  Inv'
<1>1. ops[o] \in Invocation /\ CommandOK(o) /\ UNCHANGED registryVars
  BY DEF AwaitLock, DetachFails, Inv, TypeOK, MaintenanceTypeOK
<1>2. CASE DetachFails(o)
  BY <1>1, <1>2, EndPreserves DEF DetachFails, OperatorEnded
<1>3. CASE AwaitLock(o)
  <2> DEFINE a == [ops[o] EXCEPT !.pc = "wait"]
  <2>1. ops[o].pc = "drop" /\ ~ops[o].dropped /\ ops[o].rid \in Ids /\ ops[o].req # None
    BY <1>1, <1>3 DEF AwaitLock, Asked, CommandOK, OperatorEnded, Busy
  <2>2. a \in Invocation
    BY <1>1 DEF Invocation
  <2>3. a.pc = "wait" /\ a.rid = ops[o].rid /\ a.req = ops[o].req /\ a.dropped = ops[o].dropped
    BY <1>1 DEF Invocation
  <2>4. ops' = [ops EXCEPT ![o] = a]
    BY <1>3 DEF AwaitLock
  <2> HIDE DEF a
  <2>5. /\ ops'[o] = a /\ ops' \in [Operators -> Invocation]
        /\ \A q \in Operators \ {o} : ops'[q] = ops[q]
    BY <2>2, <2>4 DEF Inv, TypeOK, MaintenanceTypeOK
  <2>6. CommandOK(o)'
    BY <1>1, <2>1, <2>3, <2>5 DEF CommandOK, Busy, Asked, OperatorEnded
  <2> QED
    BY <1>1, <2>1, <2>5, <2>6, QuietCommand
<1> QED
  BY <1>2, <1>3

\* remove-release drops a partition and remains accountable for the hole.
LEMMA RemovePartitionPreserves ==
    ASSUME Inv, NEW o \in Operators, RemovePartition(o), UNCHANGED imp
    PROVE  Inv'
<1> DEFINE i == ops[o].rid
           a == [ops[o] EXCEPT !.pc = "delete", !.dropped = ops[o].prod]
<1>1. /\ ops[o] \in Invocation /\ ops[o].pc \in {"drop", "wait"} /\ CommandOK(o) /\ i \in Ids
      /\ ~ops[o].dropped
  BY DEF RemovePartition, Asked, Inv, TypeOK, MaintenanceTypeOK, CommandOK, OperatorEnded
<1>2. a \in Invocation
  BY <1>1 DEF Invocation
<1>3. a.pc = "delete" /\ a.rid = i /\ a.req = ops[o].req /\ a.dropped = ops[o].prod
  BY <1>1 DEF Invocation
<1>4. ops' = [ops EXCEPT ![o] = a]
  BY DEF RemovePartition
<1> HIDE DEF a
<1>5. /\ ops'[o] = a /\ ops' \in [Operators -> Invocation]
      /\ \A q \in Operators \ {o} : ops'[q] = ops[q]
  BY <1>2, <1>4 DEF Inv, TypeOK, MaintenanceTypeOK
<1>6. partition' \in [Ids -> Sources \cup {None}]
  BY DEF RemovePartition, Inv, TypeOK, RegistryTypeOK
<1>7. TypeOK'
  BY <1>5, <1>6 DEF RemovePartition, Inv, TypeOK, RegistryTypeOK, ImportTypeOK,
                    MaintenanceTypeOK
<1>8. ASSUME NEW j \in Ids, Kept(j)
      PROVE  Kept(j)'
  <2>1. CASE RemovalUnderWay(j)
    BY <1>1, <1>5, <2>1 DEF RemovalUnderWay, Kept
  <2>2. CASE partition[j] # None /\ ~(ops[o].prod /\ j = i)
    BY <1>6, <2>2 DEF RemovePartition, Kept, Inv, TypeOK, RegistryTypeOK
  <2>3. CASE ops[o].prod /\ j = i
    BY <1>3, <1>5, <2>3 DEF RemovalUnderWay, Kept
  <2> QED
    BY <1>8, <2>1, <2>2, <2>3 DEF Kept
<1>9. \A j \in Ids : Issued(j) => Issued(j)'
  BY DEF Issued
<1>10. /\ \A j \in Ids : rows'[j] # None =>
             /\ Exists(j) /\ (rows[j].table => rows'[j].table)
             /\ rows'[j].state \in Built => rows'[j].table
             /\ rows'[j].table => Kept(j)
       /\ OneActivePerFamily' /\ \A q \in Importers : RunKept(q)
  BY RowsAsTheyAre DEF RemovePartition
<1>11. RowsOK' /\ Steady
  BY <1>8, <1>9, <1>10, RowUpdate
<1>12. CommandOK(o)'
  BY <1>1, <1>3, <1>5 DEF CommandOK, Busy, Asked, OperatorEnded
<1> QED
  BY <1>5, <1>7, <1>10, <1>11, <1>12, CommandFrame

\* remove-release deletes the row, and the runs of the release with it.
LEMMA RemoveRowPreserves ==
    ASSUME Inv, NEW o \in Operators, RemoveRow(o), UNCHANGED imp
    PROVE  Inv'
<1> DEFINE i == ops[o].rid
<1>1. i \in Ids
  BY DEF RemoveRow, Asked, Inv, CommandOK
<1>2. /\ rows' \in [Ids -> Row \cup {None}]
      /\ \A j \in Ids : rows'[j] = IF j = i THEN None ELSE rows[j]
  BY <1>1 DEF RemoveRow, Inv, TypeOK, RegistryTypeOK
<1>3. runs' \in [Importers -> Run \cup {None}]
  BY DEF RemoveRow, Inv, TypeOK, RegistryTypeOK
<1>4. \A q \in Importers : RunKept(q)
  BY <1>1, <1>2 DEF RemoveRow, RunKept, Exists
<1>5. \A j \in Ids : rows'[j] # None =>
          /\ Exists(j) /\ (rows[j].table => rows'[j].table)
          /\ rows'[j].state \in Built => rows'[j].table
          /\ rows'[j].table => Kept(j)
  BY <1>2 DEF Exists, Inv, RowsOK
<1>6. OneActivePerFamily'
  BY <1>2 DEF Inv, OneActivePerFamily, UniqueActive
<1>7. /\ staging' \in [Names -> Sources \cup {None}]
      /\ rejects' \in [Names -> Sources \cup {None}]
  BY DEF RemoveRow, Inv, TypeOK, RegistryTypeOK
<1> QED
  BY <1>2, <1>3, <1>4, <1>5, <1>6, <1>7, CommandEndFrame DEF RemoveRow, OperatorEnded

\* validate reads the partition, or fails for want of it.
LEMMA ValidatePartitionPreserves ==
    ASSUME Inv, NEW o \in Operators, ValidatePartition(o), UNCHANGED imp
    PROVE  Inv'
<1> DEFINE st == ProductionStatus[partition[ops[o].rid]]
           a == [ops[o] EXCEPT !.pc = "commit", !.status = st]
<1>1. /\ ops[o] \in Invocation /\ ops[o].pc = "check" /\ CommandOK(o) /\ ops[o].rid \in Ids
      /\ ~ops[o].dropped /\ ops[o].req # None /\ ops[o].req.kind = "validate"
  BY DEF ValidatePartition, Asked, Inv, TypeOK, MaintenanceTypeOK, CommandOK, OperatorEnded, Busy
<1>2. CASE EndOperation(o, "failed")
  BY <1>2, EndPreserves DEF ValidatePartition, OperatorEnded
<1>3. CASE partition[ops[o].rid] # None /\ ops' = [ops EXCEPT ![o].pc = "commit", ![o].status = st]
  <2>1. st \in Statuses /\ st # None
    BY <1>1, <1>3, RegistryAssumption DEF Inv, TypeOK, RegistryTypeOK, Statuses
  <2>2. a \in Invocation
    BY <1>1, <2>1 DEF Invocation
  <2>3. /\ a.pc = "commit" /\ a.rid = ops[o].rid /\ a.req = ops[o].req /\ a.status = st
        /\ a.dropped = ops[o].dropped
    BY <1>1 DEF Invocation
  <2>4. ops' = [ops EXCEPT ![o] = a]
    BY <1>3
  <2> HIDE DEF a
  <2>5. /\ ops'[o] = a /\ ops' \in [Operators -> Invocation]
        /\ \A q \in Operators \ {o} : ops'[q] = ops[q]
    BY <2>2, <2>4 DEF Inv, TypeOK, MaintenanceTypeOK
  <2>6. CommandOK(o)'
    BY <1>1, <2>1, <2>3, <2>5 DEF CommandOK, Busy, Asked, OperatorEnded
  <2> QED
    BY <1>1, <2>5, <2>6, QuietCommand DEF ValidatePartition
<1> QED
  BY <1>2, <1>3 DEF ValidatePartition

\* clean-staging drops tables that no built release is served from.
LEMMA CleanStagingPreserves ==
    ASSUME Inv, NEW o \in Operators, CleanStaging(o), UNCHANGED imp
    PROVE  Inv'
<1>1. /\ staging' \in [Names -> Sources \cup {None}]
      /\ rejects' \in [Names -> Sources \cup {None}]
  BY DEF CleanStaging
<1> QED
  BY <1>1, RowsAsTheyAre, CommandEndFrame DEF CleanStaging, OperatorEnded

\* Every step of an operator command, in whatever state other processes left
\* the database, keeps the invariant.
THEOREM OperatorPreserves ==
    ASSUME Inv, NEW o \in Operators, UNCHANGED imp,
           BeginOperation(o) \/ OperatorStep(o) \/ Interrupt(o)
    PROVE  Inv'
BY BeginOperationPreserves, StartPreserves, ActivateCommitPreserves, RewritingPreserves,
   QueueingPreserves, RemovePartitionPreserves, RemoveRowPreserves, ValidatePartitionPreserves,
   CleanStagingPreserves DEF OperatorStep
-----------------------------------------------------------------------------
(* The specification                                                       *)

\* A lock taken or released by a reader changes nothing the invariant names.
LEMMA LockPreserves ==
    ASSUME Inv, NEW f \in Families, Hold(f) \/ Unhold(f), UNCHANGED <<imp, ops>>
    PROVE  Inv'
<1>1. TypeOK'
  BY DEF Hold, Unhold, Inv, TypeOK, RegistryTypeOK, ImportTypeOK, MaintenanceTypeOK
<1>2. \A i \in Ids : /\ Issued(i) => Issued(i)'
                     /\ Kept(i) => Kept(i)'
  BY DEF Hold, Unhold, Issued, Kept, RemovalUnderWay
<1>3. rows' = rows /\ runs' = runs
  BY DEF Hold, Unhold
<1>4. RowsOK' /\ Steady
  BY <1>2, <1>3, RowsAsTheyAre, RowUpdate
<1>5. OneActivePerFamily' /\ \A q \in Importers : RunKept(q)
  BY <1>3, RowsAsTheyAre
<1>6. \A q \in Importers : AttemptOK(q)'
  BY <1>4, <1>5, AttemptStable DEF Inv
<1>7. \A o \in Operators : CommandOK(o)'
  BY <1>4, CommandStable DEF Inv
<1> QED
  BY <1>1, <1>4, <1>5, <1>6, <1>7 DEF Inv

\* The invariant depends on the variables of the specification alone.
LEMMA StutterPreserves ==
    ASSUME Inv, UNCHANGED vars
    PROVE  Inv'
<1>1. \A i \in Ids : /\ Issued(i) => Issued(i)'
                     /\ Kept(i) => Kept(i)'
  BY DEF vars, registryVars, Issued, Kept, RemovalUnderWay
<1>2. rows' = rows /\ runs' = runs /\ imp' = imp /\ ops' = ops
  BY DEF vars, registryVars
<1>3. RowsOK' /\ Steady
  BY <1>1, <1>2, RowsAsTheyAre, RowUpdate
<1>4. OneActivePerFamily' /\ \A q \in Importers : RunKept(q)
  BY <1>2, RowsAsTheyAre
<1>5. \A q \in Importers : AttemptOK(q)'
  BY <1>2, <1>3, <1>4, AttemptStable DEF Inv
<1>6. \A o \in Operators : CommandOK(o)'
  BY <1>2, <1>3, CommandStable DEF Inv
<1>7. TypeOK'
  BY DEF vars, registryVars, Inv, TypeOK, RegistryTypeOK, ImportTypeOK, MaintenanceTypeOK
<1> QED
  BY <1>3, <1>4, <1>5, <1>6, <1>7 DEF Inv

\* A registry of earlier, completed imports satisfies the invariant.
LEMMA InitInv == Init => Inv
<1> SUFFICES ASSUME Init PROVE Inv
  OBVIOUS
<1> USE DEF Init, RegistryInit, ImportInit, MaintenanceInit
<1>1. \A i \in SeedIds :
         /\ Seed[i].name \in Names /\ Seed[i].state \in Built /\ Seed[i].source \in Sources
         /\ i \in Ids /\ i \notin Importers
  BY SeedAssumption, RegistryAssumption DEF Ids
<1>2. rows \in [Ids -> Row \cup {None}]
  <2>1. ASSUME NEW i \in SeedIds
        PROVE  [name |-> Seed[i].name, state |-> Seed[i].state,
                checksum |-> Seed[i].source, table |-> TRUE,
                validation |-> Summarize(StagingStatus[Seed[i].source],
                                         ProductionStatus[Seed[i].source])] \in Row
    BY <1>1, RegistryAssumption, SummarizeType DEF Row, Built, States
  <2> QED
    BY <2>1
<1>3. RegistryTypeOK
  BY <1>1, <1>2, RegistryAssumption DEF RegistryTypeOK
<1>4. imp \in [Importers -> Attempt] /\ ops \in [Operators -> Invocation]
  BY NewAttemptType, NewInvocationType
<1>5. TypeOK
  BY <1>3, <1>4 DEF TypeOK, ImportTypeOK, MaintenanceTypeOK
<1>6. \A i \in Ids : rows[i] # None =>
         /\ i \in SeedIds /\ rows[i].name = Seed[i].name /\ rows[i].state = Seed[i].state
         /\ rows[i].table /\ partition[i] # None
  BY <1>1, RegistryAssumption
<1>7. OneActivePerFamily
  BY <1>6, SeedAssumption DEF OneActivePerFamily, UniqueActive
<1>8. RowsOK
  BY <1>1, <1>6 DEF RowsOK, Exists, Issued, Kept
<1>9. \A p \in Importers : AttemptOK(p)
  BY DEF AttemptOK, RunOpen, NewAttempt, Live, At, TryBlock, Recording, Opened, Unopened
<1>10. \A o \in Operators : CommandOK(o)
  BY DEF CommandOK, NewInvocation, Busy, Asked, OperatorEnded
<1> QED
  BY <1>5, <1>7, <1>8, <1>9, <1>10 DEF Inv

\* The invariant is inductive: every step of the system keeps it.
LEMMA NextInv == Inv /\ [Next]_vars => Inv'
<1> SUFFICES ASSUME Inv, [Next]_vars PROVE Inv'
  OBVIOUS
<1>1. CASE \E p \in Importers :
              \/ MayStart /\ BeginImport(p) /\ UNCHANGED ops
              \/ Importer(p)
              \/ ImportFault(p) /\ UNCHANGED ops
  BY <1>1, ImportPreserves DEF Importer
<1>2. CASE \E o \in Operators :
              \/ MayStart /\ BeginOperation(o) /\ UNCHANGED imp
              \/ Operator(o)
              \/ Interrupt(o) /\ UNCHANGED imp
  BY <1>2, OperatorPreserves DEF Operator
<1>3. CASE \E f \in LockHolders : LockHolder(f) /\ UNCHANGED <<imp, ops>>
  BY <1>3, LockPreserves, LifecycleAssumption DEF LockHolder
<1>4. CASE UNCHANGED vars
  BY <1>4, StutterPreserves
<1> QED
  BY <1>1, <1>2, <1>3, <1>4 DEF Next, Rest

\* The invariant holds of every state, whatever the constants are.
THEOREM Invariance == Spec => []Inv
<1>1. Init => Inv
  BY InitInv
<1>2. Inv /\ [Next]_vars => Inv'
  BY NextInv
<1> QED
  BY <1>1, <1>2, PTL DEF Spec

\* Every variable keeps its type, whatever is interleaved, fails or is killed.
THEOREM TypeCorrect == Spec => []TypeOK
<1>1. Inv => TypeOK
  BY DEF Inv
<1> QED
  BY <1>1, Invariance, PTL

\* However activations and forced replaces race, a family has one ACTIVE
\* release at most.
THEOREM AtMostOneActive == Spec => []OneActivePerFamily
<1>1. Inv => OneActivePerFamily
  BY DEF Inv
<1> QED
  BY <1>1, Invariance, PTL

\* No race makes a release READY, ACTIVE or SUPERSEDED that has no table.
THEOREM BuiltReleasesHaveTables == Spec => []BuiltHasTable
<1>1. Inv => BuiltHasTable
  BY DEF Inv, RowsOK, BuiltHasTable
<1> QED
  BY <1>1, Invariance, PTL

\* A built release has rows to serve in every state, except those in which a
\* removal has dropped them: the swap never leaves a hole.
THEOREM BuiltReleasesAreServed == Spec => []BuiltIsServed
<1>1. Inv => BuiltIsServed
  BY DEF Inv, RowsOK, Kept, BuiltIsServed
<1> QED
  BY <1>1, Invariance, PTL

\* A run is left running only by an attempt that was killed or that could not
\* record its failure.
THEOREM RunningRunsAreLive == Spec => []RunningMeansLive
<1>1. Inv => RunningMeansLive
  BY DEF Inv, AttemptOK, RunOpen, RunningMeansLive, Live, At, TryBlock
<1> QED
  BY <1>1, Invariance, PTL
=============================================================================
