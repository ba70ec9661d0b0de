--------------------------- MODULE ServingProofs ---------------------------
(***************************************************************************)
(* The safety of the readers, for any number of threads next to any number *)
(* of attempts and commands.  A step of the lifecycle is seen by a reader  *)
(* only through NamesKept: an id that was issued never becomes a release   *)
(* of another name.  Every other step is a step of one thread, or of the   *)
(* cache or the engine they share.                                         *)
(***************************************************************************)
EXTENDS ServingInvariant, LifecycleProofs

-----------------------------------------------------------------------------
(* What the lifecycle does to an id a reader holds                         *)

\* Where an attempt has not inserted a row of its own yet.
Early == {"idle", "sync", "open", "openRun"}

\* What an attempt becomes when it raises, ends or loses its recorder is past
\* the insertion of its row.
LEMMA EndIsNotEarly ==
    ASSUME Inv, NEW p \in Importers,
           Raise(p) \/ Unrecorded(p) \/ (\E l \in ImportEnded : Finish(p, l))
    PROVE  /\ \A q \in Importers \ {p} : imp'[q] = imp[q]
           /\ imp'[p].pc \notin Early
<1>1. imp \in [Importers -> Attempt]
  BY DEF Inv, TypeOK, ImportTypeOK
<1>2. CASE Raise(p)
  BY <1>1, <1>2 DEF Raise, NewAttempt, Early
<1>3. CASE Unrecorded(p)
  BY <1>1, <1>3 DEF Unrecorded, NewAttempt, Early
<1>4. CASE \E l \in ImportEnded : Finish(p, l)
  BY <1>1, <1>4 DEF Finish, NewAttempt, Early, ImportEnded
<1> QED
  BY <1>2, <1>3, <1>4

\* A step of attempt p leaves the others where they are, and does not lead p
\* back before the insertion of its row (get_or_create_release).
LEMMA AttemptMoves ==
    ASSUME Inv, NEW p \in Importers, BeginImport(p) \/ ImportStep(p) \/ ImportFault(p)
    PROVE  /\ \A q \in Importers \ {p} : imp'[q] = imp[q]
           /\ imp[p].pc \notin Early => imp'[p].pc \notin Early
<1>1. imp \in [Importers -> Attempt]
  BY DEF Inv, TypeOK, ImportTypeOK
<1>2. CASE Raise(p) \/ Unrecorded(p) \/ (\E l \in ImportEnded : Finish(p, l))
  BY <1>2, EndIsNotEarly
<1>3. CASE BeginImport(p) \/ SyncFamily(p) \/ OpenNewRelease(p) \/ OpenRelease(p)
  BY <1>1, <1>3 DEF BeginImport, SyncFamily, OpenNewRelease, OpenRelease, Goto, At, Early
<1>4. CASE SkipUnchanged(p)
  <2>1. imp[p].pc \in Early
    BY <1>4 DEF SkipUnchanged, At, Early
  <2>2. CASE \E i, c : imp' = [imp EXCEPT ![p].pc = "skipActivate", ![p].target = i,
                                          ![p].current = c]
    BY <1>1, <2>1, <2>2
  <2> QED
    BY <1>2, <1>4, <2>1, <2>2 DEF SkipUnchanged, ImportEnded
<1>5. CASE OpenRun(p) \/ ReadRunId(p) \/ PhaseA(p) \/ PhaseB1(p)
  <2>1. CASE OpenRun(p) \/ (PhaseA(p) /\ Goto(p, "build"))
    BY <1>1, <2>1 DEF OpenRun, Goto, Early, Attempt
  <2>2. CASE PhaseA(p) /\ Raise(p)
    BY <1>2, <2>2
  <2>3. CASE PhaseB1(p)
    BY <1>1, <2>3 DEF PhaseB1, Early, Attempt
  <2>4. CASE ReadRunId(p) /\ ~Raise(p)
    <3>1. imp' = [imp EXCEPT ![p].pc = "stage", ![p].runId = TRUE]
      BY <2>4 DEF ReadRunId
    <3> QED
      BY <1>1, <3>1 DEF Early, Attempt
  <2> QED
    BY <1>2, <1>5, <2>1, <2>2, <2>3, <2>4 DEF PhaseA
<1>6. CASE Swap(p) \/ LockTimeout(p) \/ Finalize(p)
  <2>1. CASE Swap(p)
    BY <1>1, <2>1 DEF Swap, Early, Attempt
  <2>2. CASE LockTimeout(p) /\ ~Raise(p)
    BY <1>1, <2>2 DEF LockTimeout, At, Early, Attempt
  <2>3. CASE Finalize(p) /\ ~Raise(p)
    BY <1>1, <2>3 DEF Finalize, Early, Attempt
  <2> QED
    BY <1>2, <1>6, <2>1, <2>2, <2>3
<1>7. CASE FinalizeCommit(p) \/ ReadBack(p) \/ ActivateImported(p)
  <2>1. CASE FinalizeCommit(p)
    BY <1>1, <2>1 DEF FinalizeCommit, Early, Attempt
  <2>2. CASE ReadBack(p) /\ ~Raise(p)
    BY <1>1, <2>2 DEF ReadBack, Goto, Early, Attempt
  <2>3. CASE ActivateImported(p)
    <3>1. PICK l \in {"skipReport", "cleanup"} :
             imp' = [imp EXCEPT ![p].pc = l, ![p].current = None]
      BY <2>3 DEF ActivateImported
    <3> QED
      BY <1>1, <3>1 DEF Early, Attempt
  <2> QED
    BY <1>2, <1>7, <2>1, <2>2, <2>3 DEF ImportEnded
<1>8. CASE Record(p)
  BY <1>1, <1>8 DEF Record, Early
<1>9. CASE \/ RefuseActive(p) \/ OpenRunFails(p) \/ PhaseB1Fails(p) \/ SwapFails(p)
           \/ FinalizeCommitFails(p) \/ ActivateImportedFails(p) \/ ReportSkip(p) \/ Cleanup(p)
           \/ RecordCommit(p) \/ RecordCommitFails(p) \/ ImportFault(p)
  BY <1>2, <1>9 DEF RefuseActive, OpenRunFails, PhaseB1Fails, SwapFails,
       FinalizeCommitFails, ActivateImportedFails, ReportSkip, Cleanup, RecordCommit,
       RecordCommitFails, ImportFault, DatabaseError, RecorderError, Crash, ImportEnded
<1> QED
  BY <1>3, <1>4, <1>5, <1>6, <1>7, <1>8, <1>9 DEF ImportStep

\* No row changes its name, and the only row inserted is that of the attempt
\* that opens its run.
SameNames(new) ==
    \A i \in Ids : rows'[i] # None /\ i \notin new
                      => rows[i] # None /\ rows'[i].name = rows[i].name

\* The two updates of an activation leave every name as it was.
LEMMA ActivationNames ==
    ASSUME Inv, NEW i \in Ids, NEW c, ActivationCommits(i, c), rows' = WithActive(i, c)
    PROVE  SameNames({})
<1>1. rows \in [Ids -> Row \cup {None}]
  BY DEF Inv, TypeOK, RegistryTypeOK
<1>2. rows[i] # None /\ (c # None => rows[c] # None)
  BY DEF ActivationCommits, Exists
<1>3. ASSUME NEW j \in Ids, NEW s
      PROVE  rows[j] # None => [rows[j] EXCEPT !.state = s].name = rows[j].name
  BY <1>1 DEF Row
<1>4. ASSUME NEW j \in Ids, rows'[j] # None
      PROVE  rows[j] # None /\ rows'[j].name = rows[j].name
  <2>1. CASE j = i
    BY <1>2, <1>3, <2>1 DEF WithActive
  <2>2. CASE j # i /\ j = c
    <3>1. rows[j] # None
      BY <1>2, <2>2, RegistryAssumption
    <3> QED
      BY <1>3, <2>2, <3>1 DEF WithActive
  <2>3. CASE j # i /\ j # c
    BY <1>4, <2>3 DEF WithActive
  <2> QED
    BY <2>1, <2>2, <2>3
<1> QED
  BY <1>4 DEF SameNames

\* A flush and an assignment to a column leave the name of a row alone.
LEMMA UpdateNames ==
    ASSUME Inv, NEW i \in Ids, NEW r, r # None => rows[i] # None /\ r.name = rows[i].name,
           rows' = [rows EXCEPT ![i] = r]
    PROVE  SameNames({})
BY DEF SameNames, Inv, TypeOK, RegistryTypeOK

\* An attempt renames no row; it inserts its own when it opens its run.
LEMMA AttemptNames ==
    ASSUME Inv, NEW p \in Importers, BeginImport(p) \/ ImportStep(p) \/ ImportFault(p)
    PROVE  SameNames(IF At(p, "openRun") THEN {p} ELSE {})
<1>1. rows \in [Ids -> Row \cup {None}]
  BY DEF Inv, TypeOK, RegistryTypeOK
<1>2. CASE UNCHANGED rows
  BY <1>2 DEF SameNames
<1>3. CASE OpenRun(p)
  BY <1>1, <1>3 DEF OpenRun, SameNames, Ids
<1>4. CASE FinalizeCommit(p)
  <2> DEFINE i == imp[p].target
  <2>1. i \in Ids /\ rows[i] # None
    BY <1>4 DEF Inv, AttemptOK, RunOpen, FinalizeCommit, CannotFinalize, At, Opened, Exists
  <2>2. \A row, loaded, assigned : Flush(row, loaded, assigned).name = row.name
    BY DEF Flush
  <2>3. rows' = [rows EXCEPT ![i] = Finalized(p)[i]]
    BY <1>1, <1>4, <2>1 DEF FinalizeCommit, Finalized
  <2>4. Finalized(p)[i].name = rows[i].name
    BY <1>1, <2>1, <2>2 DEF Finalized
  <2> QED
    BY <2>1, <2>3, <2>4, UpdateNames, <1>1 DEF SameNames
<1>5. CASE ActivateImported(p)
  BY <1>5, ActivationNames DEF ActivateImported, Inv, AttemptOK, Usable, SameNames
<1>6. CASE RecordCommit(p)
  BY <1>1, <1>6 DEF RecordCommit, Flush, SameNames, Exists
<1> QED
  BY <1>2, <1>3, <1>4, <1>5, <1>6
    DEF BeginImport, ImportStep, ImportFault, SyncFamily, OpenNewRelease, SkipUnchanged,
        RefuseActive, OpenRelease, OpenRunFails, ReadRunId, PhaseA, PhaseB1, PhaseB1Fails, Swap,
        SwapFails, LockTimeout, Finalize, FinalizeCommitFails, ReadBack,
        ActivateImportedFails, ReportSkip, Cleanup, Record, RecordCommitFails, DatabaseError,
        RecorderError, Crash, registryVars

\* A command renames no row and inserts none.
LEMMA CommandNames ==
    ASSUME Inv, NEW o \in Operators, BeginOperation(o) \/ OperatorStep(o) \/ Interrupt(o)
    PROVE  SameNames({})
<1>1. rows \in [Ids -> Row \cup {None}]
  BY DEF Inv, TypeOK, RegistryTypeOK
<1>2. CASE UNCHANGED rows
  BY <1>2 DEF SameNames
<1>3. CASE ActivateCommit(o)
  BY <1>2, <1>3, ActivationNames DEF ActivateCommit, Inv, CommandOK, Usable
<1>4. CASE DeactivateCommit(o)
  BY <1>1, <1>2, <1>4 DEF DeactivateCommit, SameNames, Exists, Row
<1>5. CASE RemoveRow(o)
  BY <1>1, <1>5 DEF RemoveRow, SameNames
<1>6. CASE ValidateCommit(o)
  BY <1>1, <1>2, <1>6 DEF ValidateCommit, SameNames, Exists, Row
<1> QED
  BY <1>2, <1>3, <1>4, <1>5, <1>6
    DEF BeginOperation, OperatorStep, Interrupt, Activate, ActivateNothing, Deactivate,
        Remove, AwaitLock, RemovePartition, DetachFails, Validate, ValidatePartition, CleanStaging, UnknownRelease,
        registryVars

\* An id that was issued stays issued, and if its row is still there it has the
\* name it had: ids come from a sequence, and nothing renames a release.
LEMMA NamesKept ==
    ASSUME Inv, [Next]_vars, NEW i \in Ids, Issued(i)
    PROVE  Issued(i)' /\ (Exists(i)' => Exists(i) /\ rows'[i].name = rows[i].name)
<1>1. Issued(i) <=> (i \in Importers => imp[i].pc \notin Early)
  BY DEF Issued, Early
<1>2. Issued(i)' <=> (i \in Importers => imp'[i].pc \notin Early)
  BY DEF Issued, Early
<1>3. ASSUME NEW p \in Importers, BeginImport(p) \/ ImportStep(p) \/ ImportFault(p)
      PROVE  Issued(i)' /\ (Exists(i)' => Exists(i) /\ rows'[i].name = rows[i].name)
  <2>1. Issued(i)'
    BY <1>1, <1>2, <1>3, AttemptMoves
  <2>2. At(p, "openRun") => i # p
    BY <1>1 DEF At, Early
  <2> QED
    BY <1>3, <2>1, <2>2, AttemptNames DEF SameNames, Exists
<1>4. ASSUME NEW o \in Operators, BeginOperation(o) \/ OperatorStep(o) \/ Interrupt(o),
             UNCHANGED imp
      PROVE  Issued(i)' /\ (Exists(i)' => Exists(i) /\ rows'[i].name = rows[i].name)
  BY <1>1, <1>2, <1>4, CommandNames DEF SameNames, Exists
<1>5. ASSUME UNCHANGED <<rows, imp>>
      PROVE  Issued(i)' /\ (Exists(i)' => Exists(i) /\ rows'[i].name = rows[i].name)
  BY <1>1, <1>2, <1>5 DEF Exists
<1> QED
  BY <1>3, <1>4, <1>5 DEF Next, Importer, Operator, LockHolder, Hold, Unhold, Rest, vars, registryVars

-----------------------------------------------------------------------------
(* Steps of one thread                                                     *)

\* What a reader knows of the registry is about variables it does not write.
LEMMA RegistryAsItWas ==
    ASSUME UNCHANGED vars
    PROVE  /\ Inv <=> Inv'
           /\ \A f : ActiveIds(f)' = ActiveIds(f)
           /\ \A i, f : WasOf(i, f)' <=> WasOf(i, f)
<1>1. UNCHANGED registryVars /\ UNCHANGED imp /\ UNCHANGED ops
  BY DEF vars
<1>2. Inv <=> Inv'
  BY <1>1 DEF Inv, TypeOK, RegistryTypeOK, ImportTypeOK, MaintenanceTypeOK, OneActivePerFamily,
       UniqueActive, RowsOK, Exists, Issued, Kept, RemovalUnderWay, AttemptOK, CommandOK, Live, At,
       RunOpen, Usable, Asked, Busy, registryVars
<1>3. \A f : ActiveIds(f)' = ActiveIds(f)
  BY <1>1 DEF ActiveIds, Exists, FamilyOfId, registryVars
<1>4. \A i, f : WasOf(i, f)' <=> WasOf(i, f)
  BY <1>1 DEF WasOf, Issued, Exists, FamilyOfId, registryVars
<1> QED
  BY <1>2, <1>3, <1>4

\* A thread that is not the one that moves needs nothing new.
LEMMA OtherThread ==
    ASSUME NEW t \in Threads, ThreadOK(t), UNCHANGED vars, reads'[t] = reads[t],
           during'[t] = during[t], disposed \subseteq disposed'
    PROVE  ThreadOK(t)'
<1>1. /\ \A f : ActiveIds(f)' = ActiveIds(f)
      /\ \A i, f : WasOf(i, f)' <=> WasOf(i, f)
  BY RegistryAsItWas
<1>2. /\ InCall(t)' <=> InCall(t)
      /\ CallOf(t)' = CallOf(t)
      /\ \A l : In(t, l)' <=> In(t, l)
  BY DEF InCall, CallOf, In
<1>3. /\ ActiveIds(CallOf(t).family)' = ActiveIds(CallOf(t).family)
      /\ WasOf(reads[t].id, CallOf(t).family)' <=> WasOf(reads[t].id, CallOf(t).family)
  BY <1>1, <1>2
<1> QED
  BY <1>2, <1>3 DEF ThreadOK

\* A step of thread t keeps the invariant if it keeps the types, the engine and
\* the cache in order and leaves t itself with what it needs.
LEMMA ThreadFrame ==
    ASSUME ServingInv, NEW t \in Threads, UNCHANGED vars,
           \A u \in Threads \ {t} : reads'[u] = reads[u] /\ during'[u] = during[u],
           disposed' = disposed, ServingTypeOK', EnginesOK', CacheOK', ThreadOK(t)'
    PROVE  ServingInv'
<1>1. Inv'
  BY RegistryAsItWas DEF ServingInv
<1>2. \A u \in Threads : ThreadOK(u)'
  BY OtherThread DEF ServingInv
<1> QED
  BY <1>1, <1>2 DEF ServingInv

\* The same when t changes nothing but its own locals.
LEMMA QuietThread ==
    ASSUME ServingInv, NEW t \in Threads, UNCHANGED <<vars, during, sharedVars>>,
           NEW r \in Reading, reads' = [reads EXCEPT ![t] = r], ThreadOK(t)'
    PROVE  ServingInv'
<1>1. \A u \in Threads \ {t} : reads'[u] = reads[u] /\ during'[u] = during[u]
  BY DEF ServingInv, ServingTypeOK, ReaderTypeOK
<1>2. ServingTypeOK'
  BY DEF ServingInv, ServingTypeOK, ReaderTypeOK, sharedVars
<1>3. EnginesOK'
  BY DEF ServingInv, EnginesOK, OneEngine, sharedVars
<1>4. CacheOK' /\ disposed' = disposed
  BY RegistryAsItWas DEF ServingInv, CacheOK, sharedVars
<1> QED
  BY <1>1, <1>2, <1>3, <1>4, ThreadFrame

\* A thread outside a call has the type of one.
LEMMA NewReadingType == NewReading \in Reading
BY DEF NewReading, Reading

\* Where a thread may be.
Points == {"idle", "engine", "create", "return", "cache", "resolve", "store", "validate",
           "query", "done"}

\* Moving to another step keeps the type of the locals, and everything else.
LEMMA MoveType ==
    ASSUME NEW r \in Reading, NEW l \in Points
    PROVE  /\ [r EXCEPT !.pc = l] \in Reading
           /\ [r EXCEPT !.pc = l].pc = l
           /\ [r EXCEPT !.pc = l].call = r.call
           /\ [r EXCEPT !.pc = l].id = r.id
           /\ [r EXCEPT !.pc = l].out = r.out
           /\ [r EXCEPT !.pc = l].engines = r.engines
           /\ [r EXCEPT !.pc = l].past = r.past
BY DEF Reading, Points

\* The answer of a call: only a query that ran is held to the active release.
LEMMA AnswerPreserves ==
    ASSUME ServingInv, NEW t \in Threads, InCall(t), UNCHANGED <<vars, during, sharedVars>>,
           NEW out \in Sources \cup {"empty", "refused", "unbound"}, Answer(t, out),
           out \in {"refused", "unbound"} \/ In(t, "query")
    PROVE  ServingInv'
<1>1. reads[t] \in Reading /\ ThreadOK(t) /\ reads \in [Threads -> Reading]
  BY DEF ServingInv, ServingTypeOK, ReaderTypeOK
<1> DEFINE r == [NewReading EXCEPT !.pc = "done", !.call = reads[t].call, !.id = reads[t].id,
                                   !.out = out]
<1>2. /\ r \in Reading /\ r.pc = "done" /\ r.call = reads[t].call /\ r.id = reads[t].id
      /\ r.out = out /\ r.engines = {} /\ r.past = {}
  <2>1. reads[t].call \in Call \cup {None} /\ reads[t].id \in Ids \cup {None}
    BY <1>1 DEF Reading
  <2> QED
    BY <2>1, NewReadingType DEF NewReading, Reading
<1>3. reads' = [reads EXCEPT ![t] = r]
  BY DEF Answer
<1> HIDE DEF r
<1>4. reads'[t] = r
  BY <1>1, <1>3
<1>5. ASSUME r.call.release = None, out \in Sources \cup {"empty"}
      PROVE  r.id \in during[t]
  <2>1. In(t, "query")
    BY <1>5, ReaderAssumption
  <2> QED
    BY <1>1, <1>2, <1>5, <2>1 DEF ThreadOK, CallOf
<1>6. ThreadOK(t)'
  BY <1>2, <1>4, <1>5 DEF ThreadOK, InCall, In, CallOf
<1> QED
  BY <1>2, <1>3, <1>6, QuietThread

\* A call in progress that goes on to step l with the locals r keeps its
\* request and what has been ACTIVE since it began.
LEMMA GoOn ==
    ASSUME ServingInv, NEW t \in Threads, InCall(t), UNCHANGED <<vars, during, sharedVars>>,
           NEW r \in Reading, reads' = [reads EXCEPT ![t] = r], r.call = reads[t].call,
           r.pc \notin {"idle", "done"}, r.past = reads[t].past,
           r.engines \cap r.past = {},
           r.pc \in {"store", "validate", "query"} => r.id \in Ids,
           r.pc = "store" => r.call.release = None,
           r.pc \in {"store", "validate"} /\ r.call.release = None => WasOf(r.id, r.call.family),
           r.pc = "query" /\ r.call.release = None => r.id \in during[t]
    PROVE  ServingInv'
<1>1. ThreadOK(t) /\ reads \in [Threads -> Reading]
  BY DEF ServingInv, ServingTypeOK, ReaderTypeOK
<1>2. reads'[t] = r /\ during'[t] = during[t] /\ disposed' = disposed
  BY <1>1 DEF sharedVars
<1>3. /\ ActiveIds(r.call.family)' = ActiveIds(r.call.family)
      /\ WasOf(r.id, r.call.family)' <=> WasOf(r.id, r.call.family)
  BY RegistryAsItWas
<1>4. ThreadOK(t)'
  BY <1>1, <1>2, <1>3 DEF ThreadOK, InCall, In, CallOf
<1> QED
  BY <1>4, QuietThread

\* A move to a step that relies on nothing yet.
LEMMA MovePreserves ==
    ASSUME ServingInv, NEW t \in Threads, InCall(t), UNCHANGED <<vars, during, sharedVars>>,
           NEW l \in {"engine", "create", "return", "cache", "resolve"}, Move(t, l)
    PROVE  ServingInv'
<1>1. reads[t] \in Reading /\ reads \in [Threads -> Reading]
  BY DEF ServingInv, ServingTypeOK, ReaderTypeOK
<1> DEFINE r == [reads[t] EXCEPT !.pc = l]
<1>2. l \in Points
  BY DEF Points
<1>3. /\ r \in Reading /\ r.pc = l /\ r.call = reads[t].call
      /\ r.engines = reads[t].engines /\ r.past = reads[t].past
  BY <1>1, <1>2, MoveType
<1>4. reads' = [reads EXCEPT ![t] = r]
  BY <1>1 DEF Move
<1> HIDE DEF r
<1>5. r.engines \cap r.past = {}
  BY <1>3 DEF ServingInv, ThreadOK
<1> QED
  BY <1>3, <1>4, <1>5, GoOn

\* The first test of the engine property, outside the lock.
LEMMA FindEnginePreserves ==
    ASSUME ServingInv, NEW t \in Threads, FindEngine(t), UNCHANGED <<vars, during>>
    PROVE  ServingInv'
BY MovePreserves DEF FindEngine, InCall, In

\* The second test, under the lock: an engine is created only where there is
\* none, so that the one created is the only one.
LEMMA CreateEnginePreserves ==
    ASSUME ServingInv, NEW t \in Threads, CreateEngine(t), UNCHANGED <<vars, during>>
    PROVE  ServingInv'
<1>1. CASE engine # None
  BY <1>1, MovePreserves DEF CreateEngine, InCall, In, sharedVars
<1>2. CASE engine = None
  <2>1. /\ reads \in [Threads -> Reading] /\ reads[t] \in Reading /\ ThreadOK(t)
        /\ created \in Nat /\ closes \in Nat /\ closes <= MaxCloses /\ created <= closes
        /\ MaxCloses \in Nat
    BY <1>2, ReaderAssumption
       DEF ServingInv, ServingTypeOK, ReaderTypeOK, EnginesOK
  <2>2. /\ engine' = created + 1 /\ created' = created + 1
        /\ UNCHANGED <<cache, disposed, closing, closes>> /\ Move(t, "return")
        /\ reads[t].pc = "create"
    BY <1>2 DEF CreateEngine, In
  <2>3. created + 1 \in Engines /\ created + 1 \in 0..(MaxCloses + 1)
    BY <2>1 DEF Engines
  <2>4. 1..created \subseteq disposed /\ disposed \subseteq 1..created
    <3>1. None \notin 1..created
      BY <2>1, ReaderAssumption
    <3> QED
      BY <1>2, <3>1 DEF ServingInv, EnginesOK, OneEngine
  <2>5. [reads[t] EXCEPT !.pc = "return"] \in Reading
    BY <2>1, MoveType DEF Points
  <2>6. ServingTypeOK'
    BY <2>2, <2>3, <2>4, <2>5 DEF ServingInv, ServingTypeOK, ReaderTypeOK, Move
  <2>7. EnginesOK'
    <3>1. created + 1 # None
      BY <2>1, ReaderAssumption
    <3>2. \A e \in 1..(created + 1) : e \in 1..created \/ e = created + 1
      BY <2>1
    <3>3. 1..created \subseteq 1..(created + 1) /\ created + 1 \notin 1..created
      BY <2>1
    <3>4. OneEngine'
      BY <2>2, <2>4, <3>2 DEF OneEngine
    <3>5. created' <= closes' + (IF engine' = None THEN 0 ELSE 1) /\ engine' <= created'
      BY <2>1, <2>2, <3>1
    <3>6. engine' \notin disposed' /\ disposed' \subseteq 1..created'
      BY <2>2, <2>4, <3>3
    <3> QED
      BY <3>4, <3>5, <3>6 DEF EnginesOK
  <2>8. CacheOK'
    BY <2>2, RegistryAsItWas DEF ServingInv, CacheOK
  <2>9. /\ \A u \in Threads \ {t} : reads'[u] = reads[u]
        /\ reads'[t].pc = "return" /\ reads'[t].call = reads[t].call
        /\ reads'[t].engines = reads[t].engines /\ reads'[t].past = reads[t].past
    BY <2>1, <2>2, MoveType DEF Points, Move
  <2>10. ThreadOK(t)'
    <3>1. ActiveIds(CallOf(t).family)' = ActiveIds(CallOf(t).family)
      BY <2>9, RegistryAsItWas DEF CallOf
    <3> QED
      BY <2>1, <2>2, <2>9, <3>1 DEF ThreadOK, InCall, In, CallOf
  <2> QED
    BY <2>2, <2>6, <2>7, <2>8, <2>9, <2>10, ThreadFrame
<1> QED
  BY <1>1, <1>2

\* The engine is taken for the query, or for the session that resolves.
LEMMA ReturnEnginePreserves ==
    ASSUME ServingInv, NEW t \in Threads, ReturnEngine(t), UNCHANGED <<vars, during>>
    PROVE  ServingInv'
<1>1. /\ reads[t] \in Reading /\ reads \in [Threads -> Reading] /\ ThreadOK(t)
      /\ engine \in Engines \cup {None} /\ engine \notin disposed
      /\ InCall(t) /\ UNCHANGED sharedVars
  <2>1. None \notin disposed
    <3>1. disposed \subseteq 1..(MaxCloses + 1) /\ MaxCloses \in Nat
      BY ReaderAssumption DEF ServingInv, ServingTypeOK, ReaderTypeOK, Engines
    <3>2. \A e \in 1..(MaxCloses + 1) : e \in Nat
      BY <3>1
    <3>3. None \notin Nat
      BY ReaderAssumption
    <3> QED
      BY <3>1, <3>2, <3>3
  <2> QED
    BY <2>1 DEF ServingInv, ServingTypeOK, ReaderTypeOK, EnginesOK, ReturnEngine, InCall, In
<1>2. CASE reads[t].session /\ engine = None
  BY <1>1, <1>2, AnswerPreserves DEF ReturnEngine
<1>3. CASE ~(reads[t].session /\ engine = None)
  <2> DEFINE es == reads[t].engines \cup ({engine} \ {None})
             l == AfterEngine(t)
             r == [reads[t] EXCEPT !.engines = es, !.session = TRUE, !.pc = l]
  <2>1. l \in {"resolve", "cache", "engine"}
    BY DEF AfterEngine
  <2>2. es \in SUBSET Engines /\ es \cap reads[t].past = {}
    BY <1>1 DEF Reading, ThreadOK
  <2>3. reads' = [reads EXCEPT ![t] = r]
    BY <1>1, <1>3 DEF ReturnEngine
  <2> HIDE DEF es, l
  <2>4. /\ r \in Reading /\ r.pc = l /\ r.call = reads[t].call
        /\ r.engines = es /\ r.past = reads[t].past
    <3>1. ASSUME NEW a \in Reading
          PROVE  [a EXCEPT !.engines = es, !.session = TRUE, !.pc = l] \in Reading
      BY <2>1, <2>2 DEF Reading
    <3>2. ASSUME NEW a \in Reading
          PROVE  LET b == [a EXCEPT !.engines = es, !.session = TRUE, !.pc = l]
                 IN  /\ b.pc = l /\ b.call = a.call
                     /\ b.engines = es /\ b.past = a.past
      BY DEF Reading
    <3> QED
      BY <1>1, <3>1, <3>2
  <2> HIDE DEF r
  <2> QED
    BY <1>1, <2>1, <2>2, <2>3, <2>4, GoOn
<1> QED
  BY <1>2, <1>3

\* A hit is taken for what it was when it was stored.
LEMMA LookInCachePreserves ==
    ASSUME ServingInv, NEW t \in Threads, LookInCache(t), UNCHANGED <<vars, during>>
    PROVE  ServingInv'
<1>1. /\ reads[t] \in Reading /\ reads \in [Threads -> Reading] /\ InCall(t)
      /\ CallOf(t).family \in Families /\ UNCHANGED sharedVars
  BY ReaderAssumption DEF ServingInv, ServingTypeOK, ReaderTypeOK, ThreadOK, LookInCache, InCall,
                          In, Call
<1> DEFINE f == CallOf(t).family
<1>2. CASE Hit(f)
  <2>1. WasOf(cache[f].id, f) /\ cache[f].id \in Ids
    BY <1>1, <1>2 DEF ServingInv, CacheOK, Hit, WasOf
  <2> DEFINE r == [reads[t] EXCEPT !.pc = "validate", !.id = cache[f].id]
  <2>2. /\ r \in Reading /\ r.pc = "validate" /\ r.call = reads[t].call
        /\ r.id = cache[f].id /\ r.engines = reads[t].engines /\ r.past = reads[t].past
    <3>1. ASSUME NEW a \in Reading
          PROVE  [a EXCEPT !.pc = "validate", !.id = cache[f].id] \in Reading
      BY <2>1 DEF Reading
    <3>2. ASSUME NEW a \in Reading
          PROVE  LET b == [a EXCEPT !.pc = "validate", !.id = cache[f].id]
                 IN  /\ b.pc = "validate" /\ b.call = a.call /\ b.id = cache[f].id
                     /\ b.engines = a.engines /\ b.past = a.past
      BY DEF Reading
    <3> QED
      BY <1>1, <3>1, <3>2
  <2>3. reads' = [reads EXCEPT ![t] = r]
    BY <1>1, <1>2 DEF LookInCache
  <2> HIDE DEF r
  <2>4. r.engines \cap r.past = {}
    BY <2>2 DEF ServingInv, ThreadOK
  <2> QED
    BY <1>1, <2>1, <2>2, <2>3, <2>4, GoOn DEF CallOf
<1>3. CASE ~Hit(f)
  BY <1>1, <1>3, MovePreserves DEF LookInCache, Move
<1> QED
  BY <1>2, <1>3

\* The ACTIVE releases of a family are releases of it, and not only now.
LEMMA ActiveWasOf ==
    ASSUME Inv, NEW f, NEW i \in ActiveIds(f)
    PROVE  i \in Ids /\ WasOf(i, f)
BY DEF Inv, RowsOK, ActiveIds, WasOf

\* The registry lookup: what it finds for a query of the active release is ACTIVE.
LEMMA ResolvePreserves ==
    ASSUME ServingInv, NEW t \in Threads, Resolve(t), UNCHANGED <<vars, during>>
    PROVE  ServingInv'
<1> DEFINE call == CallOf(t)
<1>1. /\ reads[t] \in Reading /\ reads \in [Threads -> Reading] /\ InCall(t)
      /\ ThreadOK(t) /\ Inv /\ UNCHANGED sharedVars
  BY DEF ServingInv, ServingTypeOK, ReaderTypeOK, Resolve, InCall, In
<1>2. CASE Answer(t, "refused")
  BY <1>1, <1>2, AnswerPreserves
<1>3. ASSUME NEW i \in Candidates(call), Queryable(i, call),
             reads' = [reads EXCEPT
                         ![t].id = i,
                         ![t].pc = IF call.via = "direct" THEN "query"
                                   ELSE IF call.release = None THEN "store"
                                   ELSE "validate"]
      PROVE  ServingInv'
  <2>1. /\ i \in Ids
        /\ call.release = None => i \in during[t] /\ WasOf(i, call.family)
    <3>1. CASE call.release = None
      BY <1>1, <1>3, <3>1, ActiveWasOf DEF Candidates, ThreadOK
    <3>2. CASE call.release # None
      BY <1>3, <3>2 DEF Candidates, IdsNamed
    <3> QED
      BY <3>1, <3>2
  <2>2. PICK l \in {"query", "store", "validate"} :
           /\ l = "store" => call.release = None
           /\ reads' = [reads EXCEPT ![t].id = i, ![t].pc = l]
    BY <1>3
  <2> DEFINE r == [reads[t] EXCEPT !.id = i, !.pc = l]
  <2>3. /\ r \in Reading /\ r.pc = l /\ r.call = reads[t].call /\ r.id = i
        /\ r.engines = reads[t].engines /\ r.past = reads[t].past
    <3>1. ASSUME NEW a \in Reading
          PROVE  [a EXCEPT !.id = i, !.pc = l] \in Reading
      BY <2>1 DEF Reading
    <3>2. ASSUME NEW a \in Reading
          PROVE  LET b == [a EXCEPT !.id = i, !.pc = l]
                 IN  /\ b.pc = l /\ b.call = a.call /\ b.id = i
                     /\ b.engines = a.engines /\ b.past = a.past
      BY DEF Reading
    <3> QED
      BY <1>1, <3>1, <3>2
  <2>4. reads' = [reads EXCEPT ![t] = r]
    BY <1>1, <2>2
  <2> HIDE DEF r
  <2>5. r.pc \notin {"idle", "done"} /\ (r.pc = "store" => r.call.release = None)
    BY <2>2, <2>3 DEF CallOf
  <2>6. r.call.release = None => r.id \in during[t] /\ WasOf(r.id, r.call.family)
    BY <2>1, <2>3 DEF CallOf
  <2>7. r.engines \cap r.past = {}
    BY <1>1, <2>3 DEF ThreadOK
  <2> QED
    BY <1>1, <2>1, <2>3, <2>4, <2>5, <2>6, <2>7, GoOn
<1> QED
  BY <1>2, <1>3 DEF Resolve

\* The entry stored is a release of the family it is stored for.
LEMMA StorePreserves ==
    ASSUME ServingInv, NEW t \in Threads, Store(t), UNCHANGED <<vars, during>>
    PROVE  ServingInv'
<1> DEFINE f == CallOf(t).family
           i == reads[t].id
           r == [reads[t] EXCEPT !.pc = "validate"]
<1>1. /\ reads[t] \in Reading /\ reads \in [Threads -> Reading] /\ ThreadOK(t)
      /\ reads[t].pc = "store" /\ i \in Ids /\ CallOf(t).release = None /\ WasOf(i, f)
  BY DEF ServingInv, ServingTypeOK, ReaderTypeOK, ThreadOK, Store, In
<1>2. /\ r \in Reading /\ r.pc = "validate" /\ r.call = reads[t].call /\ r.id = i
      /\ r.engines = reads[t].engines /\ r.past = reads[t].past
  BY <1>1, MoveType DEF Points
<1>3. reads' = [reads EXCEPT ![t] = r] /\ UNCHANGED <<engine, created, disposed, closing, closes>>
  BY <1>1 DEF Store, Move
<1> HIDE DEF r
<1>4. [id |-> i, fresh |-> TRUE] \in Entry
  BY <1>1 DEF Entry
<1>5. cache' = [cache EXCEPT ![f] = [id |-> i, fresh |-> TRUE]]
  BY DEF Store
<1>6. ServingTypeOK'
  BY <1>2, <1>3, <1>4, <1>5 DEF ServingInv, ServingTypeOK, ReaderTypeOK
<1>7. EnginesOK'
  BY <1>3 DEF ServingInv, EnginesOK, OneEngine
<1>8. CacheOK'
  <2>1. ASSUME NEW g \in Families, cache'[g] # None
        PROVE  WasOf(cache'[g].id, g)
    BY <1>1, <1>5, <2>1 DEF ServingInv, ServingTypeOK, ReaderTypeOK, CacheOK
  <2>2. \A j, g : WasOf(j, g)' <=> WasOf(j, g)
    BY RegistryAsItWas
  <2>3. ASSUME NEW g \in Families, NEW j
        PROVE  WasOf(j, g)' <=> WasOf(j, g)
    BY <2>2
  <2> QED
    BY <2>1, <2>2 DEF CacheOK, WasOf, Issued, Exists, FamilyOfId, vars, registryVars
<1>9. ThreadOK(t)'
  <2>1. reads'[t] = r /\ during'[t] = during[t]
    BY <1>1, <1>3
  <2>2. CallOf(t)' = CallOf(t) /\ reads'[t].id = i /\ reads'[t].pc = "validate"
    BY <1>2, <2>1 DEF CallOf
  <2>3. /\ ActiveIds(CallOf(t).family)' = ActiveIds(CallOf(t).family)
        /\ WasOf(reads[t].id, CallOf(t).family)' <=> WasOf(i, f)
    BY <2>2, RegistryAsItWas
  <2>4. /\ reads'[t].engines = reads[t].engines /\ reads'[t].past = reads[t].past
        /\ disposed' = disposed
    BY <1>2, <1>3, <2>1
  <2> QED
    BY <1>1, <2>1, <2>2, <2>3, <2>4 DEF ThreadOK, InCall, In
<1> QED
  BY <1>1, <1>3, <1>6, <1>7, <1>8, <1>9, ThreadFrame

\* The re-check is what makes a stale entry harmless: an id that was a release
\* of the family when it was cached, and whose row is ACTIVE now, is ACTIVE in
\* that family.
LEMMA ValidateResolvedPreserves ==
    ASSUME ServingInv, NEW t \in Threads, ValidateResolved(t), UNCHANGED <<vars, during>>
    PROVE  ServingInv'
<1> DEFINE r == [reads[t] EXCEPT !.pc = "query"]
<1>1. /\ reads[t] \in Reading /\ reads \in [Threads -> Reading] /\ ThreadOK(t) /\ InCall(t)
      /\ In(t, "validate") /\ reads[t].id \in Ids /\ UNCHANGED sharedVars
  BY DEF ServingInv, ServingTypeOK, ReaderTypeOK, ThreadOK, ValidateResolved, In, InCall
<1>2. CASE ~Queryable(reads[t].id, CallOf(t))
  BY <1>1, <1>2, AnswerPreserves DEF ValidateResolved
<1>3. CASE Queryable(reads[t].id, CallOf(t))
  <2>1. CallOf(t).release = None => reads[t].id \in during[t]
    BY <1>1, <1>3 DEF ThreadOK, WasOf, Queryable, ActiveIds, In
  <2>2. /\ r \in Reading /\ r.pc = "query" /\ r.call = reads[t].call /\ r.id = reads[t].id
        /\ r.engines = reads[t].engines /\ r.past = reads[t].past
    BY <1>1, MoveType DEF Points
  <2>3. reads' = [reads EXCEPT ![t] = r]
    BY <1>1, <1>3 DEF ValidateResolved, Move
  <2> HIDE DEF r
  <2>4. r.engines \cap r.past = {}
    BY <1>1, <2>2 DEF ThreadOK
  <2> QED
    BY <1>1, <2>1, <2>2, <2>3, <2>4, GoOn DEF CallOf
<1> QED
  BY <1>2, <1>3

\* The SELECT answers with what the partition of the release holds.
LEMMA QueryPreserves ==
    ASSUME ServingInv, NEW t \in Threads, Query(t), UNCHANGED <<vars, during>>
    PROVE  ServingInv'
<1>1. reads[t].id \in Ids /\ InCall(t) /\ In(t, "query") /\ UNCHANGED sharedVars
  BY DEF ServingInv, ThreadOK, Query, In, InCall
<1>2. partition[reads[t].id] \in Sources \cup {None}
  BY <1>1 DEF ServingInv, Inv, TypeOK, RegistryTypeOK
<1>3. PICK out \in Sources \cup {"empty"} : Answer(t, out)
  BY <1>2 DEF Query
<1> QED
  BY <1>1, <1>3, AnswerPreserves

\* The caller takes the answer.
LEMMA ReturnPreserves ==
    ASSUME ServingInv, NEW t \in Threads, Return(t), UNCHANGED <<vars, during>>
    PROVE  ServingInv'
<1>1. reads' = [reads EXCEPT ![t] = NewReading] /\ UNCHANGED sharedVars
  BY DEF Return
<1>2. ThreadOK(t)'
  BY <1>1 DEF ServingInv, ServingTypeOK, ReaderTypeOK, ThreadOK, InCall, In, NewReading
<1> QED
  BY <1>1, <1>2, NewReadingType, QuietThread

\* A call begins: what is ACTIVE now counts.
LEMMA BeginPreserves ==
    ASSUME ServingInv, NEW t \in Threads, Begin(t)
    PROVE  ServingInv'
<1>1. /\ reads[t] \in Reading /\ reads \in [Threads -> Reading]
      /\ during \in [Threads -> SUBSET Ids] /\ disposed \subseteq Engines
  BY DEF ServingInv, ServingTypeOK, ReaderTypeOK
<1>2. PICK c \in Calls, l \in {"engine", "resolve"} :
         reads' = [reads EXCEPT ![t].pc = l, ![t].call = c, ![t].past = disposed]
  BY DEF Begin, StartCall
<1> DEFINE r == [reads[t] EXCEPT !.pc = l, !.call = c, !.past = disposed]
<1>3. r \in Reading /\ r.pc = l /\ r.call = c /\ r.engines = {} /\ r.past = disposed
  <2>1. c \in Call
    BY ReaderAssumption
  <2>2. ASSUME NEW a \in Reading
        PROVE  [a EXCEPT !.pc = l, !.call = c, !.past = disposed] \in Reading
    BY <2>1, <1>1 DEF Reading
  <2>3. ASSUME NEW a \in Reading
        PROVE  LET b == [a EXCEPT !.pc = l, !.call = c, !.past = disposed]
               IN  b.pc = l /\ b.call = c /\ b.engines = a.engines /\ b.past = disposed
    BY DEF Reading
  <2>4. reads[t].engines = {}
    BY DEF ServingInv, ThreadOK, Begin, StartCall, InCall, In
  <2> QED
    BY <1>1, <2>2, <2>3, <2>4
<1>4. reads' = [reads EXCEPT ![t] = r] /\ reads'[t] = r
  BY <1>1, <1>2
<1> HIDE DEF r
<1>5. during' = [during EXCEPT ![t] = ActiveIds(c.family)'] /\ UNCHANGED <<vars, sharedVars>>
  BY <1>3, <1>4 DEF Begin, StartCall, CallOf
<1>6. ActiveIds(c.family)' \subseteq Ids
  BY DEF ActiveIds
<1>7. ServingTypeOK'
  BY <1>1, <1>3, <1>4, <1>5, <1>6 DEF ServingInv, ServingTypeOK, ReaderTypeOK, sharedVars
<1>8. EnginesOK'
  BY <1>5 DEF ServingInv, EnginesOK, OneEngine, sharedVars
<1>9. CacheOK'
  BY <1>5, RegistryAsItWas DEF ServingInv, CacheOK, sharedVars
<1>10. ThreadOK(t)' /\ disposed' = disposed
  <2>1. during'[t] = ActiveIds(c.family)'
    BY <1>1, <1>5
  <2>2. /\ reads'[t].pc \in {"engine", "resolve"} /\ reads'[t].call = c
        /\ reads'[t].engines = {} /\ reads'[t].past = disposed
    BY <1>3, <1>4
  <2>3. disposed' = disposed
    BY <1>5 DEF sharedVars
  <2> QED
    BY <2>1, <2>2, <2>3 DEF ThreadOK, InCall, In, CallOf
<1> QED
  BY <1>1, <1>4, <1>5, <1>7, <1>8, <1>9, <1>10, ThreadFrame

\* Every step of a call in progress.
LEMMA ReadPreserves ==
    ASSUME ServingInv, NEW t \in Threads, Read(t)
    PROVE  ServingInv'
BY FindEnginePreserves, CreateEnginePreserves, ReturnEnginePreserves, LookInCachePreserves,
   ResolvePreserves, StorePreserves, ValidateResolvedPreserves, QueryPreserves, ReturnPreserves
   DEF Read, ReadStep

-----------------------------------------------------------------------------
(* Steps of the cache and the engine, and of the registry                  *)

\* A step that leaves the threads alone keeps what they need.
LEMMA SharedFrame ==
    ASSUME ServingInv, UNCHANGED <<vars, during, reads>>, disposed \subseteq disposed',
           ReaderTypeOK', EnginesOK', CacheOK'
    PROVE  ServingInv'
<1>1. Inv'
  BY RegistryAsItWas DEF ServingInv
<1>2. \A u \in Threads : ThreadOK(u)'
  BY OtherThread DEF ServingInv
<1> QED
  BY <1>1, <1>2 DEF ServingInv, ServingTypeOK

\* Time passes over the cache, or somebody empties it.
LEMMA CachePreserves ==
    ASSUME ServingInv, NEW f \in Families, Invalidate(f) \/ Expire(f), UNCHANGED <<vars, during>>
    PROVE  ServingInv'
<1>1. UNCHANGED <<reads, engine, created, disposed, closing, closes>>
  BY DEF Invalidate, Expire
<1>2. cache \in [Families -> Entry \cup {None}]
  BY DEF ServingInv, ServingTypeOK, ReaderTypeOK
<1>3. /\ cache' \in [Families -> Entry \cup {None}]
      /\ \A g \in Families : cache'[g] # None => cache[g] # None /\ cache'[g].id = cache[g].id
  <2>1. CASE Invalidate(f)
    BY <1>2, <2>1 DEF Invalidate
  <2>2. CASE Expire(f)
    <3>1. ASSUME NEW e \in Entry
          PROVE  [e EXCEPT !.fresh = FALSE] \in Entry /\ [e EXCEPT !.fresh = FALSE].id = e.id
      BY DEF Entry
    <3>2. cache[f] \in Entry /\ cache' = [cache EXCEPT ![f] = [cache[f] EXCEPT !.fresh = FALSE]]
      BY <1>2, <2>2 DEF Expire, Hit
    <3> QED
      BY <1>2, <2>2, <3>1, <3>2 DEF Expire, Hit
  <2> QED
    BY <2>1, <2>2
<1>4. ReaderTypeOK' /\ EnginesOK'
  BY <1>1, <1>3 DEF ServingInv, ServingTypeOK, ReaderTypeOK, EnginesOK, OneEngine
<1>5. CacheOK'
  <2>1. \A g \in Families : cache'[g] # None => WasOf(cache'[g].id, g)
    BY <1>3 DEF ServingInv, CacheOK
  <2> QED
    BY <2>1 DEF CacheOK, WasOf, Issued, Exists, FamilyOfId, vars, registryVars
<1> QED
  BY <1>1, <1>4, <1>5, SharedFrame

\* close(): the one engine that was not disposed is now, and the cache is emptied.
LEMMA ClosePreserves ==
    ASSUME ServingInv, Close \/ CloseCache, UNCHANGED <<vars, during>>
    PROVE  ServingInv'
<1>1. ServingTypeOK /\ EnginesOK /\ MaxCloses \in Nat
  BY ReaderAssumption DEF ServingInv
<1>2. ReaderTypeOK' /\ UNCHANGED reads
  <2>1. closes' \in 0..MaxCloses
    BY <1>1 DEF Close, CloseCache, ServingTypeOK, ReaderTypeOK
  <2>2. closing' \in BOOLEAN /\ engine' \in Engines \cup {None} /\ disposed' \subseteq Engines
    BY <1>1 DEF Close, CloseCache, ServingTypeOK, ReaderTypeOK
  <2>3. cache' \in [Families -> Entry \cup {None}]
    BY <1>1 DEF Close, CloseCache, ServingTypeOK, ReaderTypeOK
  <2> QED
    BY <1>1, <2>1, <2>2, <2>3 DEF Close, CloseCache, ServingTypeOK, ReaderTypeOK
<1>3. EnginesOK'
  <2>1. CASE Close
    <3>1. created <= closes + 1 /\ closes' = closes + 1 /\ engine' = None /\ created' = created
      BY <1>1, <2>1 DEF Close, EnginesOK, ServingTypeOK, ReaderTypeOK
    <3>2. disposed' = disposed \cup ({engine} \ {None})
      BY <2>1 DEF Close
    <3>3. engine # None => engine \in 1..created
      BY <1>1 DEF EnginesOK, ServingTypeOK, ReaderTypeOK, Engines
    <3>4. 1..created \subseteq disposed' /\ disposed' \subseteq 1..created
      <4>1. None \notin 1..created
        BY <1>1, ReaderAssumption DEF ServingTypeOK, ReaderTypeOK
      <4> QED
        BY <1>1, <3>2, <3>3, <4>1 DEF EnginesOK, OneEngine
    <3> QED
      BY <1>1, <3>1, <3>4 DEF EnginesOK, OneEngine, ServingTypeOK, ReaderTypeOK
  <2>2. CASE CloseCache
    BY <1>1, <2>2 DEF CloseCache, EnginesOK, OneEngine
  <2> QED
    BY <2>1, <2>2
<1>4. CacheOK'
  BY RegistryAsItWas DEF ServingInv, CacheOK, Close, CloseCache
<1>5. disposed \subseteq disposed'
  BY DEF Close, CloseCache
<1> QED
  BY <1>2, <1>3, <1>4, <1>5, SharedFrame

\* A change of the registry: what becomes ACTIVE is noticed by the calls in
\* progress, and an id somebody holds stays an id of its family.
LEMMA RegistryPreserves ==
    ASSUME ServingInv, Next, UNCHANGED readerVars, Notice
    PROVE  ServingInv'
<1>1. Inv /\ Inv'
  BY NextInv DEF ServingInv
<1>2. UNCHANGED <<reads, cache, engine, created, disposed, closing, closes>>
  BY DEF readerVars, sharedVars
<1>3. \A i, f : WasOf(i, f) => WasOf(i, f)'
  BY <1>1, NamesKept DEF WasOf, Exists, FamilyOfId
<1>4. during \in [Threads -> SUBSET Ids] /\ during' \in [Threads -> SUBSET Ids]
  BY DEF ServingInv, ServingTypeOK, Notice, ActiveIds
<1>5. \A t \in Threads :
         /\ during[t] \subseteq during'[t]
         /\ InCall(t) => ActiveIds(CallOf(t).family)' \subseteq during'[t]
  BY <1>4 DEF Notice
<1>6. ServingTypeOK'
  BY <1>2, <1>4 DEF ServingInv, ServingTypeOK, ReaderTypeOK
<1>7. EnginesOK' /\ CacheOK'
  BY <1>2, <1>3 DEF ServingInv, EnginesOK, OneEngine, CacheOK
<1>8. ASSUME NEW t \in Threads
      PROVE  ThreadOK(t)'
  <2>1. ThreadOK(t)
    BY DEF ServingInv
  <2>2. /\ InCall(t)' <=> InCall(t)
        /\ CallOf(t)' = CallOf(t)
        /\ \A l : In(t, l)' <=> In(t, l)
    BY <1>2 DEF InCall, CallOf, In
  <2>3. WasOf(reads[t].id, CallOf(t).family) => WasOf(reads[t].id, CallOf(t).family)'
    BY <1>2, <1>3, <2>2
  <2> QED
    BY <1>2, <1>5, <2>1, <2>2, <2>3 DEF ThreadOK
<1> QED
  BY <1>1, <1>6, <1>7, <1>8 DEF ServingInv

-----------------------------------------------------------------------------
(* The invariant, and what follows from it                                 *)

\* The reader starts with nothing.
LEMMA ServingInitInv == ServingInit => ServingInv
<1> SUFFICES ASSUME ServingInit PROVE ServingInv
  OBVIOUS
<1>1. Inv
  BY InitInv DEF ServingInit
<1>2. ServingTypeOK
  <2>1. reads \in [Threads -> Reading]
    BY NewReadingType DEF ServingInit, ReaderInit
  <2>2. created \in 0..(MaxCloses + 1) /\ closes \in 0..MaxCloses
    BY ReaderAssumption DEF ServingInit, ReaderInit
  <2>3. /\ cache \in [Families -> Entry \cup {None}]
        /\ engine \in Engines \cup {None} /\ disposed \subseteq Engines /\ closing \in BOOLEAN
    BY DEF ServingInit, ReaderInit
  <2>4. during \in [Threads -> SUBSET Ids]
    BY DEF ServingInit
  <2> QED
    BY <2>1, <2>2, <2>3, <2>4 DEF ServingTypeOK, ReaderTypeOK
<1>3. EnginesOK /\ CacheOK
  BY DEF ServingInit, ReaderInit, EnginesOK, OneEngine, CacheOK
<1>4. \A t \in Threads : ThreadOK(t)
  BY DEF ServingInit, ReaderInit, NewReading, ThreadOK, InCall, In
<1> QED
  BY <1>1, <1>2, <1>3, <1>4 DEF ServingInv

\* No step of a reader or of the lifecycle breaks the invariant.
LEMMA ServingNextInv == ServingInv /\ [ServingNext]_servingVars => ServingInv'
<1> SUFFICES ASSUME ServingInv, [ServingNext]_servingVars PROVE ServingInv'
  OBVIOUS
<1>1. CASE UNCHANGED servingVars
  <2>1. ReaderTypeOK' /\ EnginesOK' /\ CacheOK'
    BY <1>1, RegistryAsItWas DEF servingVars, readerVars, sharedVars, ServingInv, ServingTypeOK,
       ReaderTypeOK, EnginesOK, OneEngine, CacheOK
  <2> QED
    BY <1>1, <2>1, SharedFrame DEF servingVars, readerVars, sharedVars
<1>2. CASE Next /\ UNCHANGED readerVars /\ Notice
  BY <1>2, RegistryPreserves
<1>3. CASE \E t \in Threads : Begin(t) \/ Read(t)
  BY <1>3, BeginPreserves, ReadPreserves
<1>4. CASE \E f \in Families : (Invalidate(f) \/ Expire(f)) /\ UNCHANGED <<vars, during>>
  BY <1>4, CachePreserves
<1>5. CASE (Close \/ CloseCache) /\ UNCHANGED <<vars, during>>
  BY <1>5, ClosePreserves
<1> QED
  BY <1>1, <1>2, <1>3, <1>4, <1>5 DEF ServingNext

\* The invariant holds of every behaviour of readers next to the lifecycle.
THEOREM ServingInvariance == ServingSpec => []ServingInv
<1>1. ServingInit => ServingInv
  BY ServingInitInv
<1>2. ServingInv /\ [ServingNext]_servingVars => ServingInv'
  BY ServingNextInv
<1> QED
  BY <1>1, <1>2, PTL DEF ServingSpec

\* Every variable of a reader keeps its type; in particular it creates at most
\* one engine more than there are close() calls (client.py, _engine_lock).
THEOREM ServingTypeCorrect == ServingSpec => []ServingTypeOK
<1>1. ServingInv => ServingTypeOK
  BY DEF ServingInv
<1> QED
  BY <1>1, ServingInvariance, PTL

\* However many threads race for the first use and for close(), each engine the
\* reader created is the one it would return or was disposed by a close(): none
\* is overwritten and forgotten (client.py, engine and close()).
THEOREM EngineIsShared == ServingSpec => []OneEngine
<1>1. ServingInv => OneEngine
  BY DEF ServingInv, EnginesOK
<1> QED
  BY <1>1, ServingInvariance, PTL

\* A call that begins after close() has disposed an engine works on another one,
\* whatever calls were in progress: those alone may go on with a disposed engine.
THEOREM NoCallOnDisposedEngine == ServingSpec => []NoDisposedEngine
<1>1. ServingInv => NoDisposedEngine
  BY DEF ServingInv, ThreadOK, NoDisposedEngine
<1> QED
  BY <1>1, ServingInvariance, PTL

\* A query of the active release is answered from a release that was ACTIVE
\* during its call, for any cache lifetime and any activations, imports,
\* deactivations and removals meanwhile.
THEOREM AnswersAreFromActive == ServingSpec => []AnsweredFromActive
<1>1. ServingInv => AnsweredFromActive
  BY DEF ServingInv, ThreadOK, AnsweredFromActive
<1> QED
  BY <1>1, ServingInvariance, PTL

\* Readers do not disturb the lifecycle: what is proved of it holds beside them.
THEOREM ReadersOnlyRead == ServingSpec => Spec
<1>1. ServingInit => Init
  BY DEF ServingInit
<1>2. [ServingNext]_servingVars => [Next]_vars
  BY DEF ServingNext, servingVars, Begin, Read
<1> QED
  BY <1>1, <1>2, PTL DEF ServingSpec, Spec
=============================================================================
