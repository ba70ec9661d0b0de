------------------------------ MODULE JobProofs ------------------------------
(***************************************************************************)
(* What the exit code of "skycat import" tells, one process at a time.     *)
(* JobSpec refines Spec, so that SerialProofs says what an attempt may     *)
(* rely on; what is left is what its process knows besides.                *)
(***************************************************************************)
EXTENDS SerialProofs, ImportJob

-----------------------------------------------------------------------------
(* The invariant                                                           *)

\* A cause for which an attempt may fail with nobody else at work.
Earned(p) ==
    \/ job[p].cause \in {"driver", "connect", "lock"}
    \/ job[p].cause = "critical" /\ Critical(imp[p].req.src)
    \/ job[p].cause = "active" /\ imp[p].req.mode # "force"

\* What the process of p has noted is so.
JobNow(p) ==
    /\ imp[p].pc \in {"idle", "sync", "open", "skipActivate", "activate"} => ~job[p].activated
    /\ imp[p].pc \in {"openRun", "runId", "stage", "build", "swap", "finalize", "finalizeCommit",
                     "readBack"}
          => (job[p].activated => imp[p].wasActive)
    /\ At(p, "cleanup") /\ job[p].activated => IsActive(imp[p].rid)
    /\ imp[p].pc \in {"idle"} \cup TryBlock => job[p].cause = None
    /\ imp[p].pc \in Recording => Earned(p)

JobInv ==
    /\ job \in [Importers -> Job]
    /\ \A p \in Importers : JobNow(p)

-----------------------------------------------------------------------------
(* Nothing but its own tree, a lock or an error makes a lone attempt fail  *)

\* Nor a finalize.
LEMMA FinalizeGoesThrough ==
    ASSUME Inv, SerialInv, NEW p \in Importers, At(p, "finalizeCommit")
    PROVE  ~CannotFinalize(p)
<1> DEFINE i == imp[p].rid
           s == Finalized(p)
<1>1. rows \in [Ids -> Row \cup {None}] /\ imp[p].target = i /\ OwnRelease(p)
      /\ s = [rows EXCEPT ![i] = FinalRow(p)]
  BY FinalizedTable DEF Inv, TypeOK, RegistryTypeOK
<1>2. i \in Ids /\ Exists(i) /\ FinalRow(p).name = rows[i].name
      /\ (FinalRow(p).state = "active" => rows[i].state = "active")
  BY <1>1 DEF OwnRelease, Found, FinalRow, FinalState
<1>3. \A j \in Ids : s[j] # None /\ s[j].state = "active" =>
         rows[j] # None /\ rows[j].state = "active" /\ s[j].name = rows[j].name
  BY <1>1, <1>2 DEF Exists
<1>4. UniqueActive(s)
  BY <1>3 DEF Inv, OneActivePerFamily, UniqueActive
<1> QED
  BY <1>1, <1>2, <1>4 DEF CannotFinalize

\* A gate that refuses has seen a check fail.
LEMMA GateRefuses ==
    ASSUME NEW s, NEW q, Gate(s, q) = "refuse"
    PROVE  s = "failed"
BY DEF Gate

\* The summary of checks that did not fail is none of a failure.
LEMMA CheckedSummary ==
    ASSUME NEW t, Checked(t)
    PROVE  Summarize(StagingStatus[t], ProductionStatus[t]) # "failed"
BY DEF Checked, Summarize

\* What raises in an attempt that nobody disturbs.
LEMMA RaiseIsEarned ==
    ASSUME Inv, SerialInv, NEW p \in Importers, ImportStep(p),
           imp[p].pc \in TryBlock, imp'[p].pc = "record"
    PROVE  /\ ~At(p, "sync") /\ imp'[p].req = imp[p].req
           /\ \/ Raised(p) = "lock"
              \/ Raised(p) = "critical" /\ Critical(imp[p].req.src)
              \/ Raised(p) = "active" /\ imp[p].req.mode # "force"
<1> DEFINE i == imp[p].rid
           q == imp[p].req
<1>1. /\ imp \in [Importers -> Attempt] /\ imp[p] \in Attempt /\ AttemptNow(p)
      /\ partition \in [Ids -> Sources \cup {None}]
      /\ q \in Request /\ q.src \in Sources /\ q.src # None
  <2>1. q \in Request
    BY DEF Inv, TypeOK, ImportTypeOK, AttemptOK, Live, Attempt
  <2> QED
    BY <2>1, RegistryAssumption DEF Inv, TypeOK, ImportTypeOK, RegistryTypeOK, SerialInv, Request
<1>2. Raise(p) => imp'[p].req = q
  BY <1>1 DEF Raise, NewAttempt
<1>3. CASE SkipUnchanged(p)
  <2>1. PICK j \in IdsNamed(q.name) :
           /\ Unchanged(rows[j], q)
           /\ imp'[p].pc = "record" => Gate(rows[j].validation, q) = "refuse"
    <3>1. PICK j \in IdsNamed(q.name) :
             LET gate == IF rows[j].state = "active" \/ ~q.activate THEN "hold"
                         ELSE Gate(rows[j].validation, q) IN
             /\ Unchanged(rows[j], q)
             /\ \/ gate = "hold" /\ Finish(p, "done")
                \/ gate = "refuse" /\ Raise(p)
                \/ /\ gate = "activate"
                   /\ \E c : imp' = [imp EXCEPT ![p].pc = "skipActivate",
                                                ![p].target = j, ![p].current = c]
      BY <1>3 DEF SkipUnchanged
    <3>2. Finish(p, "done") => imp'[p].pc = "done"
      BY <1>1 DEF Finish, NewAttempt
    <3>3. \A c : imp' = [imp EXCEPT ![p].pc = "skipActivate", ![p].target = j, ![p].current = c]
                    => imp'[p].pc = "skipActivate"
      BY <1>1 DEF Attempt
    <3> QED
      BY <3>1, <3>2, <3>3
  <2>2. rows[j].validation # "failed"
    BY <2>1 DEF SerialInv, BuiltRowsPassed, IdsNamed, Unchanged, IsBuilt
  <2> QED
    BY <2>1, <2>2, GateRefuses
<1>4. CASE RefuseActive(p)
  <2>1. PICK j \in IdsNamed(q.name) : ~Unchanged(rows[j], q) /\ MustForce(rows[j], q)
    BY <1>4 DEF RefuseActive
  <2>2. \A k \in IdsNamed(q.name) : k = j
    BY <2>1 DEF SerialInv, NamesAreUnique, IdsNamed
  <2>3. At(p, "open") /\ Raise(p)
    BY <1>4 DEF RefuseActive
  <2> QED
    BY <1>2, <2>1, <2>2, <2>3 DEF Raised, MustForce, At
<1>5. CASE OpenRunFails(p)
  BY <1>1, <1>5 DEF OpenRunFails, CannotOpenRun, AttemptNow, At, OwnRelease, Found
<1>5a. CASE ReadRunId(p)
  <2>1. runs[p] # None /\ imp[p].pc = "runId"
    BY <1>1, <1>5a DEF ReadRunId, AttemptNow, At, OwnRelease, Found, Inv, AttemptOK, RunOpen, Opened
  <2>2. imp'[p].pc = "stage"
    BY <1>1, <1>5a, <2>1 DEF ReadRunId, Attempt
  <2> QED
    BY <2>2
<1>5b. CASE ReportSkip(p)
  <2>1. Finish(p, "done")
    BY <1>1, <1>5b DEF ReportSkip, AttemptNow, Found
  <2> QED
    BY <1>1, <2>1 DEF Finish, NewAttempt
<1>6. CASE PhaseA(p)
  <2>1. Raise(p) /\ StagingStatus[q.src] = "failed"
    <3>1. Goto(p, "build") => imp'[p].pc = "build"
      BY <1>1 DEF Goto
    <3> QED
      BY <1>6, <3>1 DEF PhaseA
  <2> QED
    BY <1>2, <1>6, <2>1 DEF PhaseA, Raised, At, Critical
<1>7. CASE PhaseB1Fails(p)
  <2>1. staging[q.name] = q.src /\ At(p, "build")
    BY <1>1, <1>7 DEF PhaseB1Fails, AttemptNow
  <2>2. ProductionStatus[q.src] = "failed" /\ Raise(p)
    BY <1>1, <1>7, <2>1 DEF PhaseB1Fails
  <2> QED
    BY <1>1, <1>2, <2>1, <2>2 DEF Raised, At, Critical
<1>8. CASE SwapFails(p)
  BY <1>1, <1>8 DEF SwapFails, AttemptNow
<1>9. CASE LockTimeout(p)
  <2>1. Raise(p)
    <3>1. imp' = [imp EXCEPT ![p].tries = @ + 1] => imp'[p].pc = imp[p].pc
      BY <1>1 DEF Attempt
    <3> QED
      BY <1>9, <3>1 DEF LockTimeout, At
  <2> QED
    BY <1>2, <1>9, <2>1 DEF LockTimeout, Raised, At
<1>10. CASE Finalize(p)
  <2>1. Exists(i) /\ At(p, "finalize")
    BY <1>1, <1>10 DEF Finalize, AttemptNow, At, OwnRelease, Found
  <2>2. imp'[p].pc = "finalizeCommit"
    BY <1>1, <1>10, <2>1 DEF Finalize, Attempt
  <2> QED
    BY <2>2
<1>11. CASE FinalizeCommitFails(p)
  BY <1>11, FinalizeGoesThrough DEF FinalizeCommitFails
<1>12. CASE ReadBack(p)
  <2>1. At(p, "readBack") /\ Published(p) /\ Exists(i) /\ rows[i].state \in {"active", "ready"}
    BY <1>1, <1>12 DEF ReadBack, AttemptNow, Published, Found
  <2>2. FinalStatus(p) # "failed"
    <3>1. Checked(q.src) /\ imp[p].imported = q.src
      BY <1>1, <2>1 DEF Published, Found, SerialInv, PartitionsAreChecked
    <3> QED
      BY <3>1, CheckedSummary DEF FinalStatus
  <2>3. Gate(FinalStatus(p), q) # "refuse"
    BY <2>2, GateRefuses
  <2>4. Goto(p, "cleanup") => imp'[p].pc = "cleanup"
    BY <1>1 DEF Goto
  <2>5. \A t, c : imp' = [imp EXCEPT ![p].pc = "activate", ![p].target = t, ![p].current = c]
                     => imp'[p].pc = "activate"
    BY <1>1 DEF Attempt
  <2> DEFINE gate == IF imp[p].wasActive \/ ~q.activate THEN "hold" ELSE Gate(FinalStatus(p), q)
  <2>6. \/ Goto(p, "cleanup")
        \/ \E c : imp' = [imp EXCEPT ![p].pc = "activate", ![p].target = i, ![p].current = c]
        \/ Exists(i) => \/ gate = "refuse"
                        \/ gate = "activate" /\ rows[i].state \notin Activatable \cup {"active"}
    BY <1>12 DEF ReadBack
  <2>7. gate # "refuse" /\ rows[i].state \in Activatable \cup {"active"}
    BY <2>1, <2>3 DEF Activatable
  <2> HIDE DEF gate
  <2> QED
    <3>1. ASSUME NEW c, imp' = [imp EXCEPT ![p].pc = "activate", ![p].target = i, ![p].current = c]
          PROVE  FALSE
      BY <2>5, <3>1
    <3>2. ~Goto(p, "cleanup")
      BY <2>4
    <3> QED
      BY <2>1, <2>6, <2>7, <3>1, <3>2
<1>13. CASE ActivateImportedFails(p)
  <2>1. /\ imp[p].target \in Ids /\ Found(imp[p].target, q.name, Activatable)
        /\ Supersedes(imp[p].current, q.name)
    BY <1>1, <1>13 DEF ActivateImportedFails, AttemptNow, At, Published, Found, Activatable
  <2> QED
    BY <1>13, <2>1, ActivationGoesThrough DEF ActivateImportedFails
<1>14. CASE SyncFamily(p) \/ OpenNewRelease(p) \/ OpenRelease(p) \/ OpenRun(p) \/ PhaseB1(p)
            \/ Swap(p) \/ FinalizeCommit(p) \/ ActivateImported(p) \/ Cleanup(p)
  <2>1. SyncFamily(p) \/ OpenRun(p) => imp'[p].pc # "record"
    BY GotoFields DEF SyncFamily, OpenRun
  <2>2. OpenNewRelease(p) \/ PhaseB1(p) \/ Swap(p) => imp'[p].pc # "record"
    BY <1>1 DEF OpenNewRelease, PhaseB1, Swap, Attempt
  <2>2a. OpenRelease(p) => imp'[p].pc # "record"
    <3>1. ASSUME NEW j, NEW w,
                 imp' = [imp EXCEPT ![p].pc = "openRun", ![p].rid = j, ![p].wasActive = w]
          PROVE  imp'[p].pc # "record"
      BY <1>1, <3>1 DEF Attempt
    <3> QED
      BY <3>1 DEF OpenRelease
  <2>3. FinalizeCommit(p) => imp'[p].pc # "record"
    BY <1>1 DEF FinalizeCommit, Attempt
  <2>4. Finish(p, "done") => imp'[p].pc # "record"
    BY <1>1 DEF Finish, NewAttempt
  <2>4a. \A l : imp' = [imp EXCEPT ![p].pc = l, ![p].current = None] => imp'[p].pc = l
    BY <1>1 DEF Attempt
  <2>5. ActivateImported(p) \/ Cleanup(p) => imp'[p].pc # "record"
    BY <2>4, <2>4a DEF ActivateImported, Cleanup
  <2> QED
    BY <1>14, <2>1, <2>2, <2>2a, <2>3, <2>5
<1>15. CASE Record(p) \/ RecordCommit(p) \/ RecordCommitFails(p)
  BY <1>15 DEF Record, RecordCommit, RecordCommitFails, At, TryBlock
<1> QED
  BY <1>3, <1>4, <1>5, <1>5a, <1>5b, <1>6, <1>7, <1>8, <1>9, <1>10, <1>11, <1>12, <1>13, <1>14,
     <1>15 DEF ImportStep

-----------------------------------------------------------------------------
(* What a step means to the job                                            *)

\* Whether the report says so far that the release is ACTIVE.
Reports(p) == job[p].activated \/ (ReportsActive(p) /\ imp'[p].pc # "record")

\* What the process of p notes of a step of its own.
LEMMA AccountEffect ==
    ASSUME job \in [Importers -> Job], NEW p \in Importers, NEW fault \in BOOLEAN,
           Account(p, fault)
    PROVE  /\ job' \in [Importers -> Job]
           /\ \A q \in Importers \ {p} : job'[q] = job[q]
           /\ Ending(p) =>
                 job'[p].exit = CASE imp'[p].pc = "done" -> ExitOf(p, Reports(p))
                                  [] imp'[p].pc = "failed" -> ExitOfFailure
                                  [] OTHER -> Killed
           /\ ~Ending(p) /\ imp'[p].pc = "record" /\ imp[p].pc \in TryBlock =>
                 /\ ~job'[p].activated
                 /\ job'[p].cause = CASE ~fault -> Raised(p)
                                      [] At(p, "sync") -> "connect"
                                      [] OTHER -> "driver"
                 /\ job'[p].exit = job[p].exit
           /\ ~Ending(p) /\ ~(imp'[p].pc = "record" /\ imp[p].pc \in TryBlock) =>
                 /\ job'[p].activated = Reports(p)
                 /\ job'[p].cause = job[p].cause
                 /\ job'[p].exit = job[p].exit
<1> DEFINE e == CASE imp'[p].pc = "done" -> ExitOf(p, Reports(p))
                  [] imp'[p].pc = "failed" -> ExitOfFailure
                  [] OTHER -> Killed
           c == CASE ~fault -> Raised(p)
                  [] At(p, "sync") -> "connect"
                  [] OTHER -> "driver"
           j == IF Ending(p) THEN [NewJob EXCEPT !.exit = e]
                ELSE IF imp'[p].pc = "record" /\ imp[p].pc \in TryBlock
                THEN [job[p] EXCEPT !.activated = FALSE, !.cause = c]
                ELSE [job[p] EXCEPT !.activated = Reports(p)]
<1>1. job' = [job EXCEPT ![p] = j]
  BY DEF Account, Reports
<1>2. e \in {0, 1, Killed}
  <2>1. ExitOf(p, Reports(p)) \in {0, 1}
    BY DEF ExitOf
  <2> QED
    BY <2>1 DEF ExitOfFailure
<1>3. c \in Causes
  <2>1. Raised(p) \in Causes
    BY DEF Raised, Causes
  <2> QED
    BY <2>1 DEF Causes
<1>4. Reports(p) \in BOOLEAN
  BY DEF Reports, Job
<1> HIDE DEF c, e
<1>5. job[p] \in Job /\ NewJob \in Job
  BY DEF NewJob, Job, Causes
<1>6. /\ [NewJob EXCEPT !.exit = e] \in Job /\ [NewJob EXCEPT !.exit = e].exit = e
  BY <1>2, <1>5 DEF Job
<1>7. LET a == [job[p] EXCEPT !.activated = FALSE, !.cause = c] IN
      a \in Job /\ ~a.activated /\ a.cause = c /\ a.exit = job[p].exit
  BY <1>3, <1>5 DEF Job
<1>8. LET a == [job[p] EXCEPT !.activated = Reports(p)] IN
      /\ a \in Job /\ a.activated = Reports(p) /\ a.cause = job[p].cause /\ a.exit = job[p].exit
  BY <1>4, <1>5 DEF Job
<1>9. j \in Job
  BY <1>6, <1>7, <1>8
<1>10. job' \in [Importers -> Job] /\ job'[p] = j /\ \A q \in Importers \ {p} : job'[q] = job[q]
  <2> HIDE DEF j
  <2> QED
    BY <1>1, <1>9
<1> QED
  BY <1>6, <1>7, <1>8, <1>10 DEF e, c

\* An attempt that is not at work relies on nothing.
LEMMA RestingJob ==
    ASSUME NEW q \in Importers, ~Live(q), JobNow(q), imp'[q] = imp[q], job'[q] = job[q]
    PROVE  JobNow(q)'
BY DEF JobNow, Live, At, TryBlock, Recording

\* A step of attempt p has to leave its own process in order.
LEMMA JobFrame ==
    ASSUME Inv, SerialInv, JobInv, NEW p \in Importers, NEW fault \in BOOLEAN, Live(p),
           ImportStep(p) \/ ImportFault(p), Account(p, fault), JobNow(p)'
    PROVE  JobInv'
<1>1. \A q \in Importers \ {p} : ~Live(q)
  BY AtWorkAlone DEF OnlyAttempt
<1>2. \A q \in Importers \ {p} : imp'[q] = imp[q] /\ job'[q] = job[q]
  BY OneMoves, AccountEffect DEF JobInv
<1>3. \A q \in Importers : JobNow(q)'
  BY <1>1, <1>2, RestingJob DEF JobInv
<1> QED
  BY <1>3, AccountEffect DEF JobInv

\* Between the open and the read-back the report does not change.
LEMMA QuietJob ==
    ASSUME JobInv, NEW p \in Importers, NEW fault \in BOOLEAN, Account(p, fault),
           imp[p].pc \in {"openRun", "runId", "stage", "build", "swap", "finalize",
                          "finalizeCommit"},
           imp'[p].pc \in {"runId", "stage", "build", "swap", "finalize", "finalizeCommit", "readBack"},
           imp'[p].wasActive = imp[p].wasActive
    PROVE  JobNow(p)'
<1>1. ~Ending(p) /\ imp'[p].pc # "record" /\ imp[p].pc \in TryBlock
  BY DEF Ending, ImportEnded, TryBlock
<1>2. job'[p].activated = Reports(p) /\ job'[p].cause = job[p].cause
  BY <1>1, AccountEffect DEF JobInv
<1>3. Reports(p) => imp[p].wasActive
  BY DEF Reports, ReportsActive, At, JobInv, JobNow
<1>4. job[p].cause = None
  BY <1>1 DEF JobInv, JobNow
<1> QED
  BY <1>2, <1>3, <1>4 DEF JobNow, At, Recording

\* The open reports a release that is ACTIVE, which is then replaced by force.
LEMMA OpenJob ==
    ASSUME Inv, SerialInv, JobInv, NEW p \in Importers, Account(p, FALSE),
           SyncFamily(p) \/ OpenNewRelease(p) \/ OpenRelease(p) \/ SkipUnchanged(p),
           imp'[p].pc \notin ImportEnded \cup {"record"}
    PROVE  JobNow(p)'
<1> DEFINE q == imp[p].req
<1>1. imp \in [Importers -> Attempt] /\ imp[p].pc \in {"sync", "open"} /\ JobNow(p)
  BY DEF Inv, TypeOK, ImportTypeOK, JobInv, SyncFamily, OpenNewRelease, OpenRelease, SkipUnchanged,
         At
<1>2. ~Ending(p) /\ imp'[p].pc # "record" /\ ~job[p].activated /\ job[p].cause = None
  BY <1>1 DEF Ending, JobNow, TryBlock
<1>3. /\ job'[p].activated <=> At(p, "open") /\ \E i \in IdsNamed(q.name) : IsActive(i)
      /\ job'[p].cause = None
  <2>1. job'[p].activated = Reports(p) /\ job'[p].cause = job[p].cause
    BY <1>2, AccountEffect DEF JobInv
  <2>2. Reports(p) <=> At(p, "open") /\ \E i \in IdsNamed(q.name) : IsActive(i)
    BY <1>1, <1>2 DEF Reports, ReportsActive, At
  <2> QED
    BY <1>2, <2>1, <2>2
<1>4. \A i, j \in IdsNamed(q.name) : i = j
  BY DEF SerialInv, NamesAreUnique, IdsNamed
<1>5. CASE SyncFamily(p)
  <2>1. imp'[p].pc = "open" /\ ~At(p, "open")
    BY <1>5, GotoFields DEF SyncFamily, At
  <2> QED
    BY <1>3, <2>1 DEF JobNow, At, Recording
<1>6. CASE OpenNewRelease(p)
  <2>1. imp'[p].pc = "openRun" /\ IdsNamed(q.name) = {}
    BY <1>1, <1>6 DEF OpenNewRelease, Attempt
  <2> QED
    BY <1>3, <2>1 DEF JobNow, At, Recording
<1>7. CASE OpenRelease(p)
  <2>1. PICK i \in IdsNamed(q.name) :
           imp' = [imp EXCEPT ![p].pc = "openRun", ![p].rid = i,
                              ![p].wasActive = rows[i].state = "active"]
    BY <1>7 DEF OpenRelease
  <2>2. imp'[p].pc = "openRun" /\ imp'[p].wasActive = (rows[i].state = "active")
    BY <1>1, <2>1 DEF Attempt
  <2>3. job'[p].activated => imp'[p].wasActive
    BY <1>3, <1>4, <2>2 DEF IsActive
  <2> QED
    BY <1>3, <2>2, <2>3 DEF JobNow, At, Recording
<1>8. CASE SkipUnchanged(p)
  <2>1. PICK i \in IdsNamed(q.name) :
           LET gate == IF rows[i].state = "active" \/ ~q.activate THEN "hold"
                       ELSE Gate(rows[i].validation, q) IN
           \/ Finish(p, "done")
           \/ Raise(p)
           \/ /\ gate = "activate"
              /\ \E c : imp' = [imp EXCEPT ![p].pc = "skipActivate",
                                           ![p].target = i, ![p].current = c]
    BY <1>8 DEF SkipUnchanged
  <2>2. Finish(p, "done") => imp'[p].pc \in ImportEnded
    BY <1>1 DEF Finish, NewAttempt, ImportEnded
  <2>3. Raise(p) => imp'[p].pc = "record"
    BY <1>1 DEF Raise, NewAttempt
  <2>4. rows[i].state # "active" /\ \E c : imp' = [imp EXCEPT ![p].pc = "skipActivate",
                                                             ![p].target = i, ![p].current = c]
    BY <2>1, <2>2, <2>3
  <2>5. imp'[p].pc = "skipActivate"
    BY <1>1, <2>4 DEF Attempt
  <2>6. ~job'[p].activated
    BY <1>3, <1>4, <2>4 DEF IsActive
  <2> QED
    BY <1>3, <2>5, <2>6 DEF JobNow, At, Recording
<1> QED
  BY <1>5, <1>6, <1>7, <1>8

\* The read-back reports what is ACTIVE, and so does the activation.
LEMMA ReadBackJob ==
    ASSUME Inv, SerialInv, JobInv, NEW p \in Importers, Account(p, FALSE), ReadBack(p),
           imp'[p].pc \notin ImportEnded \cup {"record"}
    PROVE  JobNow(p)'
<1> DEFINE q == imp[p].req
           gate == IF imp[p].wasActive \/ ~q.activate THEN "hold" ELSE Gate(FinalStatus(p), q)
<1>1. /\ imp \in [Importers -> Attempt] /\ imp[p].pc = "readBack" /\ JobNow(p) /\ AttemptNow(p)
      /\ UNCHANGED registryVars
  BY DEF Inv, TypeOK, ImportTypeOK, JobInv, ReadBack, At, SerialInv
<1>2. /\ Exists(imp[p].rid)
      /\ imp[p].wasActive <=> rows[imp[p].rid].state = "active"
      /\ job[p].activated => imp[p].wasActive
      /\ job[p].cause = None
  BY <1>1 DEF AttemptNow, At, Published, Found, JobNow, TryBlock
<1>3. ~Ending(p) /\ job'[p].activated = Reports(p) /\ job'[p].cause = None
  BY <1>2, AccountEffect DEF JobInv, Ending
<1>4. Raise(p) => imp'[p].pc = "record"
  BY <1>1 DEF Raise, NewAttempt
<1>5. \/ /\ gate = "hold" \/ (gate = "activate" /\ rows[imp[p].rid].state = "active")
         /\ Goto(p, "cleanup")
      \/ /\ gate = "activate"
         /\ \E c : imp' = [imp EXCEPT ![p].pc = "activate", ![p].target = imp[p].rid, ![p].current = c]
  <2>1. ~Raise(p)
    BY <1>4
  <2> QED
    BY <2>1 DEF ReadBack
<1>6. CASE Goto(p, "cleanup") /\ (gate = "hold" \/ rows[imp[p].rid].state = "active")
  <2>1. imp'[p].pc = "cleanup" /\ imp'[p].rid = imp[p].rid
    BY <1>6, GotoFields
  <2>2. Reports(p) => rows[imp[p].rid].state = "active"
    <3>1. gate = "hold" /\ q.activate /\ Gate(FinalStatus(p), q) = "activate" => imp[p].wasActive
      OBVIOUS
    <3> HIDE DEF gate
    <3> QED
      BY <1>1, <1>2, <1>6, <3>1 DEF Reports, ReportsActive, At
  <2>3. job'[p].activated => IsActive(imp[p].rid)'
    BY <1>1, <1>2, <1>3, <2>1, <2>2 DEF IsActive, Exists, registryVars
  <2> QED
    BY <1>3, <2>1, <2>3 DEF JobNow, At, Recording
<1>7. ASSUME gate = "activate",
             NEW c, imp' = [imp EXCEPT ![p].pc = "activate", ![p].target = imp[p].rid,
                                       ![p].current = c]
      PROVE  JobNow(p)'
  <2>1. imp'[p].pc = "activate"
    BY <1>1, <1>7 DEF Attempt
  <2>2. ~imp[p].wasActive
    BY <1>7
  <2>3. ~Reports(p)
    BY <1>1, <1>2, <2>1, <2>2 DEF Reports, ReportsActive, At
  <2> QED
    BY <1>3, <2>1, <2>3 DEF JobNow, At, Recording
<1> HIDE DEF gate
<1> QED
  BY <1>5, <1>6, <1>7

\* Every step of a lone attempt leaves what its process has noted so.
LEMMA StepJob ==
    ASSUME Inv, SerialInv, JobInv, NEW p \in Importers, Live(p), ImportStep(p), Account(p, FALSE)
    PROVE  JobNow(p)'
<1>1. imp \in [Importers -> Attempt] /\ imp[p] \in Attempt /\ JobNow(p) /\ AttemptNow(p)
  BY DEF Inv, TypeOK, ImportTypeOK, JobInv, SerialInv
<1>2. CASE imp'[p].pc \in ImportEnded
  BY <1>2 DEF JobNow, ImportEnded, TryBlock, Recording, At
<1>3. CASE imp'[p].pc = "record" /\ imp[p].pc \in TryBlock
  <2>1. ~Ending(p)
    BY <1>3 DEF Ending, ImportEnded
  <2>2. job'[p].cause = Raised(p)
    BY <1>3, <2>1, RaiseIsEarned, AccountEffect DEF JobInv
  <2>3. Earned(p)'
    BY <1>3, <2>2, RaiseIsEarned DEF Earned, Critical
  <2> QED
    BY <1>3, <2>3 DEF JobNow, TryBlock, At
<1>4. CASE imp'[p].pc \notin ImportEnded \cup {"record"}
  <2>1. CASE SyncFamily(p) \/ OpenNewRelease(p) \/ OpenRelease(p) \/ SkipUnchanged(p)
    BY <1>4, <2>1, OpenJob
  <2>2. CASE ReadBack(p)
    BY <1>4, <2>2, ReadBackJob
  <2>3. Raise(p) => imp'[p].pc = "record"
    BY <1>1 DEF Raise, NewAttempt
  <2>4. CASE OpenRun(p) \/ PhaseA(p)
    <3>1. Goto(p, "runId") \/ Goto(p, "build")
      BY <1>4, <2>3, <2>4 DEF OpenRun, PhaseA
    <3>2. imp'[p].pc \in {"runId", "build"} /\ imp'[p].wasActive = imp[p].wasActive
      BY <3>1, GotoFields
    <3>3. imp[p].pc \in {"openRun", "stage"}
      BY <2>4 DEF OpenRun, PhaseA, At
    <3> QED
      BY <3>2, <3>3, QuietJob
  <2>4a. CASE ReadRunId(p)
    <3>1. imp' = [imp EXCEPT ![p].pc = "stage", ![p].runId = TRUE] /\ imp[p].pc = "runId"
      BY <1>4, <2>3, <2>4a DEF ReadRunId, At
    <3>2. imp'[p].pc = "stage" /\ imp'[p].wasActive = imp[p].wasActive
      BY <1>1, <3>1 DEF Attempt
    <3> QED
      BY <3>1, <3>2, QuietJob
  <2>5. CASE PhaseB1(p) \/ Swap(p)
    <3>1. /\ imp'[p].pc \in {"swap", "finalize"} /\ imp'[p].wasActive = imp[p].wasActive
          /\ imp[p].pc \in {"build", "swap"}
      BY <1>1, <2>5 DEF PhaseB1, Swap, At, Attempt
    <3> QED
      BY <3>1, QuietJob
  <2>6. CASE LockTimeout(p)
    <3>1. imp' = [imp EXCEPT ![p].tries = @ + 1] /\ imp[p].pc = "swap"
      BY <1>4, <2>3, <2>6 DEF LockTimeout, At
    <3>2. imp'[p].pc = "swap" /\ imp'[p].wasActive = imp[p].wasActive
      BY <1>1, <3>1 DEF Attempt
    <3> QED
      BY <3>1, <3>2, QuietJob
  <2>7. CASE Finalize(p)
    <3>1. /\ imp[p].pc = "finalize"
          /\ imp' = [imp EXCEPT ![p].pc = "finalizeCommit", ![p].target = imp[p].rid,
                                ![p].loaded = rows[imp[p].rid]]
      BY <1>4, <2>3, <2>7 DEF Finalize, At
    <3>2. imp'[p].pc = "finalizeCommit" /\ imp'[p].wasActive = imp[p].wasActive
      BY <1>1, <3>1 DEF Attempt
    <3> QED
      BY <3>1, <3>2, QuietJob
  <2>8. CASE FinalizeCommit(p)
    <3>1. /\ imp[p].pc = "finalizeCommit" /\ imp'[p].pc = "readBack"
          /\ imp'[p].wasActive = imp[p].wasActive
      BY <1>1, <2>8 DEF FinalizeCommit, At, Attempt
    <3> QED
      BY <3>1, QuietJob
  <2>9. CASE ActivateImported(p)
    <3>1. /\ rows' = WithActive(imp[p].target, imp[p].current)
          /\ ActivationCommits(imp[p].target, imp[p].current)
          /\ imp[p].pc \in {"activate", "skipActivate"}
          /\ imp' = [imp EXCEPT ![p].pc = IF At(p, "skipActivate") THEN "skipReport" ELSE "cleanup",
                                ![p].current = None]
      BY <2>9 DEF ActivateImported, At
    <3>2. /\ imp'[p].pc = IF At(p, "skipActivate") THEN "skipReport" ELSE "cleanup"
          /\ imp'[p].rid = imp[p].rid
      BY <1>1, <3>1 DEF Attempt
    <3>3. job'[p].cause = None
      BY <1>1, <1>4, <3>1, <3>2, AccountEffect DEF JobInv, Ending, JobNow, TryBlock
    <3>4. CASE At(p, "skipActivate")
      BY <3>2, <3>3, <3>4 DEF JobNow, At, Recording
    <3>5. CASE At(p, "activate")
      <4>1. imp[p].rid = imp[p].target /\ imp[p].target \in Ids /\ rows[imp[p].target] # None
        BY <1>1, <3>5 DEF AttemptNow, Published, Found, Exists
      <4>2. rows'[imp[p].target] # None /\ rows'[imp[p].target].state = "active"
        BY <3>1, <4>1, ActivationEffect
      <4>3. IsActive(imp[p].rid)'
        BY <3>2, <4>1, <4>2 DEF IsActive, Exists
      <4> QED
        BY <3>2, <3>3, <3>5, <4>3 DEF JobNow, At, Recording
    <3> QED
      BY <3>1, <3>4, <3>5 DEF At
  <2>10. CASE Record(p)
    <3>1. PICK i : imp' = [imp EXCEPT ![p].pc = "recordCommit", ![p].target = i,
                                      ![p].loaded = IF i = None THEN None ELSE rows[i]]
      BY <2>10 DEF Record
    <3>2. imp'[p].pc = "recordCommit" /\ imp'[p].req = imp[p].req /\ imp[p].pc = "record"
      BY <1>1, <2>10, <3>1 DEF Attempt, Record, At
    <3>3. job'[p].cause = job[p].cause
      BY <1>4, <3>2, AccountEffect DEF JobInv, Ending
    <3>4. Earned(p)'
      BY <1>1, <3>2, <3>3 DEF JobNow, Recording, Earned, Critical
    <3> QED
      BY <3>2, <3>4 DEF JobNow, At, TryBlock
  <2>11. CASE \/ RefuseActive(p) \/ OpenRunFails(p) \/ PhaseB1Fails(p) \/ SwapFails(p)
              \/ FinalizeCommitFails(p) \/ ActivateImportedFails(p)
    BY <1>4, <2>3, <2>11 DEF RefuseActive, OpenRunFails, PhaseB1Fails, SwapFails,
                             FinalizeCommitFails, ActivateImportedFails
  <2>11a. CASE ReportSkip(p)
    <3>1. Finish(p, "done")
      BY <1>4, <2>3, <2>11a DEF ReportSkip
    <3> QED
      BY <1>1, <1>4, <3>1 DEF Finish, NewAttempt, ImportEnded
  <2>12. CASE Cleanup(p) \/ RecordCommit(p) \/ RecordCommitFails(p)
    <3>1. Finish(p, "done") \/ Finish(p, "failed") \/ Unrecorded(p)
      BY <2>12 DEF Cleanup, RecordCommit, RecordCommitFails
    <3>2. imp'[p].pc \in {"done", "failed"}
      BY <1>1, <3>1 DEF Finish, Unrecorded, NewAttempt
    <3> QED
      BY <1>4, <3>2 DEF ImportEnded
  <2> QED
    BY <2>1, <2>2, <2>4, <2>4a, <2>5, <2>6, <2>7, <2>8, <2>9, <2>10, <2>11, <2>11a, <2>12
       DEF ImportStep
<1>5. imp'[p].pc = "record" => imp[p].pc \in TryBlock
  <2>1. CASE imp[p].pc \in Recording
    <3>1. Record(p) \/ RecordCommit(p) \/ RecordCommitFails(p)
      BY <2>1 DEF ImportStep, Recording, At, SyncFamily, OpenNewRelease, SkipUnchanged,
                  RefuseActive, OpenRelease, OpenRun, OpenRunFails, ReadRunId, ReportSkip, PhaseA,
                  PhaseB1, PhaseB1Fails, Swap, SwapFails, LockTimeout, Finalize, FinalizeCommit, FinalizeCommitFails,
                  ReadBack, ActivateImported, ActivateImportedFails, Cleanup
    <3>2. Record(p) => imp'[p].pc = "recordCommit"
      BY <1>1 DEF Record, Attempt
    <3>3. RecordCommit(p) \/ RecordCommitFails(p) => imp'[p].pc = "failed"
      BY <1>1 DEF RecordCommit, RecordCommitFails, Finish, Unrecorded, NewAttempt
    <3> QED
      BY <3>1, <3>2, <3>3
  <2> QED
    BY <2>1 DEF Live
<1> QED
  BY <1>2, <1>3, <1>4, <1>5

\* An error, a failure of the recorder and a kill.
LEMMA FaultJob ==
    ASSUME Inv, SerialInv, JobInv, NEW p \in Importers, ImportFault(p), Account(p, TRUE)
    PROVE  JobNow(p)'
<1>1. imp \in [Importers -> Attempt] /\ JobNow(p)
  BY DEF Inv, TypeOK, ImportTypeOK, JobInv
<1>2. CASE DatabaseError(p)
  <2>1. imp'[p].pc = "record" /\ imp[p].pc \in TryBlock
    BY <1>1, <1>2 DEF DatabaseError, Raise, NewAttempt
  <2>2. ~Ending(p)
    BY <2>1 DEF Ending, ImportEnded
  <2>3. job'[p].cause \in {"connect", "driver"}
    BY <2>1, <2>2, AccountEffect DEF JobInv
  <2> QED
    BY <2>1, <2>3 DEF JobNow, Earned, TryBlock, At
<1>3. CASE RecorderError(p) \/ Crash(p)
  <2>1. imp'[p].pc \in {"failed", "crashed"}
    BY <1>1, <1>3 DEF RecorderError, Crash, Unrecorded, Finish, NewAttempt
  <2> QED
    BY <2>1 DEF JobNow, ImportEnded, TryBlock, Recording, At
<1> QED
  BY <1>2, <1>3 DEF ImportFault

\* Every step of the system with its jobs keeps the invariant.
LEMMA NextJob ==
    ASSUME Exclusive, Inv, SerialInv, JobInv, [JobNext]_jobVars
    PROVE  JobInv'
<1>1. ASSUME NEW p \in Importers, MayStart, BeginImport(p), UNCHANGED <<ops, job>>
      PROVE  JobInv'
  <2>1. \A q \in Importers : ~Live(q)
    BY <1>1 DEF MayStart
  <2>2. \A q \in Importers \ {p} : imp'[q] = imp[q]
    BY <1>1, OneMoves
  <2>3. imp[p].pc = "idle" /\ imp'[p].pc = "sync"
    BY <1>1 DEF BeginImport, At, Inv, TypeOK, ImportTypeOK, Attempt
  <2>4. JobNow(p)'
    BY <1>1, <2>3 DEF JobInv, JobNow, At, Recording
  <2>5. \A q \in Importers : JobNow(q)'
    BY <1>1, <2>1, <2>2, <2>4, RestingJob DEF JobInv
  <2> QED
    BY <1>1, <2>5 DEF JobInv
<1>2. ASSUME NEW p \in Importers, Importer(p), Account(p, FALSE)
      PROVE  JobInv'
  BY <1>2, StepperIsLive, StepJob, JobFrame DEF Importer
<1>3. ASSUME NEW p \in Importers, ImportFault(p), Account(p, TRUE)
      PROVE  JobInv'
  BY <1>3, StepperIsLive, FaultJob, JobFrame
<1>4. ASSUME NEW o \in Operators, UNCHANGED <<imp, job>>,
             MayStart \/ OperatorStep(o) \/ Interrupt(o)
      PROVE  JobInv'
  <2>1. \A q \in Importers : ~Live(q)
    BY <1>4, CommanderIsBusy, AtWorkAlone DEF MayStart, OnlyCommand
  <2>2. \A q \in Importers : JobNow(q)'
    BY <1>4, <2>1, RestingJob DEF JobInv
  <2> QED
    BY <1>4, <2>2 DEF JobInv
<1>5. CASE UNCHANGED <<rows, imp, job>>
  BY <1>5 DEF JobInv, JobNow, Earned, IsActive, Exists, At
<1> QED
  BY <1>1, <1>2, <1>3, <1>4, <1>5
     DEF JobNext, jobVars, vars, registryVars, Operator, LockHolder, Hold, Unhold, Rest

\* The job only looks on.
LEMMA JobRefines ==
    ASSUME [JobNext]_jobVars
    PROVE  [Next]_vars
BY DEF JobNext, Next, jobVars

-----------------------------------------------------------------------------
(* The theorems                                                            *)

\* The import that a Job or a shell runs is the import of Lifecycle.
THEOREM JobImplementsLifecycle == JobSpec => Spec
<1>1. JobInit => Init
  BY DEF JobInit
<1>2. [JobNext]_jobVars => [Next]_vars
  BY JobRefines
<1> QED
  BY <1>1, <1>2, PTL DEF JobSpec, Spec

\* What the process of an attempt has noted is so.
THEOREM JobInvariance ==
    ASSUME Exclusive
    PROVE  JobSpec => []JobInv
<1>1. JobInit => JobInv
  BY DEF JobInit, JobInv, JobNow, NewJob, Job, Init, ImportInit, NewAttempt, TryBlock, Recording, At
<1>2. Inv /\ SerialInv /\ JobInv /\ [JobNext]_jobVars => JobInv'
  BY NextJob
<1> QED
  BY <1>1, <1>2, Invariance, SerialInvariance, JobImplementsLifecycle, PTL DEF JobSpec

-----------------------------------------------------------------------------
(* What the exit code tells                                                *)

\* How an import can be done.
LEMMA DoneStep ==
    ASSUME Inv, NEW p \in Importers, ImportStep(p), imp'[p].pc = "done"
    PROVE  \/ /\ At(p, "open") /\ UNCHANGED registryVars
              /\ \E i \in IdsNamed(imp[p].req.name) : Unchanged(rows[i], imp[p].req)
           \/ At(p, "skipReport") /\ UNCHANGED registryVars
           \/ At(p, "cleanup") /\ UNCHANGED <<rows, partition>>
<1>1. imp \in [Importers -> Attempt] /\ imp[p] \in Attempt
  BY DEF Inv, TypeOK, ImportTypeOK
<1>2. ~Raise(p) /\ ~Unrecorded(p) /\ ~Finish(p, "failed")
  BY <1>1 DEF Raise, Unrecorded, Finish, NewAttempt
<1>3. ~Goto(p, "open") /\ ~Goto(p, "runId") /\ ~Goto(p, "build") /\ ~Goto(p, "cleanup")
  BY GotoFields
<1>4. CASE SkipUnchanged(p) \/ ReportSkip(p) \/ Cleanup(p)
  BY <1>4 DEF SkipUnchanged, ReportSkip, Cleanup
<1>5. ~ActivateImported(p) /\ ~ReadRunId(p)
  <2>1. \A l : imp' = [imp EXCEPT ![p].pc = l, ![p].current = None] => imp'[p].pc = l
    BY <1>1 DEF Attempt
  <2>2. imp' = [imp EXCEPT ![p].pc = "stage", ![p].runId = TRUE] => imp'[p].pc = "stage"
    BY <1>1 DEF Attempt
  <2> QED
    BY <1>2, <2>1, <2>2 DEF ActivateImported, ReadRunId
<1>6. ~SyncFamily(p) /\ ~OpenRun(p) /\ ~PhaseA(p) /\ ~RefuseActive(p) /\ ~OpenRunFails(p)
      /\ ~PhaseB1Fails(p) /\ ~SwapFails(p) /\ ~FinalizeCommitFails(p)
      /\ ~ActivateImportedFails(p) /\ ~RecordCommit(p) /\ ~RecordCommitFails(p)
  BY <1>2, <1>3 DEF SyncFamily, OpenRun, PhaseA, RefuseActive, OpenRunFails, PhaseB1Fails,
                    SwapFails, FinalizeCommitFails, ActivateImportedFails, RecordCommit,
                    RecordCommitFails
<1>7. ~OpenNewRelease(p) /\ ~PhaseB1(p) /\ ~Swap(p) /\ ~FinalizeCommit(p)
  BY <1>1 DEF OpenNewRelease, PhaseB1, Swap, FinalizeCommit, Attempt
<1>8. ~OpenRelease(p)
  <2>1. ASSUME NEW i, NEW w,
               imp' = [imp EXCEPT ![p].pc = "openRun", ![p].rid = i, ![p].wasActive = w]
        PROVE  FALSE
    BY <1>1, <2>1 DEF Attempt
  <2> QED
    BY <2>1 DEF OpenRelease
<1>9. ~LockTimeout(p)
  <2>1. imp' = [imp EXCEPT ![p].tries = @ + 1] => imp'[p].pc = imp[p].pc
    BY <1>1 DEF Attempt
  <2> QED
    BY <1>2, <2>1 DEF LockTimeout, At
<1>10. ~Finalize(p)
  <2>1. imp' # [imp EXCEPT ![p].pc = "finalizeCommit", ![p].target = imp[p].rid,
                           ![p].loaded = rows[imp[p].rid]]
    BY <1>1 DEF Attempt
  <2> QED
    BY <1>2, <2>1 DEF Finalize
<1>11. ~ReadBack(p)
  <2>1. ASSUME NEW c, imp' = [imp EXCEPT ![p].pc = "activate", ![p].target = imp[p].rid,
                                         ![p].current = c]
        PROVE  FALSE
    BY <1>1, <2>1 DEF Attempt
  <2> QED
    BY <1>2, <1>3, <2>1 DEF ReadBack
<1>12. ~Record(p)
  <2>1. ASSUME NEW i, NEW r,
               imp' = [imp EXCEPT ![p].pc = "recordCommit", ![p].target = i, ![p].loaded = r]
        PROVE  FALSE
    BY <1>1, <2>1 DEF Attempt
  <2> QED
    BY <2>1 DEF Record
<1> QED
  BY <1>4, <1>5, <1>6, <1>7, <1>8, <1>9, <1>10, <1>11, <1>12 DEF ImportStep

\* A process that exits has ended its attempt in that step.
LEMMA ExitIsEnd ==
    ASSUME Inv, SerialInv, JobInv, [JobNext]_jobVars, NEW p \in Importers,
           NEW code \in {0, 1}, Exits(p, code)
    PROVE  /\ Live(p) /\ Ending(p)
           /\ \/ ImportStep(p) /\ Account(p, FALSE)
              \/ ImportFault(p) /\ Account(p, TRUE)
<1>1. job'[p] # job[p]
  BY JobAssumption DEF Exits
<1>2. PICK q \in Importers, fault \in BOOLEAN :
         /\ Account(q, fault)
         /\ (ImportStep(q) /\ fault = FALSE) \/ (ImportFault(q) /\ fault = TRUE)
  BY <1>1 DEF JobNext, jobVars, Importer
<1>3. p = q
  BY <1>1, <1>2, AccountEffect DEF JobInv
<1>4. Ending(p)
  <2>1. ASSUME ~Ending(p)
        PROVE  job'[p].exit = job[p].exit
    BY <1>2, <1>3, <2>1, AccountEffect DEF JobInv
  <2> QED
    BY <2>1, JobAssumption DEF Exits
<1> QED
  BY <1>2, <1>3, <1>4, StepperIsLive

\* A process that exits 0 is one whose import is done, and reports what it was
\* asked to report.
LEMMA ExitZero ==
    ASSUME Inv, SerialInv, JobInv, [JobNext]_jobVars, NEW p \in Importers, Exits(p, 0)
    PROVE  /\ Live(p) /\ ImportStep(p) /\ imp'[p].pc = "done"
           /\ imp[p].req.activate => Reports(p)
<1>1. PICK fault \in BOOLEAN :
         /\ Live(p) /\ Ending(p) /\ Account(p, fault)
         /\ (ImportStep(p) /\ fault = FALSE) \/ (ImportFault(p) /\ fault = TRUE)
  BY ExitIsEnd
<1>2. job'[p].exit = CASE imp'[p].pc = "done" -> ExitOf(p, Reports(p))
                       [] imp'[p].pc = "failed" -> ExitOfFailure
                       [] OTHER -> Killed
  BY <1>1, AccountEffect DEF JobInv
<1>3. imp'[p].pc = "done" /\ ExitOf(p, Reports(p)) = 0
  BY <1>1, <1>2 DEF Exits, Ending, ImportEnded, ExitOfFailure, Killed
<1>4. ImportFault(p) => imp'[p].pc # "done"
  BY DEF ImportFault, DatabaseError, RecorderError, Crash, Raise, Unrecorded, Finish, NewAttempt,
         Inv, TypeOK, ImportTypeOK
<1> QED
  BY <1>1, <1>3, <1>4 DEF ExitOf

\* Where a release is done with --activate, it is ACTIVE.
LEMMA DoneIsActive ==
    ASSUME Inv, SerialInv, JobInv, [JobNext]_jobVars, NEW p \in Importers, Exits(p, 0),
           imp[p].req.activate
    PROVE  \E i \in LeftNamed(imp[p].req.name) : rows'[i].state = "active"
<1> DEFINE q == imp[p].req
<1>1. Live(p) /\ ImportStep(p) /\ imp'[p].pc = "done" /\ Reports(p) /\ JobNow(p) /\ AttemptNow(p)
  BY ExitZero DEF JobInv, SerialInv
<1>2. CASE At(p, "open") /\ UNCHANGED registryVars
  <2>1. \E i \in IdsNamed(q.name) : IsActive(i)
    BY <1>1, <1>2 DEF Reports, ReportsActive, JobNow, At
  <2> QED
    BY <1>2, <2>1 DEF IdsNamed, IsActive, Exists, LeftNamed, registryVars
<1>3. CASE At(p, "skipReport") /\ UNCHANGED registryVars
  BY <1>1, <1>3 DEF AttemptNow, Found, Exists, LeftNamed, registryVars
<1>4. CASE At(p, "cleanup") /\ UNCHANGED <<rows, partition>>
  <2>1. IsActive(imp[p].rid) /\ Published(p)
    BY <1>1, <1>4 DEF Reports, ReportsActive, JobNow, AttemptNow, At
  <2> QED
    BY <1>4, <2>1 DEF IsActive, Exists, Published, Found, LeftNamed
<1> QED
  BY <1>1, <1>2, <1>3, <1>4, DoneStep

\* A built release with the checksum of a tree serves it.
LEMMA ChecksumIsServed ==
    ASSUME Inv, SerialInv, NEW i \in Ids, Exists(i), rows[i].state \in Built
    PROVE  \/ partition[i] = rows[i].checksum
           \/ UnaccountedSwap(i)
           \/ RemovalUnderWay(i)
BY DEF Inv, RowsOK, Kept, SerialInv, RowsAreDescribed, RowDescribesPartition

\* Where an import is done, its tree is served.
LEMMA DoneIsServed ==
    ASSUME Inv, SerialInv, JobInv, [JobNext]_jobVars, NEW p \in Importers, Exits(p, 0)
    PROVE  \E i \in LeftNamed(imp[p].req.name) :
              \/ partition'[i] = imp[p].req.src
              \/ UnaccountedSwap(i)
              \/ RemovalUnderWay(i)
<1> DEFINE q == imp[p].req
<1>1. Live(p) /\ ImportStep(p) /\ imp'[p].pc = "done" /\ AttemptNow(p)
  BY ExitZero DEF SerialInv
<1>2. CASE At(p, "open") /\ UNCHANGED registryVars
           /\ \E i \in IdsNamed(q.name) : Unchanged(rows[i], q)
  <2>1. PICK i \in IdsNamed(q.name) : Unchanged(rows[i], q)
    BY <1>2
  <2>2. /\ i \in Ids /\ Exists(i) /\ rows[i].name = q.name /\ rows[i].state \in Built
        /\ rows[i].checksum = q.src
    BY <2>1 DEF IdsNamed, Unchanged, IsBuilt
  <2> QED
    BY <1>2, <2>2, ChecksumIsServed DEF LeftNamed, registryVars, Exists
<1>3. CASE At(p, "skipReport") /\ UNCHANGED registryVars
  <2> DEFINE i == imp[p].target
  <2>1. /\ i \in Ids /\ Exists(i) /\ rows[i].name = q.name /\ rows[i].state \in Built
        /\ rows[i].checksum = q.src
    BY <1>1, <1>3 DEF AttemptNow, Found, Built
  <2> QED
    BY <1>3, <2>1, ChecksumIsServed DEF LeftNamed, Exists, registryVars
<1>4. CASE At(p, "cleanup") /\ UNCHANGED <<rows, partition>>
  BY <1>1, <1>4 DEF AttemptNow, Published, Found, Exists, LeftNamed
<1> QED
  BY <1>1, <1>2, <1>3, <1>4, DoneStep

\* An attempt that fails is in its except branch, or has a release left READY
\* that it was to activate.
LEMMA FailureHasCause ==
    ASSUME Inv, SerialInv, JobInv, [JobNext]_jobVars, NEW p \in Importers, Exits(p, 1),
           job[p].cause # None
    PROVE  Earned(p)
<1>1. Live(p) /\ JobNow(p)
  BY ExitIsEnd DEF JobInv
<1> QED
  BY <1>1 DEF JobNow, Live

\* An import that exits 0 with --activate has left its release ACTIVE, on
\* every path.
THEOREM ExitZeroActivates ==
    ASSUME Exclusive
    PROVE  JobSpec => ExitZeroMeansActive
<1>1. Inv /\ SerialInv /\ JobInv /\ [JobNext]_jobVars =>
         [\A p \in Importers :
             Exits(p, 0) /\ imp[p].req.activate
               => \E i \in LeftNamed(imp[p].req.name) : rows'[i].state = "active"]_jobVars
  BY DoneIsActive
<1> QED
  BY <1>1, Invariance, SerialInvariance, JobInvariance, JobImplementsLifecycle, PTL
     DEF JobSpec, ExitZeroMeansActive

\* An import that exits 0 has left its release with the rows of its tree, but
\* for what an attempt or a removal that was cut short explains.
THEOREM ExitZeroServes ==
    ASSUME Exclusive
    PROVE  JobSpec => ExitZeroMeansServed
<1>1. Inv /\ SerialInv /\ JobInv /\ [JobNext]_jobVars =>
         [\A p \in Importers :
             Exits(p, 0)
               => \E i \in LeftNamed(imp[p].req.name) :
                     \/ partition'[i] = imp[p].req.src
                     \/ UnaccountedSwap(i)
                     \/ RemovalUnderWay(i)]_jobVars
  BY DoneIsServed
<1> QED
  BY <1>1, Invariance, SerialInvariance, JobInvariance, JobImplementsLifecycle, PTL
     DEF JobSpec, ExitZeroMeansServed

\* Nothing that killed and failed attempts leave behind makes a later one fail.
THEOREM FailuresAreEarned ==
    ASSUME Exclusive
    PROVE  JobSpec => FailureIsEarned
<1>1. Inv /\ SerialInv /\ JobInv /\ [JobNext]_jobVars =>
         [\A p \in Importers :
             Exits(p, 1) /\ job[p].cause \notin {None, "driver", "connect", "lock"}
               => \/ job[p].cause = "critical" /\ Critical(imp[p].req.src)
                  \/ job[p].cause = "active" /\ imp[p].req.mode # "force"]_jobVars
  BY FailureHasCause DEF Earned
<1> QED
  BY <1>1, Invariance, SerialInvariance, JobInvariance, JobImplementsLifecycle, PTL
     DEF JobSpec, FailureIsEarned
=============================================================================
