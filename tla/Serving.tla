------------------------------- MODULE Serving -------------------------------
(***************************************************************************)
(* Queries while the registry changes: the threads of a CatalogReader next *)
(* to the import attempts and operator commands of Lifecycle.  The two     *)
(* share the registry and the partitions and nothing else; a change is not *)
(* announced to a reader.                                                  *)
(***************************************************************************)
EXTENDS Lifecycle, CatalogReader

VARIABLES
    during \* history: the releases ACTIVE at some moment of t's call

servingVars == <<vars, readerVars, during>>

ServingInit ==
    /\ Init
    /\ ReaderInit
    /\ during = [t \in Threads |-> {}]

InCall(t) == reads[t].pc \notin {"idle", "done"}

\* What a change of the registry means to calls in progress.
Notice ==
    during' = [t \in Threads |->
                 IF InCall(t) THEN during[t] \cup ActiveIds(CallOf(t).family)'
                              ELSE during[t]]

Begin(t) ==
    /\ StartCall(t)
    /\ UNCHANGED vars
    /\ during' = [during EXCEPT ![t] = ActiveIds(CallOf(t).family)']

\* A SELECT stands in the queue for the data table behind a DETACH that waits.
Read(t) ==
    /\ In(t, "query") => ~Queued(CallOf(t).family)
    /\ ReadStep(t)
    /\ UNCHANGED <<vars, during>>

ServingNext ==
    \/ Next /\ UNCHANGED readerVars /\ Notice
    \/ \E t \in Threads : Begin(t) \/ Read(t)
    \/ \E f \in Families : (Invalidate(f) \/ Expire(f)) /\ UNCHANGED <<vars, during>>
    \/ (Close \/ CloseCache) /\ UNCHANGED <<vars, during>>

ServingSpec == ServingInit /\ [][ServingNext]_servingVars

\* A call in progress proceeds, and time passes.  Nobody has to call, and
\* nobody has to invalidate.
ServingFairness ==
    /\ \A t \in Threads : WF_servingVars(Read(t))
    /\ \A f \in Families : WF_servingVars(Expire(f) /\ UNCHANGED <<vars, during>>)

FairServingSpec == ServingSpec /\ ServingFairness

-----------------------------------------------------------------------------
\* Every variable of the reader keeps its type.
ServingTypeOK == ReaderTypeOK /\ during \in [Threads -> SUBSET Ids]

\* However stale the cache is, a query of the active release is answered from
\* a release that was ACTIVE at some moment between its call and its answer.
AnsweredFromActive ==
    \A t \in Threads :
        /\ In(t, "done")
        /\ CallOf(t).release = None
        /\ reads[t].out \in Sources \cup {"empty"}
        => reads[t].id \in during[t]

\* The lazily created engine is shared: however first uses and close() race,
\* an engine the reader created is the one it would return, or close() has
\* disposed it.  None is overwritten and forgotten with the connections of its
\* pool open.  What a call in progress opens on an engine that close() disposed
\* under it is beyond this.
OneEngine == (1..created) \ disposed \subseteq {engine}

\* Only such a call in progress works on a disposed engine: one that begins
\* after close() has disposed an engine never reads it, neither for its query
\* nor for the session that resolves.
NoDisposedEngine == \A t \in Threads : reads[t].engines \cap reads[t].past = {}

\* Once activations stop, every reader comes to query the active release, with
\* no call to invalidate: stale entries run out.
EventuallyCurrent ==
    \A t \in Threads :
        <>[](In(t, "validate") /\ CallOf(t).release = None
                => reads[t].id \in ActiveIds(CallOf(t).family))

-----------------------------------------------------------------------------
(* What the documentation says and the code does not keep                  *)

\* "Query calls re-check cached release handles before using them, so a stale
\* active-release cache raises CatalogQueryError instead of returning a false
\* empty result" (api-stability.md:26).  A removal commits the drop of the
\* partition after the re-check and before the SELECT, or long before it
\* deletes the row that the re-check looks at.
NoFalseEmpty ==
    \A t \in Threads :
        In(t, "done") /\ CallOf(t).via = "reader" /\ CallOf(t).release = None
            => reads[t].out # "empty"
=============================================================================
