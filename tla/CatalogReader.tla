---------------------------- MODULE CatalogReader ----------------------------
(***************************************************************************)
(* The read path: skycat/client.py, an engine and a cache of active        *)
(* releases shared by the threads of an application, over                  *)
(* resolve_release_for_query() and validate_resolved_release_for_query()   *)
(* of query/cone.py.  cone(), lookup() and crossmatch() take the same      *)
(* steps, and so does a thread that calls cone_search() and its like with  *)
(* neither engine nor resolved, as the CLI does ("direct").                *)
(*                                                                         *)
(* A step is a registry read in a session of its own, a critical section   *)
(* of a lock, or one read of the unlocked attribute _engine.  What a query *)
(* selects is left out: its answer is the contents of the partition it     *)
(* reads.  Time is left out too: a cached release expires in a step of its *)
(* own, which may come at any moment.                                      *)
(***************************************************************************)
EXTENDS Registry

CONSTANTS
    Threads,   \* the threads that share one reader
    Calls,     \* what they ask
    MaxCloses  \* bound: close() calls

\* release is None for the active release of the family.
Call == [via: {"reader", "direct"}, family: Families, release: Names \cup {None}]

ASSUME ReaderAssumption ==
    /\ Calls \subseteq Call
    /\ MaxCloses \in Nat
    /\ None \notin Call \cup Nat \cup {"refused", "unbound", "empty"}
    /\ Sources \cap {"refused", "unbound", "empty"} = {}

VARIABLES
    reads,    \* reads[t]: where thread t is in its call, and its locals
    cache,    \* _cache: the active release of a family, and whether it expired
    engine,   \* _engine: the engine of the reader, by number, or None
    created,  \* how many engines it has created
    disposed, \* history: the engines close() has disposed
    closing,  \* close() has dropped the engine and not yet the cache
    closes    \* how often it was called

sharedVars == <<cache, engine, created, disposed, closing, closes>>
readerVars == <<reads, sharedVars>>

Engines == 1..(MaxCloses + 1)

Reading ==
    [pc: {"idle", "engine", "create", "return", "cache", "resolve", "store",
          "validate", "query", "done"},
     call: Call \cup {None},
     session: BOOLEAN,          \* the engine is wanted for the resolving session
     engines: SUBSET Engines,   \* the engines the call works on
     past: SUBSET Engines,      \* history: those disposed before it began
     id: Ids \cup {None},       \* the resolved release
     out: Sources \cup {None, "empty", "refused", "unbound"}]

Entry == [id: Ids, fresh: BOOLEAN]

ReaderTypeOK ==
    /\ reads \in [Threads -> Reading]
    /\ cache \in [Families -> Entry \cup {None}]
    /\ engine \in Engines \cup {None}
    /\ created \in 0..(MaxCloses + 1)
    /\ disposed \subseteq Engines
    /\ closing \in BOOLEAN
    /\ closes \in 0..MaxCloses

NewReading == [pc |-> "idle", call |-> None, session |-> FALSE, engines |-> {},
               past |-> {}, id |-> None, out |-> None]

ReaderInit ==
    /\ reads = [t \in Threads |-> NewReading]
    /\ cache = [f \in Families |-> None]
    /\ engine = None
    /\ created = 0
    /\ disposed = {}
    /\ closing = FALSE
    /\ closes = 0

In(t, l) == reads[t].pc = l
Move(t, l) == reads' = [reads EXCEPT ![t].pc = l]

\* An answer, or an exception ("refused" is a CatalogQueryError).
Answer(t, out) ==
    reads' = [reads EXCEPT ![t] = [NewReading EXCEPT
                !.pc = "done", !.call = reads[t].call, !.id = reads[t].id,
                !.out = out]]

CallOf(t) == reads[t].call

\* engine=self.engine is evaluated before resolved=self._resolve(...).
StartCall(t) ==
    /\ In(t, "idle")
    /\ \E c \in Calls :
          reads' = [reads EXCEPT
              ![t].pc = IF c.via = "reader" THEN "engine" ELSE "resolve",
              ![t].call = c, ![t].past = disposed]
    /\ UNCHANGED sharedVars

\* The caller takes the answer and may call again.
Return(t) ==
    /\ In(t, "done")
    /\ reads' = [reads EXCEPT ![t] = NewReading]
    /\ UNCHANGED sharedVars

-----------------------------------------------------------------------------
(* The engine property                                                     *)

\* The first test of _engine, outside the lock.
FindEngine(t) ==
    /\ In(t, "engine")
    /\ Move(t, IF engine = None THEN "create" ELSE "return")
    /\ UNCHANGED sharedVars

\* Mutant of CreateEngine: no second test under the lock.
CreateUnchecked(t) ==
    /\ In(t, "create")
    /\ engine' = created + 1
    /\ created' = created + 1
    /\ Move(t, "return")
    /\ UNCHANGED <<cache, disposed, closing, closes>>

\* The second test, and the creation, under _engine_lock.
CreateEngine(t) ==
    /\ In(t, "create")
    /\ IF engine = None
       THEN engine' = created + 1 /\ created' = created + 1
       ELSE UNCHANGED <<engine, created>>
    /\ Move(t, "return")
    /\ UNCHANGED <<cache, disposed, closing, closes>>

\* Where the engine= argument leads, and then the engine of the session.
AfterEngine(t) ==
    IF reads[t].session THEN "resolve"
    ELSE IF CallOf(t).release = None THEN "cache" ELSE "engine"

\* return self._engine is another read.  A session over no engine raises; a
\* query that is given none makes one of its own and disposes it.
ReturnEngine(t) ==
    /\ In(t, "return")
    /\ IF reads[t].session /\ engine = None
       THEN Answer(t, "unbound")
       ELSE reads' = [reads EXCEPT ![t].engines = @ \cup ({engine} \ {None}),
                                   ![t].session = TRUE,
                                   ![t].pc = AfterEngine(t)]
    /\ UNCHANGED sharedVars

-----------------------------------------------------------------------------
(* Resolving the release                                                   *)

\* Mutant of Hit: a cached release never expires.
HitForever(f) == cache[f] # None

Hit(f) == cache[f] # None /\ cache[f].fresh

\* A miss needs the engine again, for the session that resolves.
LookInCache(t) ==
    LET f == CallOf(t).family IN
    /\ In(t, "cache")
    /\ reads' = IF Hit(f)
                THEN [reads EXCEPT ![t].pc = "validate", ![t].id = cache[f].id]
                ELSE [reads EXCEPT ![t].pc = "engine"]
    /\ UNCHANGED sharedVars

\* What a call may be answered from: a row in a built state, the active one
\* unless the call names a release, with a production_table.
Queryable(i, call) ==
    /\ Exists(i)
    /\ call.release = None => rows[i].state = "active"
    /\ rows[i].state \in Built
    /\ rows[i].table

Candidates(call) ==
    IF call.release = None THEN ActiveIds(call.family) ELSE IdsNamed(call.release)

\* The registry lookup: of a reader it is followed by the check of the query,
\* of a direct call by the query itself.
Resolve(t) ==
    LET call == CallOf(t)  found == Candidates(call) IN
    /\ In(t, "resolve")
    /\ \/ \E i \in found :
             IF Queryable(i, call)
             THEN reads' = [reads EXCEPT
                      ![t].id = i,
                      ![t].pc = IF call.via = "direct" THEN "query"
                                ELSE IF call.release = None THEN "store"
                                ELSE "validate"]
             ELSE Answer(t, "refused")
       \/ found = {} /\ Answer(t, "refused")
    /\ UNCHANGED sharedVars

\* The entry is stored under the lock, whatever happened since it was read.
Store(t) ==
    /\ In(t, "store")
    /\ cache' = [cache EXCEPT ![CallOf(t).family] = [id |-> reads[t].id, fresh |-> TRUE]]
    /\ Move(t, "validate")
    /\ UNCHANGED <<engine, created, disposed, closing, closes>>

\* Mutant of ValidateResolved: the cached release is used as it is.
UseResolved(t) ==
    /\ In(t, "validate")
    /\ Move(t, "query")
    /\ UNCHANGED sharedVars

\* The re-check of a resolved release, in a session of its own.
ValidateResolved(t) ==
    /\ In(t, "validate")
    /\ IF Queryable(reads[t].id, CallOf(t)) THEN Move(t, "query")
                                           ELSE Answer(t, "refused")
    /\ UNCHANGED sharedVars

\* The SELECT, on a connection of its own, on the parent table: the rows of a
\* release without a partition are none.
Query(t) ==
    LET rows_of == partition[reads[t].id] IN
    /\ In(t, "query")
    /\ Answer(t, IF rows_of = None THEN "empty" ELSE rows_of)
    /\ UNCHANGED sharedVars

-----------------------------------------------------------------------------
(* The cache and the end of a reader                                       *)

\* release_cache_ttl_s seconds have passed since the entry was stored.
Expire(f) ==
    /\ Hit(f)
    /\ cache' = [cache EXCEPT ![f].fresh = FALSE]
    /\ UNCHANGED <<reads, engine, created, disposed, closing, closes>>

Invalidate(f) ==
    /\ cache[f] # None
    /\ cache' = [cache EXCEPT ![f] = None]
    /\ UNCHANGED <<reads, engine, created, disposed, closing, closes>>

\* Mutant of Close: the engine is disposed and not dropped.
CloseKeepingEngine ==
    /\ ~closing
    /\ closes < MaxCloses
    /\ closing' = TRUE
    /\ closes' = closes + 1
    /\ disposed' = disposed \cup ({engine} \ {None})
    /\ UNCHANGED <<reads, cache, engine, created>>

\* close(): the engine goes under its lock, and then the cache under its own.
\* A reader that was closed opens again when it is used.  dispose() closes the
\* idle connections and gives the engine a new pool: a call in progress that
\* has read the engine goes on with it, and what it opens nobody disposes.
Close ==
    /\ ~closing
    /\ closes < MaxCloses
    /\ closing' = TRUE
    /\ closes' = closes + 1
    /\ engine' = None
    /\ disposed' = disposed \cup ({engine} \ {None})
    /\ UNCHANGED <<reads, cache, created>>

CloseCache ==
    /\ closing
    /\ closing' = FALSE
    /\ cache' = [f \in Families |-> None]
    /\ UNCHANGED <<reads, engine, created, disposed, closes>>

ReadStep(t) ==
    \/ FindEngine(t) \/ CreateEngine(t) \/ ReturnEngine(t) \/ LookInCache(t)
    \/ Resolve(t) \/ Store(t) \/ ValidateResolved(t) \/ Query(t) \/ Return(t)
=============================================================================
