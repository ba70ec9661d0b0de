-------------------------- MODULE ServingInvariant --------------------------
(***************************************************************************)
(* The inductive invariant of Serving, which ServingProofs proves and TLC  *)
(* checks first.  It says what a reader may still conclude from an id it   *)
(* has cached or resolved after the registry has moved on.                 *)
(***************************************************************************)
EXTENDS Serving, LifecycleInvariant

\* i was a release of f when it was read.  Its row may have been removed, but
\* no row of another family can have taken its place.
WasOf(i, f) == i \in Ids /\ Issued(i) /\ (Exists(i) => FamilyOfId(i) = f)

\* No engine is created while one is there, and only close() takes it away,
\* for good: engines are numbered as they are created.
EnginesOK ==
    /\ created <= closes + (IF engine = None THEN 0 ELSE 1)
    /\ engine # None => engine <= created /\ engine \notin disposed
    /\ disposed \subseteq 1..created
    /\ OneEngine

CacheOK == \A f \in Families : cache[f] # None => WasOf(cache[f].id, f)

\* What thread t may rely on at each step of its call.
ThreadOK(t) ==
    /\ reads[t].past \subseteq disposed
    /\ reads[t].engines \cap reads[t].past = {}
    /\ ~InCall(t) => reads[t].engines = {}
    /\ InCall(t) =>
          /\ CallOf(t) \in Calls
          /\ ActiveIds(CallOf(t).family) \subseteq during[t]
    /\ reads[t].pc \in {"store", "validate", "query"} => reads[t].id \in Ids
    /\ In(t, "store") => CallOf(t).release = None
    /\ reads[t].pc \in {"store", "validate"} /\ CallOf(t).release = None
          => WasOf(reads[t].id, CallOf(t).family)
    /\ In(t, "query") /\ CallOf(t).release = None => reads[t].id \in during[t]
    /\ /\ In(t, "done")
       /\ CallOf(t).release = None
       /\ reads[t].out \in Sources \cup {"empty"}
       => reads[t].id \in during[t]

ServingInv ==
    /\ Inv
    /\ ServingTypeOK
    /\ EnginesOK
    /\ CacheOK
    /\ \A t \in Threads : ThreadOK(t)
=============================================================================
