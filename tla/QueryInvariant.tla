--------------------------- MODULE QueryInvariant ---------------------------
(***************************************************************************)
(* The inductive invariant of QueryEngine: whose connection it is, what    *)
(* has become of each input of a batch so far, and what an answer is.      *)
(***************************************************************************)
EXTENDS QueryEngine

WorldOK == \E w \in Worlds : setup = w.setup /\ parent = w.parent

ConnectionOK ==
    connection # None =>
        \/ \E role \in CatalogRoles : connection = Session(ConfigFor(setup, role))
        \/ \E default \in Defaults : connection = Session(ReaderConfig(setup, default))

\* Each input taken so far is in the temporary table or, once, among the skipped.
StreamOK ==
    LET q == call.q  done == Taken(q) \ call.left IN
    /\ q \in Batches
    /\ answer = None
    /\ call.left \subseteq Taken(q)
    /\ call.uploaded = {k \in done : ValidInput(q.inputs[k])}
    /\ call.skipped \in Seq(Nat) /\ IsInjective(call.skipped)
    /\ ToSet(call.skipped) = {k \in done : ~ValidInput(q.inputs[k])}

CallOK ==
    /\ call = [pc |-> call.pc, q |-> call.q, left |-> call.left, uploaded |-> call.uploaded,
               skipped |-> call.skipped]
    /\ call.pc \in {"idle", "cone", "lookup", "stream", "batch"}
    /\ IF call.pc = "stream" THEN StreamOK ELSE call.uploaded = {}
    /\ call.pc = "idle" => answer = None

AnswerOK ==
    /\ answer # None => answer.error \in {None, "refused", "misconfigured"}
    /\ SearchIsReference
    /\ BatchAgreesWithCone
    /\ EveryInputAnswered
    /\ BatchIsOrdered

QueryInv == WorldOK /\ ConnectionOK /\ CallOK /\ AnswerOK
=============================================================================
