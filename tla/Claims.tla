------------------------------- MODULE Claims -------------------------------
(***************************************************************************)
(* What the repository says of the release lifecycle, in its comments and  *)
(* its documentation, and the code does not keep: each property is refuted *)
(* by a run of its own.  The first fails when two attempts overlap, the    *)
(* second in complete commands one after the other.                        *)
(***************************************************************************)
EXTENDS Lifecycle

\* "Critical failures block activation" (validation/common.py:5).  Staging
\* tables are named after the release, so that an attempt can build from the
\* rows of another whose critical checks failed, and activate.
CriticalFailuresBlock ==
    \A i \in Ids :
        Exists(i) /\ rows[i].state = "active" /\ partition[i] # None
            => StagingStatus[partition[i]] # "failed"

\* "Validation warnings still block import --activate unless
\* --allow-warnings is passed, including on the idempotent skip path"
\* (decisions/0002:67).  validate records the production checks alone, and
\* the skip trusts what it records.
WarningsBlockActivation ==
    [][\A p \in Importers, i \in Ids :
          /\ At(p, "skipActivate") /\ imp'[p] # imp[p]
          /\ rows[i] # None /\ rows[i].state # "active" /\ rows[i]'.state = "active"
          /\ partition[i] # None
          => \/ imp[p].req.allow_warnings
             \/ StagingStatus[partition[i]] = "passed"]_vars
=============================================================================
