------------------------------ MODULE MCClaims ------------------------------
(***************************************************************************)
(* The smallest instances in which the code breaks each of the Claims.     *)
(***************************************************************************)
EXTENDS MCLifecycle, Claims

\* dr1 imported from a tree with warnings.
PoorSeed == s1 :> [name |-> dr1, state |-> "ready", source |-> poor]

OneSkip == Requests({dr1}, {poor}, {"plain"}, {TRUE}, {FALSE})
TwoTrees == Requests({dr1}, {good, bad}, {"plain"}, {TRUE}, {FALSE})

Removal == Commands({"remove"}, {dr1}, {FALSE})
Revalidation == Commands({"validate"}, {dr1}, {FALSE})
=============================================================================
