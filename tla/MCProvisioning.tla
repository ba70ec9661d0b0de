--------------------------- MODULE MCProvisioning ---------------------------
(***************************************************************************)
(* Small instances of Provisioning for TLC.                                *)
(***************************************************************************)
EXTENDS Provisioning, TLC

CONSTANTS f1, f2, \* families
          c1, c2  \* commands

\* The first image has the tables of f1, the second those of f2.
MCCreatedBy == (f1 :> 2) @@ (f2 :> 3)

CommandSymmetry == Permutations(Commands)
=============================================================================
