------------------------------- MODULE MCJob -------------------------------
(***************************************************************************)
(* Small instances of ImportJob and LifecycleCatalog for TLC.              *)
(***************************************************************************)
EXTENDS MCLifecycle, SerialInvariant, ImportJob, LifecycleCatalog
=============================================================================
