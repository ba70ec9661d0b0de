------------------------------ MODULE MCServing ------------------------------
(***************************************************************************)
(* Small instances of Serving for TLC.                                     *)
(***************************************************************************)
EXTENDS MCLifecycle, ServingInvariant

CONSTANTS t1, t2  \* threads

Ask(vias, names) == {[via |-> v, family |-> f1, release |-> n] : v \in vias, n \in names}

AllCalls == Ask({"reader"}, {None, dr1}) \cup Ask({"direct"}, {None})
ActiveCalls == Ask({"reader"}, {None})

\* Which release is live changes under the readers, and the old one goes.
SwitchCommands == Commands({"activate"}, {dr2}, {FALSE})
                    \cup Commands({"deactivate"}, {dr1}, {FALSE})
                    \cup Commands({"remove"}, {dr1}, {TRUE})
=============================================================================
