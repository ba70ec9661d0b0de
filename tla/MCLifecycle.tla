----------------------------- MODULE MCLifecycle -----------------------------
(***************************************************************************)
(* Small instances of Lifecycle for TLC.                                   *)
(***************************************************************************)
EXTENDS LifecycleInvariant, TLC

CONSTANTS f1,                   \* a family
          dr1, dr2,             \* its releases
          good, better, poor, bad, \* trees: clean, clean, with warnings, critical
          p1, p2,               \* import attempts
          o1, o2,               \* operator commands
          s1, s2                \* ids of releases imported earlier

MCFamilyOf == (dr1 :> f1) @@ (dr2 :> f1)
OneFamily == dr1 :> f1
MCStaging(trees) == [t \in trees |-> CASE t = poor -> "passed_with_warnings"
                                       [] t = bad -> "failed"
                                       [] OTHER -> "passed"]
MCProduction(trees) == [t \in trees |-> "passed"]

Two == {good, better}
Three == {good, better, bad}
Mixed == {good, poor, bad}
TwoStaging == MCStaging(Two)
TwoProduction == MCProduction(Two)
ThreeStaging == MCStaging(Three)
ThreeProduction == MCProduction(Three)
MixedStaging == MCStaging(Mixed)
MixedProduction == MCProduction(Mixed)

\* Attempts differ in nothing but their name.
ImporterSymmetry == Permutations(Importers)

\* Nothing imported yet; dr1 live; dr1 live and dr2 superseded.
NoSeed == <<>>
LiveSeed == s1 :> [name |-> dr1, state |-> "active", source |-> good]
PairSeed == LiveSeed @@ (s2 :> [name |-> dr2, state |-> "superseded", source |-> good])

Requests(names, trees, modes, activates, allows) ==
    {[name |-> n, src |-> t, mode |-> m, activate |-> a, allow_warnings |-> w,
      keep_staging |-> FALSE] :
        n \in names, t \in trees, m \in modes, a \in activates, w \in allows}

Commands(kinds, names, forces) ==
    {[kind |-> k, name |-> n, force |-> b] : k \in kinds, n \in names, b \in forces}

\* Attempts on two releases that meet operator commands on either.
OverlapRequests == Requests({dr1}, {better}, {"force"}, {TRUE}, {FALSE})
                     \cup Requests({dr2}, {better}, {"plain"}, {TRUE}, {FALSE})
OverlapCommands == Commands({"activate", "deactivate", "validate"}, {dr1, dr2}, {FALSE})
                     \cup Commands({"remove"}, {dr1, dr2}, {TRUE, FALSE})
                     \cup Commands({"clean"}, {dr1}, {FALSE})

\* One process at a time over every mode and every kind of tree.
SerialRequests ==
    Requests({dr1}, Mixed, {"plain", "replace", "force"}, {TRUE}, {FALSE})
      \cup Requests({dr1}, {good, poor}, {"plain", "replace"}, {FALSE}, {FALSE})
      \cup Requests({dr2}, {good, poor}, {"plain"}, {TRUE}, BOOLEAN)
      \cup Requests({dr2}, {poor}, {"replace"}, {TRUE}, {FALSE})
SerialCommands == Commands({"activate", "deactivate"}, {dr1, dr2}, {FALSE})
                    \cup Commands({"remove"}, {dr1, dr2}, {TRUE, FALSE})
                    \cup Commands({"clean"}, {dr1}, {FALSE})

\* Two attempts that need the lock on the partition of the same release.
ContendedRequests == Requests({dr1}, {better}, {"force"}, {FALSE}, {FALSE})
ContendedCommands == Commands({"remove"}, {dr1}, {TRUE})
=============================================================================
