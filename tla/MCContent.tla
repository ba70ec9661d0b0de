----------------------------- MODULE MCContent -----------------------------
(***************************************************************************)
(* Small sources for TLC: every line differs from a plain one in one way.  *)
(***************************************************************************)
EXTENDS ContentInvariant, SequencesExt

Plain == [text |-> "data", lead |-> "digits", whole |-> TRUE, id |-> 1, cluster |-> "M15",
          at |-> [ra |-> 0, dec |-> 90], measure |-> "plausible", wild |-> FALSE]
Other == [Plain EXCEPT !.id = 2, !.at = [ra |-> 359, dec |-> -90]]
Blank == [Plain EXCEPT !.text = "empty", !.lead = "none", !.whole = FALSE, !.at = None]

Textual == {Blank, [Blank EXCEPT !.text = "spaces"], [Plain EXCEPT !.whole = FALSE],
            [Plain EXCEPT !.lead = "APASS", !.at = None], [Plain EXCEPT !.lead = "#", !.at = None],
            [Plain EXCEPT !.lead = "word"], [Plain EXCEPT !.lead = "none"],
            [Plain EXCEPT !.cluster = None], [Plain EXCEPT !.at = None], [Plain EXCEPT !.wild = TRUE]}
Questionable == {[Plain EXCEPT !.at.ra = 360], [Plain EXCEPT !.at.ra = -1],
                 [Plain EXCEPT !.at.ra = NaN], [Plain EXCEPT !.at.dec = 91],
                 [Plain EXCEPT !.at.dec = -91], [Plain EXCEPT !.measure = "implausible"],
                 [Plain EXCEPT !.measure = "absent"], [Plain EXCEPT !.cluster = "M92"]}
MCLines == {Plain, Other} \cup Textual \cup Questionable

FileOf(lines) == [lines |-> lines, stamp |-> 1]

\* APASS has many files, the others one.
MCFilesOf == [f \in Formats |-> IF f \in {"apass_dr6_sum", "apass_dr10_txt"} THEN {1, 2} ELSE {1}]

Trees(fmt, firsts, seconds) ==
    {[f \in MCFilesOf[fmt] |-> IF f = 1 THEN FileOf(first) ELSE second] :
        first \in firsts, second \in seconds}

MCSources ==
    UNION {{fmt} \X Trees(fmt, BoundedSeq(MCLines, 2), {None, FileOf(<<Other>>)}) :
             fmt \in Formats}
MCUploads == {<<Other>>}

\* The same size and time, before and after.
MCStamps == {1, 2}

\* Two plain files, of which one may change.
MCPlainSources == {"apass_dr6_sum"} \X Trees("apass_dr6_sum", {<<Plain>>}, {FileOf(<<Other>>)})
=============================================================================
