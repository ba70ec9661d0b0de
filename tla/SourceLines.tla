---------------------------- MODULE SourceLines ----------------------------
(***************************************************************************)
(* The streaming parsers (ingestion/parsers): which lines of a source file *)
(* they skip, which they count as malformed, which end the import, and the *)
(* row the others yield.  A line is the outcome of looking at it: a parser *)
(* decides on these facts and on nothing else.                             *)
(***************************************************************************)
EXTENDS Integers

CONSTANTS
    Ids,      \* identifiers
    Clusters, \* Stetson's field names
    None

\* The two Landolt tables differ in their byte maps only.
Formats == {"apass_dr6_sum", "apass_dr10_txt", "vsx_dat", "landolt_dat", "stetson_globs_dat"}

\* float() reads "nan", and PostgreSQL sorts NaN above every number.
NaN == 1000

Position == [ra : Int, dec : Int]

Line == [text : {"empty", "spaces", "data"},
         lead : {"digits", "APASS", "#", "word", "none"}, \* its first token, or identifier
         whole : BOOLEAN,                 \* as many fields, or as long, as its format asks
         id : Ids,
         cluster : Clusters \cup {None},
         at : Position \cup {None},       \* None: not numbers
         measure : {"plausible", "implausible", "absent"},
         wild : BOOLEAN]  \* an optional field that int() raises on or COPY refuses

Row == [id : Ids \cup {None}, cluster : Clusters \cup {None}, ra : Int, dec : Int,
        measure : {"plausible", "implausible", "absent"}]

-----------------------------------------------------------------------------
(* Parsers, one per format: what is skipped, what is readable              *)

\* A line of spaces is not skipped: it has too few fields.
Dr6Skips(line) == line.text = "empty" \/ line.lead = "#"
Dr6Reads(line) == line.whole /\ line.at # None

\* Mutant of IsDr10Header: any line that does not start with a digit.
IsDr10HeaderAnywhere(line, first) == line.lead # "digits"

\* The header heads the file, and reappears where files were concatenated.
IsDr10Header(line, first) == line.lead = "APASS" \/ (first /\ line.lead # "digits")

Dr10Skips(line, first) == line.text # "data" \/ IsDr10Header(line, first)
Dr10Reads(line) == line.whole /\ line.at # None

VsxSkips(line) == line.text # "data" /\ ~line.whole
VsxReads(line) == line.whole /\ line.lead = "digits" /\ line.at # None

LandoltSkips(line) == line.text # "data"
LandoltReads(line) == line.whole /\ line.lead # "none" /\ line.at # None

StetsonSkips(line) == line.text # "data"
StetsonReads(line) ==
    line.whole /\ line.cluster # None /\ line.lead = "digits" /\ line.at # None

Skips(format, line, first) ==
    \/ format = "apass_dr6_sum" /\ Dr6Skips(line)
    \/ format = "apass_dr10_txt" /\ Dr10Skips(line, first)
    \/ format = "vsx_dat" /\ VsxSkips(line)
    \/ format = "landolt_dat" /\ LandoltSkips(line)
    \/ format = "stetson_globs_dat" /\ StetsonSkips(line)

Reads(format, line) ==
    \/ format = "apass_dr6_sum" /\ Dr6Reads(line)
    \/ format = "apass_dr10_txt" /\ Dr10Reads(line)
    \/ format = "vsx_dat" /\ VsxReads(line)
    \/ format = "landolt_dat" /\ LandoltReads(line)
    \/ format = "stetson_globs_dat" /\ StetsonReads(line)

\* The row of a readable line: a value that is missing stays missing.
RowOf(line) ==
    [id |-> line.id, cluster |-> line.cluster, ra |-> line.at.ra, dec |-> line.at.dec,
     measure |-> line.measure]

\* Reading a file to its end: the numbers of its lines that are malformed, that
\* yield a row, and that raise.
Kept(format, lines) == {n \in DOMAIN lines : ~Skips(format, lines[n], n = 1)}
Malformed(format, lines) == {n \in Kept(format, lines) : ~Reads(format, lines[n])}
Parsed(format, lines) == {n \in Kept(format, lines) : Reads(format, lines[n])}
Raises(format, lines) == \E n \in Parsed(format, lines) : lines[n].wild
=============================================================================
