----------------------------- MODULE Validation -----------------------------
(***************************************************************************)
(* Validation: the rows of a staging table are marked, never removed, and  *)
(* each check concludes on all rows or on those not marked; a partition is *)
(* checked again once it is built, and whenever an operator asks.          *)
(***************************************************************************)
EXTENDS SourceLines, FiniteSets

Check(name, level, passed) == [name |-> name, level |-> level, passed |-> passed]

Failing(level, checks) == \E c \in checks : c.level = level /\ ~c.passed

\* Mutant of Conclude: the level of the worst failure is the status.
ConcludeLevel(checks) ==
    IF Failing("critical", checks) THEN "failed"
    ELSE IF Failing("warning", checks) THEN "warning"
    ELSE "passed"

Conclude(checks) ==
    IF Failing("critical", checks) THEN "failed"
    ELSE IF Failing("warning", checks) THEN "passed_with_warnings"
    ELSE "passed"

Reasons == {"null_native_id", "ra_out_of_range", "dec_out_of_range", "null_cluster"}

\* Where a row was read (file and line), and why it is rejected.
Staged == [place : Nat \X Nat, row : Row, reject : Reasons \cup {None}]

Valid(staging) == {s \in staging : s.reject = None}
Rejected(staging) == {s \in staging : s.reject # None}
RejectedFor(reason, staging) == {s \in staging : s.reject = reason}

\* Mutant of RaOutOfRange: 360 degrees are in range.
RaOutOfRangeClosed(row) == row.ra < 0 \/ row.ra > 360

RaOutOfRange(row) == row.ra < 0 \/ row.ra >= 360
DecOutOfRange(row) == row.dec < -90 \/ row.dec > 90

\* The first reason that applies.
CommonReject(row) ==
    IF row.id = None THEN "null_native_id"
    ELSE IF RaOutOfRange(row) THEN "ra_out_of_range"
    ELSE IF DecOutOfRange(row) THEN "dec_out_of_range"
    ELSE None

\* Each row is marked once.
MarkCommon(staging) ==
    {IF s.reject = None THEN [s EXCEPT !.reject = CommonReject(s.row)] ELSE s : s \in staging}

\* Of a marked staging table.  A rejected row fails a check of its own, so the
\* rate (at most a fifth of the rows) never decides alone.
CommonChecks(staging) ==
    {Check("native_id_not_null", "critical", RejectedFor("null_native_id", staging) = {}),
     Check("ra_range", "warning", RejectedFor("ra_out_of_range", staging) = {}),
     Check("dec_range", "warning", RejectedFor("dec_out_of_range", staging) = {}),
     Check("reject_rate", "warning",
           5 * Cardinality(Rejected(staging)) <= Cardinality(staging)),
     Check("loaded_row_count", "info", Valid(staging) # {})}

\* Stetson's production table asks for a cluster.
MarkFamily(format, staging) ==
    IF format = "stetson_globs_dat"
    THEN {IF s.reject = None /\ s.row.cluster = None
          THEN [s EXCEPT !.reject = "null_cluster"] ELSE s : s \in staging}
    ELSE staging

Implausible(staging) == \E s \in staging : s.row.measure = "implausible"
Unmeasured(staging) == \E s \in Valid(staging) : s.row.measure = "absent"

IdRepeats(staging) == \E s, t \in Valid(staging) : s # t /\ s.row.id = t.row.id

StarRepeats(staging) ==
    \E s, t \in Valid(staging) :
        s # t /\ s.row.id = t.row.id /\ s.row.cluster = t.row.cluster

\* Magnitudes and errors out of range; no band; repeated names are normal.
ApassChecks(staging) ==
    {Check("apass_magnitude_range", "warning", ~Implausible(staging)),
     Check("apass_band_mapping", "warning", ~Unmeasured(staging)),
     Check("apass_duplicate_native_id", "info", TRUE)}

\* Periods that are not positive, maxima fainter than minima; the OID is unique.
VsxChecks(staging) ==
    {Check("vsx_magnitude_consistency", "warning", ~Implausible(staging)),
     Check("vsx_oid_unique", "critical", ~IdRepeats(staging))}

\* V, which the other bands are derived from, colours and errors.
LandoltChecks(staging) ==
    {Check("landolt_v_present", "warning", ~Unmeasured(staging)),
     Check("landolt_v_range", "warning", ~Implausible(staging)),
     Check("landolt_native_id_unique", "warning", ~IdRepeats(staging)),
     Check("landolt_row_count", "info", Valid(staging) # {})}

\* A star is unique within its cluster.
StetsonChecks(staging) ==
    {Check("stetson_cluster_present", "critical", RejectedFor("null_cluster", staging) = {}),
     Check("stetson_magnitude_range", "warning", ~Implausible(staging)),
     Check("stetson_band_mapping", "warning", ~Unmeasured(staging)),
     Check("stetson_id_unique_per_cluster", "warning", ~StarRepeats(staging)),
     Check("stetson_row_count", "info", Valid(staging) # {})}

FamilyChecks(format, staging) ==
    CASE format \in {"apass_dr6_sum", "apass_dr10_txt"} -> ApassChecks(staging)
      [] format = "vsx_dat" -> VsxChecks(staging)
      [] format = "landolt_dat" -> LandoltChecks(staging)
      [] format = "stetson_globs_dat" -> StetsonChecks(staging)

\* Fewer rows than nine tenths of what is expected are suspect; 0 expects nothing.
RowFloor(expected) == (expected * 9) \div 10

\* Of a partition with count rows; its indexes are copies of the parent's.
ProductionChecks(count, expected) ==
    {Check("production_rows", "critical", count > 0)}
      \cup (IF expected = 0 THEN {}
            ELSE {Check("row_count_vs_expected", "warning", count >= RowFloor(expected))})

\* Mutant of RangeChecks: the pole is out of range.
RangeChecksHalfOpen(rows) ==
    {Check("production_ra_range", "critical", ~\E s \in rows : RaOutOfRange(s.row)),
     Check("production_dec_range", "critical",
           ~\E s \in rows : s.row.dec < -90 \/ s.row.dec >= 90)}

\* Those that validate adds, of the rows in the partition.
RangeChecks(rows) ==
    {Check("production_ra_range", "critical", ~\E s \in rows : RaOutOfRange(s.row)),
     Check("production_dec_range", "critical", ~\E s \in rows : DecOutOfRange(s.row))}
=============================================================================
