-------------------------- MODULE ContentInvariant --------------------------
(***************************************************************************)
(* The inductive invariant of Content: what the staging table and the      *)
(* counters of an attempt owe to the files it has read, what Phase A has   *)
(* shown of a table that is about to be published, and what a published    *)
(* release keeps of it.                                                    *)
(***************************************************************************)
EXTENDS Content

\* Where the files read so far have a line that yields a row, or is malformed.
ParsedPlaces(fmt, read) ==
    UNION {{<<f, n>> : n \in Parsed(fmt, read[f])} : f \in DOMAIN read}
MalformedPlaces(fmt, read) ==
    UNION {{<<f, n>> : n \in Malformed(fmt, read[f])} : f \in DOMAIN read}

\* What queries rely on.
Fits(fmt, rows) ==
    /\ \A s \in rows :
           /\ s.row.id # None
           /\ ~RaOutOfRange(s.row)
           /\ ~DecOutOfRange(s.row)
           /\ fmt = "stetson_globs_dat" => s.row.cluster # None
    /\ fmt = "vsx_dat" => \A s, t \in rows : s.row.id = t.row.id => s = t

TreeOK ==
    /\ format \in Formats
    /\ tree \in [Files -> File \cup {None}]

JobShape(j) ==
    /\ j = [pc |-> j.pc, mode |-> j.mode, replace |-> j.replace, found |-> j.found,
            checksum |-> j.checksum, read |-> j.read, staging |-> j.staging,
            parsed |-> j.parsed, malformed |-> j.malformed, rejected |-> j.rejected,
            checks |-> j.checks]
    /\ [pc |-> j.pc, mode |-> j.mode, replace |-> j.replace] \in Job
    /\ DOMAIN j.found \subseteq Files
    /\ DOMAIN j.read \subseteq DOMAIN j.found
    /\ j.read \in [DOMAIN j.read -> Seq(Line)]

\* The staging table and the counters agree with the files.
StagingOK(j) ==
    /\ j.staging \subseteq Staged
    /\ IsFiniteSet(j.staging)
    /\ j.parsed = Cardinality(j.staging)
    /\ {s.place : s \in j.staging} = ParsedPlaces(format, j.read)
    /\ IsFiniteSet(MalformedPlaces(format, j.read))
    /\ j.malformed = Cardinality(MalformedPlaces(format, j.read))

\* Phase A has let the table pass.
Judged(j) ==
    /\ j.rejected = Cardinality(Rejected(j.staging))
    /\ Fits(format, Valid(j.staging))
    /\ ~Failing("warning", j.checks) => /\ Rejected(j.staging) = {}
                                        /\ ~Implausible(j.staging)

JobOK(j) ==
    /\ JobShape(j)
    /\ StagingOK(j)
    /\ IF j.pc = "publish" THEN Judged(j) ELSE \A s \in j.staging : s.reject = None

PartitionOK ==
    /\ partition \subseteq Staged
    /\ IsFiniteSet(partition)
    /\ release # None => partition # {}
    /\ Fits(format, partition)

ReleaseOK ==
    /\ release = [checksum |-> release.checksum, parsed |-> release.parsed,
                  imported |-> release.imported, rejected |-> release.rejected,
                  status |-> release.status, read |-> release.read]
    /\ release.status \in Statuses
    /\ release.parsed = release.imported + release.rejected
    /\ release.imported = Cardinality(partition)

ContentInv ==
    /\ TreeOK
    /\ job # None => JobOK(job)
    /\ PartitionOK
    /\ release # None => ReleaseOK
    /\ uploads \in 0..MaxUploads
    /\ imports \in 0..MaxImports
=============================================================================
