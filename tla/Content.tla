------------------------------ MODULE Content ------------------------------
(***************************************************************************)
(* What one release holds: source discovery, checksums, parsing, staging,  *)
(* validation and the transform, from a tree of files to the rows of the   *)
(* partition and the counts in the registry.  The source is a directory    *)
(* that others mirror into, at any time.  Attempts on the release run one  *)
(* after the other; how attempts and commands interleave, and where the    *)
(* swap and the finalize come apart, is in Lifecycle.                      *)
(***************************************************************************)
EXTENDS Validation, Sequences

CONSTANTS
    FilesOf,     \* the data files a format may have, numbers in the order of their paths
    Sources,     \* <<format, tree>>: what discovery may find at first
    Uploads,     \* what a file may be replaced with
    Stamps,      \* sizes and modification times of files
    Expected,    \* approx_row_count of the release, 0 for none
    MaxUploads,  \* bound: changes of the source
    MaxImports   \* bound: attempts

File == [lines : Seq(Line), stamp : Stamps]

ContentAssumption ==
    /\ FilesOf \in [Formats -> SUBSET Nat]
    /\ \A fmt \in Formats : IsFiniteSet(FilesOf[fmt])
    /\ \A s \in Sources : /\ s[1] \in Formats
                         /\ s[2] \in [FilesOf[s[1]] -> File \cup {None}]
    /\ Uploads \subseteq Seq(Line)
    /\ Expected \in Nat
    /\ MaxUploads \in Nat
    /\ MaxImports \in Nat
    /\ None \notin Reasons
ASSUME ContentAssumption

VARIABLES
    format,    \* of the release
    tree,      \* what each file holds: its lines, its size and time
    release,   \* the registry row, None before the first import
    partition, \* the rows that are served, none before the first import
    rejects,   \* the rows retained for diagnosis
    job,       \* the attempt in progress
    uploads,   \* changes of the source so far
    imports    \* attempts so far

contentVars == <<format, tree, release, partition, rejects, job, uploads, imports>>

Job == [pc : {"checksum", "open", "stage", "publish"},
        mode : {"manifest", "content"}, replace : BOOLEAN]

Files == FilesOf[format]
Present == {f \in Files : tree[f] # None}

\* history: the lines that an attempt has read
LinesOf(files) == [f \in files |-> tree[f].lines]

ContentInit ==
    /\ \E s \in Sources : format = s[1] /\ tree = s[2]
    /\ release = None
    /\ partition = {}
    /\ rejects = {}
    /\ job = None
    /\ uploads = 0
    /\ imports = 0

-----------------------------------------------------------------------------
(* An attempt                                                              *)

\* The scan takes down the data files with their sizes and times; a source with
\* no data file is refused before anything is written.
Discover(mode, replace) ==
    /\ job = None
    /\ imports < MaxImports
    /\ Present # {}
    /\ job' = [pc |-> "checksum", mode |-> mode, replace |-> replace,
               found |-> [f \in Present |-> tree[f].stamp], checksum |-> None,
               read |-> [f \in {} |-> <<>>], staging |-> {}, parsed |-> 0, malformed |-> 0,
               rejected |-> 0, checks |-> {}]
    /\ imports' = imports + 1
    /\ UNCHANGED <<format, tree, release, partition, rejects, uploads>>

\* The digest of what the scan took down, or of the files as they are now.
Checksum ==
    /\ job # None /\ job.pc = "checksum"
    /\ job.mode = "content" => DOMAIN job.found \subseteq Present
    /\ job' = [job EXCEPT !.pc = "open",
                 !.checksum = IF job.mode = "manifest"
                              THEN <<"manifest", job.found>>
                              ELSE <<"content", LinesOf(DOMAIN job.found)>>]
    /\ UNCHANGED <<format, tree, release, partition, rejects, uploads, imports>>

Unchanged == release # None /\ release.checksum = job.checksum /\ ~job.replace

SkipImport ==
    /\ job # None /\ job.pc = "open"
    /\ Unchanged
    /\ job' = None
    /\ UNCHANGED <<format, tree, release, partition, rejects, uploads, imports>>

OpenImport ==
    /\ job # None /\ job.pc = "open"
    /\ ~Unchanged
    /\ job' = [job EXCEPT !.pc = "stage"]
    /\ UNCHANGED <<format, tree, release, partition, rejects, uploads, imports>>

\* The next file that the scan found.
Unread == DOMAIN job.found \ DOMAIN job.read
NextFile == CHOOSE f \in Unread : \A g \in Unread : f <= g

\* The rows of a file are copied into the staging table as they are parsed.
StageFile ==
    /\ job # None /\ job.pc = "stage"
    /\ Unread # {}
    /\ LET f == NextFile
           lines == tree[f].lines
           parsed == Parsed(format, lines)
       IN /\ tree[f] # None
          /\ ~Raises(format, lines)
          /\ job' = [job EXCEPT
                       !.read = [g \in DOMAIN @ \cup {f} |-> IF g = f THEN lines ELSE @[g]],
                       !.staging = @ \cup {[place |-> <<f, n>>, row |-> RowOf(lines[n]),
                                            reject |-> None] : n \in parsed},
                       !.parsed = @ + Cardinality(parsed),
                       !.malformed = @ + Cardinality(Malformed(format, lines))]
    /\ UNCHANGED <<format, tree, release, partition, rejects, uploads, imports>>

Marked == MarkFamily(format, MarkCommon(job.staging))

\* What Phase A concludes on: the common checks see the table before the family's
\* have marked it.
StagingChecks == CommonChecks(MarkCommon(job.staging)) \cup FamilyChecks(format, Marked)

\* The end of Phase A: rejected rows are retained, whatever the status is.
ValidateStaging ==
    /\ job # None /\ job.pc = "stage"
    /\ Unread = {}
    /\ rejects' = Rejected(Marked)
    /\ job' = IF Conclude(StagingChecks) = "failed"
              THEN None
              ELSE [job EXCEPT !.pc = "publish", !.staging = Marked, !.checks = StagingChecks,
                               !.rejected = Cardinality(Rejected(MarkCommon(job.staging)))]
    /\ UNCHANGED <<format, tree, release, partition, uploads, imports>>

\* Mutant of Transformed: rejected rows are transformed too.
TransformedAll(staging) == staging

Transformed(staging) == Valid(staging)

\* Mutant of FinalChecks: those of the partition are forgotten.
FinalChecksOfStaging(staging, checks) == checks

FinalChecks(staging, checks) ==
    checks \cup ProductionChecks(Cardinality(Transformed(staging)), Expected)

\* The transform, the production checks, the swap and the finalize.
Publish ==
    /\ job # None /\ job.pc = "publish"
    /\ Conclude(ProductionChecks(Cardinality(Transformed(job.staging)), Expected)) # "failed"
    /\ partition' = Transformed(job.staging)
    /\ release' = [checksum |-> job.checksum, parsed |-> job.parsed,
                   imported |-> Cardinality(Transformed(job.staging)),
                   rejected |-> job.rejected,
                   status |-> Conclude(FinalChecks(job.staging, job.checks)),
                   read |-> job.read]
    /\ job' = None
    /\ UNCHANGED <<format, tree, rejects, uploads, imports>>

\* A file that is gone or a line that raises, an empty partition, or anything
\* else that ends an attempt: release and partition stay as they are.
Fail ==
    /\ job # None
    /\ job' = None
    /\ UNCHANGED <<format, tree, release, partition, rejects, uploads, imports>>

-----------------------------------------------------------------------------
(* The source, and the validate command                                    *)

\* A file is added, replaced, or edited without a trace in its size and time.
Upload(f, lines, stamp) ==
    /\ uploads < MaxUploads
    /\ tree' = [tree EXCEPT ![f] = [lines |-> lines, stamp |-> stamp]]
    /\ uploads' = uploads + 1
    /\ UNCHANGED <<format, release, partition, rejects, job, imports>>

Delete(f) ==
    /\ uploads < MaxUploads
    /\ f \in Present
    /\ tree' = [tree EXCEPT ![f] = None]
    /\ uploads' = uploads + 1
    /\ UNCHANGED <<format, release, partition, rejects, job, imports>>

Revalidate ==
    /\ release # None
    /\ release' = [release EXCEPT !.status =
                     Conclude(ProductionChecks(Cardinality(partition), Expected)
                                \cup RangeChecks(partition))]
    /\ UNCHANGED <<format, tree, partition, rejects, job, uploads, imports>>

AttemptStep ==
    \/ Checksum \/ SkipImport \/ OpenImport \/ StageFile \/ ValidateStaging \/ Publish \/ Fail

ContentNext ==
    \/ \E mode \in {"manifest", "content"}, replace \in BOOLEAN : Discover(mode, replace)
    \/ AttemptStep
    \/ \E f \in Files : \/ Delete(f)
                        \/ \E lines \in Uploads, stamp \in Stamps : Upload(f, lines, stamp)
    \/ Revalidate

ContentSpec == ContentInit /\ [][ContentNext]_contentVars

-----------------------------------------------------------------------------
Statuses == {"failed", "passed_with_warnings", "passed"}

\* Every variable keeps its type.
ContentTypeOK ==
    /\ format \in Formats
    /\ \A f \in Present : tree[f].stamp \in Stamps /\ \A n \in DOMAIN tree[f].lines :
                              tree[f].lines[n] \in Line
    /\ release # None => release.status \in Statuses
    /\ job # None => /\ [pc |-> job.pc, mode |-> job.mode, replace |-> job.replace] \in Job
                     /\ job.parsed = Cardinality(job.staging)
                     /\ \A s \in job.staging : s.row \in Row
    /\ uploads \in 0..MaxUploads
    /\ imports \in 0..MaxImports

\* parsed = imported + rejected (provenance.md), and imported is what is served:
\* the counts of the registry add up whatever was marked twice over by the
\* common and the family checks, and after any number of attempts.
Accounting ==
    release # None =>
        /\ release.parsed = release.imported + release.rejected
        /\ release.imported = Cardinality(partition)

\* Nothing is silently dropped (add-family.md): when the last file is read, every
\* line with content is a staged row or counted as malformed.  Headings and
\* comments are not; nor is the first line of a DR10 file that does not start
\* with a digit, which is taken for a header.
NothingDropped ==
    job # None /\ Unread = {} =>
        LET places == UNION {{<<f, n>> : n \in DOMAIN job.read[f]} : f \in DOMAIN job.read}
            Counts(line, first) ==
                /\ line.text = "data"
                /\ line.lead \notin {"APASS", "#"}
                /\ format = "apass_dr10_txt" /\ first => line.lead = "digits"
        IN job.parsed + job.malformed >=
               Cardinality({p \in places : Counts(job.read[p[1]][p[2]], p[2] = 1)})

\* What is served can be queried: there are rows, each with an identifier and a
\* position on the sphere (NaN is none), a cluster where stars are numbered by
\* cluster, and no OID of VSX twice.
ServedRowsValid ==
    release # None =>
        /\ partition # {}
        /\ \A s \in partition :
               /\ s.row.id # None
               /\ 0 <= s.row.ra /\ s.row.ra < 360
               /\ -90 <= s.row.dec /\ s.row.dec <= 90
               /\ format = "stetson_globs_dat" => s.row.cluster # None
        /\ format = "vsx_dat" =>
               \A s, t \in partition : s.row.id = t.row.id => s = t

\* An import that reports passed, and so may be activated with nobody looking,
\* served every row it parsed, all of them plausible, and of those the release
\* is known to have nine tenths or more, the nine tenths rounded down.
PassedMeansClean ==
    [][Publish /\ release'.status = "passed"
       => /\ release'.imported = release'.parsed
          /\ 10 * (release'.imported + 1) > 9 * Expected
          /\ \A s \in partition' : s.row.measure # "implausible"]_contentVars

\* validate never fails what an import has just published: the two judge by the
\* same ranges, though each states them for itself.
RevalidationAgrees == [][Revalidate => release'.status # "failed"]_contentVars

-----------------------------------------------------------------------------
(* What the documentation says and the code does not keep                  *)

\* A content checksum "detects any change to the bytes" (provenance.md): the rows
\* behind a release are those of the bytes its checksum was computed from.  The
\* files are hashed, hours later they are parsed, and nothing compares the two.
ContentIdentifiesRows ==
    release # None /\ release.checksum[1] = "content" => release.checksum[2] = release.read
=============================================================================
