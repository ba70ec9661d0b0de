--------------------------- MODULE ContentProofs ---------------------------
(***************************************************************************)
(* Proofs about Content, for any sources, uploads and number of attempts:  *)
(* its counts add up, no line is dropped unseen, what is served can be     *)
(* queried, and the statuses mean what they say.                           *)
(***************************************************************************)
EXTENDS ContentInvariant, FiniteSetTheorems, TLAPS

-----------------------------------------------------------------------------
(* Counting                                                                *)

\* A one-to-one image has as many elements.
LEMMA OneToOne ==
    ASSUME NEW S, NEW T, IsFiniteSet(S), NEW g \in [S -> T],
           \A x, y \in S : g[x] = g[y] => x = y,
           \A z \in T : \E x \in S : g[x] = z
    PROVE  IsFiniteSet(T) /\ Cardinality(T) = Cardinality(S)
<1>1. g \in Bijection(S, T)
  BY DEF Bijection, Injection, Surjection, IsInjective
<1>2. ExistsBijection(S, T)
  BY <1>1 DEF ExistsBijection
<1> QED
  BY <1>2, FS_Bijection

\* The places of a file are as many as its lines.
LEMMA Numbered ==
    ASSUME NEW f, NEW S, IsFiniteSet(S)
    PROVE  /\ IsFiniteSet({<<f, n>> : n \in S})
           /\ Cardinality({<<f, n>> : n \in S}) = Cardinality(S)
<1> DEFINE g == [n \in S |-> <<f, n>>]
<1>1. g \in [S -> {<<f, n>> : n \in S}]
  OBVIOUS
<1>2. \A x, y \in S : g[x] = g[y] => x = y
  OBVIOUS
<1>3. \A z \in {<<f, n>> : n \in S} : \E x \in S : g[x] = z
  OBVIOUS
<1> HIDE DEF g
<1> QED
  BY <1>1, <1>2, <1>3, OneToOne

\* Sets with nothing in common add up.
LEMMA Apart ==
    ASSUME NEW S, IsFiniteSet(S), NEW T, IsFiniteSet(T), S \cap T = {}
    PROVE  /\ IsFiniteSet(S \cup T)
           /\ Cardinality(S \cup T) = Cardinality(S) + Cardinality(T)
<1>1. Cardinality(S \cap T) = 0
  BY FS_EmptySet
<1>2. /\ Cardinality(S) \in Nat
      /\ Cardinality(T) \in Nat
  BY FS_CardinalityType
<1>3. /\ IsFiniteSet(S \cup T)
      /\ Cardinality(S \cup T) = Cardinality(S) + Cardinality(T) - Cardinality(S \cap T)
  BY FS_Union
<1> QED
  BY <1>1, <1>2, <1>3

\* A set of file numbers has a least: the next file is one of those not yet read.
LEMMA Least ==
    ASSUME NEW S \in SUBSET Nat, S # {}
    PROVE  \E m \in S : \A n \in S : m <= n
<1>1. \E m \in S : \A n \in S : ~(<<n, m>> \in OpToRel(<, Nat))
  BY NatLessThanWellFounded, WFMin
<1>2. PICK m \in S : \A n \in S : ~(n < m)
  BY <1>1 DEF OpToRel
<1> QED
  BY <1>2

-----------------------------------------------------------------------------
(* Parsing                                                                 *)

\* A file has finitely many lines, and what it yields is numbered by them.
LEMMA FileParsed ==
    ASSUME NEW fmt, NEW lines \in Seq(Line)
    PROVE  /\ Parsed(fmt, lines) \subseteq DOMAIN lines
           /\ Malformed(fmt, lines) \subseteq DOMAIN lines
           /\ Parsed(fmt, lines) \cap Malformed(fmt, lines) = {}
           /\ Kept(fmt, lines) = Parsed(fmt, lines) \cup Malformed(fmt, lines)
           /\ DOMAIN lines \subseteq Nat
           /\ IsFiniteSet(Parsed(fmt, lines))
           /\ IsFiniteSet(Malformed(fmt, lines))
<1>1. /\ Parsed(fmt, lines) \subseteq DOMAIN lines
      /\ Malformed(fmt, lines) \subseteq DOMAIN lines
      /\ Parsed(fmt, lines) \cap Malformed(fmt, lines) = {}
      /\ Kept(fmt, lines) = Parsed(fmt, lines) \cup Malformed(fmt, lines)
  BY DEF Parsed, Malformed, Kept
<1>2. DOMAIN lines = 1..Len(lines) /\ Len(lines) \in Nat
  OBVIOUS
<1>3. IsFiniteSet(DOMAIN lines)
  BY <1>2, FS_Interval
<1>4. IsFiniteSet(Parsed(fmt, lines))
  BY <1>1, <1>3, FS_Subset
<1>5. IsFiniteSet(Malformed(fmt, lines))
  BY <1>1, <1>3, FS_Subset
<1> QED
  BY <1>1, <1>2, <1>4, <1>5

\* The row of a line that a parser reads has its type: the position is there.
LEMMA RowTyped ==
    ASSUME NEW fmt \in Formats, NEW lines \in Seq(Line), NEW n \in Parsed(fmt, lines)
    PROVE  RowOf(lines[n]) \in Row
<1>1. lines[n] \in Line
  BY DEF Parsed, Kept
<1>2. Reads(fmt, lines[n])
  BY DEF Parsed
<1>3. lines[n].at # None
  BY <1>2 DEF Reads, Dr6Reads, Dr10Reads, VsxReads, LandoltReads, StetsonReads
<1>4. lines[n].at \in Position
  BY <1>1, <1>3 DEF Line
<1> QED
  BY <1>1, <1>4 DEF Line, Position, RowOf, Row

\* A place is one of a file and of a line in it.
LEMMA PlacesAre ==
    ASSUME NEW fmt, NEW read, NEW p
    PROVE  /\ p \in ParsedPlaces(fmt, read) <=>
                  \E g \in DOMAIN read : \E n \in Parsed(fmt, read[g]) : p = <<g, n>>
           /\ p \in MalformedPlaces(fmt, read) <=>
                  \E g \in DOMAIN read : \E n \in Malformed(fmt, read[g]) : p = <<g, n>>
<1>1. ASSUME NEW g \in DOMAIN read, NEW n \in Parsed(fmt, read[g]), p = <<g, n>>
      PROVE  p \in ParsedPlaces(fmt, read)
  <2>1. p \in {<<g, m>> : m \in Parsed(fmt, read[g])}
    BY <1>1
  <2>2. {<<g, m>> : m \in Parsed(fmt, read[g])}
            \in {{<<f, m>> : m \in Parsed(fmt, read[f])} : f \in DOMAIN read}
    OBVIOUS
  <2> QED
    BY <2>1, <2>2 DEF ParsedPlaces
<1>2. ASSUME p \in ParsedPlaces(fmt, read)
      PROVE  \E g \in DOMAIN read : \E n \in Parsed(fmt, read[g]) : p = <<g, n>>
  <2>1. PICK T \in {{<<f, m>> : m \in Parsed(fmt, read[f])} : f \in DOMAIN read} : p \in T
    BY <1>2 DEF ParsedPlaces
  <2>2. PICK g \in DOMAIN read : T = {<<g, m>> : m \in Parsed(fmt, read[g])}
    OBVIOUS
  <2> QED
    BY <2>1, <2>2
<1>3. ASSUME NEW g \in DOMAIN read, NEW n \in Malformed(fmt, read[g]), p = <<g, n>>
      PROVE  p \in MalformedPlaces(fmt, read)
  <2>1. p \in {<<g, m>> : m \in Malformed(fmt, read[g])}
    BY <1>3
  <2>2. {<<g, m>> : m \in Malformed(fmt, read[g])}
            \in {{<<f, m>> : m \in Malformed(fmt, read[f])} : f \in DOMAIN read}
    OBVIOUS
  <2> QED
    BY <2>1, <2>2 DEF MalformedPlaces
<1>4. ASSUME p \in MalformedPlaces(fmt, read)
      PROVE  \E g \in DOMAIN read : \E n \in Malformed(fmt, read[g]) : p = <<g, n>>
  <2>1. PICK T \in {{<<f, m>> : m \in Malformed(fmt, read[f])} : f \in DOMAIN read} : p \in T
    BY <1>4 DEF MalformedPlaces
  <2>2. PICK g \in DOMAIN read : T = {<<g, m>> : m \in Malformed(fmt, read[g])}
    OBVIOUS
  <2> QED
    BY <2>1, <2>2
<1> QED
  BY <1>1, <1>2, <1>3, <1>4

\* One more file is read: its places are added to those of the others, and are
\* none of theirs.
LEMMA PlacesGrow ==
    ASSUME NEW fmt, NEW read, NEW f, f \notin DOMAIN read, NEW lines,
           NEW more, DOMAIN more = DOMAIN read \cup {f}, more[f] = lines,
           \A g \in DOMAIN read : more[g] = read[g]
    PROVE  /\ ParsedPlaces(fmt, more) =
                  ParsedPlaces(fmt, read) \cup {<<f, n>> : n \in Parsed(fmt, lines)}
           /\ MalformedPlaces(fmt, more) =
                  MalformedPlaces(fmt, read) \cup {<<f, n>> : n \in Malformed(fmt, lines)}
           /\ ParsedPlaces(fmt, read) \cap {<<f, n>> : n \in Parsed(fmt, lines)} = {}
           /\ MalformedPlaces(fmt, read) \cap {<<f, n>> : n \in Malformed(fmt, lines)} = {}
<1>1. /\ DOMAIN more = DOMAIN read \cup {f}
      /\ more[f] = lines
      /\ \A g \in DOMAIN read : more[g] = read[g]
  OBVIOUS
<1>6. ParsedPlaces(fmt, more) =
          ParsedPlaces(fmt, read) \cup {<<f, n>> : n \in Parsed(fmt, lines)}
  <2>1. ASSUME NEW p, p \in ParsedPlaces(fmt, more)
        PROVE  p \in ParsedPlaces(fmt, read) \cup {<<f, n>> : n \in Parsed(fmt, lines)}
    <3>0. PICK g \in DOMAIN more : \E n \in Parsed(fmt, more[g]) : p = <<g, n>>
      BY <2>1, PlacesAre
    <3>1. PICK n \in Parsed(fmt, more[g]) : p = <<g, n>>
      BY <3>0
    <3>2. CASE g = f
      BY <1>1, <3>1, <3>2
    <3>3. CASE g # f
      <4>1. g \in DOMAIN read /\ n \in Parsed(fmt, read[g])
        BY <1>1, <3>3
      <4> QED
        BY <3>1, <4>1, PlacesAre
    <3> QED
      BY <3>2, <3>3
  <2>2. ASSUME NEW p, p \in ParsedPlaces(fmt, read)
        PROVE  p \in ParsedPlaces(fmt, more)
    <3>0. PICK g \in DOMAIN read : \E n \in Parsed(fmt, read[g]) : p = <<g, n>>
      BY <2>2, PlacesAre
    <3>1. PICK n \in Parsed(fmt, read[g]) : p = <<g, n>>
      BY <3>0
    <3>2. g \in DOMAIN more /\ n \in Parsed(fmt, more[g])
      BY <1>1
    <3> QED
      BY <3>1, <3>2, PlacesAre
  <2>3. ASSUME NEW n \in Parsed(fmt, lines)
        PROVE  <<f, n>> \in ParsedPlaces(fmt, more)
    <3>1. f \in DOMAIN more /\ n \in Parsed(fmt, more[f])
      BY <1>1
    <3> QED
      BY <3>1, PlacesAre
  <2> QED
    BY <2>1, <2>2, <2>3
<1>7. MalformedPlaces(fmt, more) =
          MalformedPlaces(fmt, read) \cup {<<f, n>> : n \in Malformed(fmt, lines)}
  <2>1. ASSUME NEW p, p \in MalformedPlaces(fmt, more)
        PROVE  p \in MalformedPlaces(fmt, read) \cup {<<f, n>> : n \in Malformed(fmt, lines)}
    <3>0. PICK g \in DOMAIN more : \E n \in Malformed(fmt, more[g]) : p = <<g, n>>
      BY <2>1, PlacesAre
    <3>1. PICK n \in Malformed(fmt, more[g]) : p = <<g, n>>
      BY <3>0
    <3>2. CASE g = f
      BY <1>1, <3>1, <3>2
    <3>3. CASE g # f
      <4>1. g \in DOMAIN read /\ n \in Malformed(fmt, read[g])
        BY <1>1, <3>3
      <4> QED
        BY <3>1, <4>1, PlacesAre
    <3> QED
      BY <3>2, <3>3
  <2>2. ASSUME NEW p, p \in MalformedPlaces(fmt, read)
        PROVE  p \in MalformedPlaces(fmt, more)
    <3>0. PICK g \in DOMAIN read : \E n \in Malformed(fmt, read[g]) : p = <<g, n>>
      BY <2>2, PlacesAre
    <3>1. PICK n \in Malformed(fmt, read[g]) : p = <<g, n>>
      BY <3>0
    <3>2. g \in DOMAIN more /\ n \in Malformed(fmt, more[g])
      BY <1>1
    <3> QED
      BY <3>1, <3>2, PlacesAre
  <2>3. ASSUME NEW n \in Malformed(fmt, lines)
        PROVE  <<f, n>> \in MalformedPlaces(fmt, more)
    <3>1. f \in DOMAIN more /\ n \in Malformed(fmt, more[f])
      BY <1>1
    <3> QED
      BY <3>1, PlacesAre
  <2> QED
    BY <2>1, <2>2, <2>3
<1>8. ParsedPlaces(fmt, read) \cap {<<f, n>> : n \in Parsed(fmt, lines)} = {}
  <2>1. ASSUME NEW n, <<f, n>> \in ParsedPlaces(fmt, read)
        PROVE  FALSE
    <3>0. PICK g \in DOMAIN read : \E m \in Parsed(fmt, read[g]) : <<f, n>> = <<g, m>>
      BY <2>1, PlacesAre
    <3>1. PICK m \in Parsed(fmt, read[g]) : <<f, n>> = <<g, m>>
      BY <3>0
    <3> QED
      BY <3>1
  <2> QED
    BY <2>1
<1>9. MalformedPlaces(fmt, read) \cap {<<f, n>> : n \in Malformed(fmt, lines)} = {}
  <2>1. ASSUME NEW n, <<f, n>> \in MalformedPlaces(fmt, read)
        PROVE  FALSE
    <3>0. PICK g \in DOMAIN read : \E m \in Malformed(fmt, read[g]) : <<f, n>> = <<g, m>>
      BY <2>1, PlacesAre
    <3>1. PICK m \in Malformed(fmt, read[g]) : <<f, n>> = <<g, m>>
      BY <3>0
    <3> QED
      BY <3>1
  <2> QED
    BY <2>1
<1> QED
  BY <1>6, <1>7, <1>8, <1>9

-----------------------------------------------------------------------------
(* Marking                                                                 *)

\* A row is in order, or it has one of the common reasons.
LEMMA CommonRejects ==
    ASSUME NEW row \in Row, ContentAssumption
    PROVE  /\ CommonReject(row) \in (Reasons \ {"null_cluster"}) \cup {None}
           /\ CommonReject(row) = None =>
                  row.id # None /\ ~RaOutOfRange(row) /\ ~DecOutOfRange(row)
  BY DEF CommonReject, Reasons, ContentAssumption

\* The common checks mark an unmarked table and neither add nor lose a row.
LEMMA MarkedOnce ==
    ASSUME NEW staging \in SUBSET Staged, IsFiniteSet(staging),
           \A s \in staging : s.reject = None, ContentAssumption
    PROVE  /\ MarkCommon(staging) \subseteq Staged
           /\ IsFiniteSet(MarkCommon(staging))
           /\ Cardinality(MarkCommon(staging)) = Cardinality(staging)
           /\ {s.place : s \in MarkCommon(staging)} = {s.place : s \in staging}
           /\ \A s \in MarkCommon(staging) : s.reject = CommonReject(s.row)
<1> DEFINE mark == [s \in staging |-> [s EXCEPT !.reject = CommonReject(s.row)]]
<1>1. MarkCommon(staging) = {mark[s] : s \in staging}
  BY DEF MarkCommon
<1>2. \A s \in staging : /\ s \in Staged
                         /\ CommonReject(s.row) \in Reasons \cup {None}
  BY CommonRejects DEF Staged
<1>3. \A s \in staging : /\ mark[s] \in Staged
                         /\ mark[s].place = s.place
                         /\ mark[s].row = s.row
                         /\ mark[s].reject = CommonReject(s.row)
  BY <1>2 DEF Staged
<1>4. \A s, t \in staging : mark[s] = mark[t] => s = t
  <2> SUFFICES ASSUME NEW s \in staging, NEW t \in staging, mark[s] = mark[t]
               PROVE  s = t
    OBVIOUS
  <2>1. s.place = t.place /\ s.row = t.row /\ s.reject = t.reject
    BY <1>3
  <2> QED
    BY <1>2, <2>1 DEF Staged
<1>5. mark \in [staging -> MarkCommon(staging)]
  BY <1>1
<1>6. \A z \in MarkCommon(staging) : \E s \in staging : mark[s] = z
  BY <1>1
<1> HIDE DEF mark
<1>7. /\ IsFiniteSet(MarkCommon(staging))
      /\ Cardinality(MarkCommon(staging)) = Cardinality(staging)
  BY <1>4, <1>5, <1>6, OneToOne
<1>8. {s.place : s \in MarkCommon(staging)} = {s.place : s \in staging}
  BY <1>1, <1>3
<1>9. /\ MarkCommon(staging) \subseteq Staged
      /\ \A s \in MarkCommon(staging) : s.reject = CommonReject(s.row)
  BY <1>1, <1>3
<1> QED
  BY <1>7, <1>8, <1>9

\* Valid and rejected rows are all the rows.
LEMMA ValidOrRejected ==
    ASSUME NEW staging, IsFiniteSet(staging)
    PROVE  /\ IsFiniteSet(Valid(staging)) /\ IsFiniteSet(Rejected(staging))
           /\ Cardinality(Valid(staging)) \in Nat
           /\ Cardinality(Rejected(staging)) \in Nat
           /\ Cardinality(staging) =
                  Cardinality(Valid(staging)) + Cardinality(Rejected(staging))
<1>1. /\ Valid(staging) \cup Rejected(staging) = staging
      /\ Valid(staging) \cap Rejected(staging) = {}
  BY DEF Valid, Rejected
<1>2. Valid(staging) \in SUBSET staging /\ Rejected(staging) \in SUBSET staging
  BY <1>1
<1>3. IsFiniteSet(Valid(staging)) /\ IsFiniteSet(Rejected(staging))
  BY <1>2, FS_Subset
<1>4. Cardinality(staging) = Cardinality(Valid(staging)) + Cardinality(Rejected(staging))
  BY <1>1, <1>3, Apart
<1> QED
  BY <1>3, <1>4, FS_CardinalityType

\* Once Stetson's rows without a cluster are marked, none of them is valid; where
\* there was none to mark, the table is as the common checks left it.
LEMMA ClusterMarked ==
    ASSUME NEW fmt, NEW staging \in SUBSET Staged, None \notin Reasons,
           fmt = "stetson_globs_dat" =>
               RejectedFor("null_cluster", MarkFamily(fmt, staging)) = {}
    PROVE  /\ MarkFamily(fmt, staging) = staging
           /\ fmt = "stetson_globs_dat" => \A s \in Valid(staging) : s.row.cluster # None
<1>1. CASE fmt # "stetson_globs_dat"
  BY <1>1 DEF MarkFamily
<1>2. CASE fmt = "stetson_globs_dat"
  <2> DEFINE mark(s) == IF s.reject = None /\ s.row.cluster = None
                        THEN [s EXCEPT !.reject = "null_cluster"] ELSE s
  <2>1. MarkFamily(fmt, staging) = {mark(s) : s \in staging}
    BY <1>2 DEF MarkFamily
  <2>2. \A s \in staging : ~(s.reject = None /\ s.row.cluster = None)
    <3> SUFFICES ASSUME NEW s \in staging, s.reject = None, s.row.cluster = None
                 PROVE  FALSE
      OBVIOUS
    <3>1. mark(s).reject = "null_cluster"
      BY DEF Staged
    <3>2. mark(s) \in RejectedFor("null_cluster", MarkFamily(fmt, staging))
      BY <2>1, <3>1 DEF RejectedFor
    <3> QED
      BY <1>2, <3>2
  <2>3. \A s \in staging : mark(s) = s
    BY <2>2
  <2> HIDE DEF mark
  <2>4. MarkFamily(fmt, staging) = staging
    BY <2>1, <2>3
  <2> QED
    BY <2>2, <2>4 DEF Valid
<1> QED
  BY <1>1, <1>2

-----------------------------------------------------------------------------
(* Checks                                                                  *)

\* The parsers' formats have checks of their own.
LEMMA CheckOfFamily ==
    ASSUME NEW fmt \in Formats, NEW staging
    PROVE  /\ \E name : Check(name, "warning", ~Implausible(staging)) \in FamilyChecks(fmt, staging)
           /\ fmt = "vsx_dat" =>
                  Check("vsx_oid_unique", "critical", ~IdRepeats(staging))
                      \in FamilyChecks(fmt, staging)
           /\ fmt = "stetson_globs_dat" =>
                  Check("stetson_cluster_present", "critical",
                        RejectedFor("null_cluster", staging) = {})
                      \in FamilyChecks(fmt, staging)
<1>1. CASE fmt \in {"apass_dr6_sum", "apass_dr10_txt"}
  <2>1. FamilyChecks(fmt, staging) = ApassChecks(staging)
    BY <1>1 DEF FamilyChecks
  <2>2. Check("apass_magnitude_range", "warning", ~Implausible(staging)) \in ApassChecks(staging)
    BY DEF ApassChecks
  <2> QED
    BY <1>1, <2>1, <2>2
<1>2. CASE fmt = "vsx_dat"
  <2>1. FamilyChecks(fmt, staging) = VsxChecks(staging)
    BY <1>2 DEF FamilyChecks
  <2>2. /\ Check("vsx_magnitude_consistency", "warning", ~Implausible(staging))
               \in VsxChecks(staging)
        /\ Check("vsx_oid_unique", "critical", ~IdRepeats(staging)) \in VsxChecks(staging)
    BY DEF VsxChecks
  <2> QED
    BY <1>2, <2>1, <2>2
<1>3. CASE fmt = "landolt_dat"
  <2>1. FamilyChecks(fmt, staging) = LandoltChecks(staging)
    BY <1>3 DEF FamilyChecks
  <2>2. Check("landolt_v_range", "warning", ~Implausible(staging)) \in LandoltChecks(staging)
    BY DEF LandoltChecks
  <2> QED
    BY <1>3, <2>1, <2>2
<1>4. CASE fmt = "stetson_globs_dat"
  <2>1. FamilyChecks(fmt, staging) = StetsonChecks(staging)
    BY <1>4 DEF FamilyChecks
  <2>2. /\ Check("stetson_magnitude_range", "warning", ~Implausible(staging))
               \in StetsonChecks(staging)
        /\ Check("stetson_cluster_present", "critical",
                 RejectedFor("null_cluster", staging) = {}) \in StetsonChecks(staging)
    BY DEF StetsonChecks
  <2> QED
    BY <1>4, <2>1, <2>2
<1> QED
  BY <1>1, <1>2, <1>3, <1>4 DEF Formats

\* Where no check of a level fails, each of them passed.
LEMMA CheckPassed ==
    ASSUME NEW checks, NEW name, NEW level, NEW passed,
           Check(name, level, passed) \in checks, ~Failing(level, checks)
    PROVE  passed
<1>1. ~(Check(name, level, passed).level = level /\ ~Check(name, level, passed).passed)
  BY DEF Failing
<1> QED
  BY <1>1 DEF Check

\* Phase A lets a table pass only if its valid rows can be served; if it has no
\* warning either, then no row is rejected or implausible.
LEMMA PassedStaging ==
    ASSUME NEW fmt \in Formats, ContentAssumption,
           NEW staging \in SUBSET Staged, IsFiniteSet(staging),
           \A s \in staging : s.reject = None,
           NEW common, common = MarkCommon(staging),
           NEW marked, marked = MarkFamily(fmt, common),
           NEW checks, checks = CommonChecks(common) \cup FamilyChecks(fmt, marked),
           ~Failing("critical", checks)
    PROVE  /\ marked = common
           /\ Fits(fmt, Valid(marked))
           /\ ~Failing("warning", checks) => Rejected(marked) = {} /\ ~Implausible(marked)
<1>1. /\ common \subseteq Staged
      /\ \A s \in common : s.reject = CommonReject(s.row) /\ s.row \in Row
  BY MarkedOnce DEF Staged
<1>2. fmt = "stetson_globs_dat" => RejectedFor("null_cluster", marked) = {}
  <2>1. SUFFICES ASSUME fmt = "stetson_globs_dat"
                 PROVE  RejectedFor("null_cluster", marked) = {}
    OBVIOUS
  <2>2. Check("stetson_cluster_present", "critical", RejectedFor("null_cluster", marked) = {})
            \in checks
    BY <2>1, CheckOfFamily
  <2> QED
    BY <2>2, CheckPassed
<1>3. /\ marked = common
      /\ fmt = "stetson_globs_dat" => \A s \in Valid(common) : s.row.cluster # None
  BY <1>1, <1>2, ClusterMarked DEF ContentAssumption
<1>4. fmt = "vsx_dat" => ~IdRepeats(marked)
  <2>1. SUFFICES ASSUME fmt = "vsx_dat"
                 PROVE  ~IdRepeats(marked)
    OBVIOUS
  <2>2. Check("vsx_oid_unique", "critical", ~IdRepeats(marked)) \in checks
    BY <2>1, CheckOfFamily
  <2> QED
    BY <2>2, CheckPassed
<1>5. Fits(fmt, Valid(marked))
  <2>1. \A s \in Valid(marked) : /\ s.row.id # None
                                 /\ ~RaOutOfRange(s.row)
                                 /\ ~DecOutOfRange(s.row)
    BY <1>1, <1>3, CommonRejects DEF Valid
  <2>2. fmt = "vsx_dat" => \A s, t \in Valid(marked) : s.row.id = t.row.id => s = t
    BY <1>4 DEF IdRepeats
  <2> QED
    BY <1>3, <2>1, <2>2 DEF Fits
<1>6. ASSUME ~Failing("warning", checks)
      PROVE  Rejected(marked) = {} /\ ~Implausible(marked)
  <2>1. PICK name : Check(name, "warning", ~Implausible(marked)) \in checks
    BY CheckOfFamily
  <2>2. ~Implausible(marked)
    BY <1>6, <2>1, CheckPassed
  <2>3. /\ Check("native_id_not_null", "critical", RejectedFor("null_native_id", common) = {})
               \in checks
        /\ Check("ra_range", "warning", RejectedFor("ra_out_of_range", common) = {}) \in checks
        /\ Check("dec_range", "warning", RejectedFor("dec_out_of_range", common) = {}) \in checks
    BY DEF CommonChecks
  <2>4. RejectedFor("null_native_id", common) = {}
    BY <2>3, CheckPassed
  <2>5. RejectedFor("ra_out_of_range", common) = {}
    BY <1>6, <2>3, CheckPassed
  <2>6. RejectedFor("dec_out_of_range", common) = {}
    BY <1>6, <2>3, CheckPassed
  <2>7. \A s \in common : s.reject \in {None, "null_native_id", "ra_out_of_range", "dec_out_of_range"}
    BY <1>1, CommonRejects DEF Reasons
  <2>8. Rejected(common) = {}
    BY <2>4, <2>5, <2>6, <2>7 DEF Rejected, RejectedFor
  <2> QED
    BY <1>3, <2>2, <2>8
<1> QED
  BY <1>3, <1>5, <1>6

\* What is served passes the checks that validate makes of it.
LEMMA ServedPasses ==
    ASSUME NEW fmt, NEW rows, IsFiniteSet(rows), rows # {}, Fits(fmt, rows), NEW expected
    PROVE  ~Failing("critical", ProductionChecks(Cardinality(rows), expected) \cup RangeChecks(rows))
<1>1. Cardinality(rows) \in Nat /\ Cardinality(rows) # 0
  BY FS_EmptySet, FS_CardinalityType
<1>2. Cardinality(rows) > 0
  BY <1>1
<1>3. ASSUME NEW c \in ProductionChecks(Cardinality(rows), expected), c.level = "critical"
      PROVE  c.passed
  <2>1. c \in {Check("production_rows", "critical", Cardinality(rows) > 0),
               Check("row_count_vs_expected", "warning", Cardinality(rows) >= RowFloor(expected))}
    BY DEF ProductionChecks
  <2>2. Check("row_count_vs_expected", "warning",
              Cardinality(rows) >= RowFloor(expected)).level # "critical"
    BY DEF Check
  <2>3. c = Check("production_rows", "critical", Cardinality(rows) > 0)
    BY <1>3, <2>1, <2>2
  <2> QED
    BY <1>2, <2>3 DEF Check
<1>4. ASSUME NEW c \in RangeChecks(rows)
      PROVE  c.passed
  <2>1. ~\E s \in rows : RaOutOfRange(s.row)
    BY DEF Fits
  <2>2. ~\E s \in rows : DecOutOfRange(s.row)
    BY DEF Fits
  <2>3. CASE c = Check("production_ra_range", "critical", ~\E s \in rows : RaOutOfRange(s.row))
    BY <2>1, <2>3 DEF Check
  <2>4. CASE c = Check("production_dec_range", "critical", ~\E s \in rows : DecOutOfRange(s.row))
    BY <2>2, <2>4 DEF Check
  <2> QED
    BY <2>3, <2>4 DEF RangeChecks
<1> QED
  BY <1>3, <1>4 DEF Failing

\* A status is one of three, and each says what it says.
LEMMA Concluded ==
    ASSUME NEW checks
    PROVE  /\ Conclude(checks) \in Statuses
           /\ Conclude(checks) # "failed" => ~Failing("critical", checks)
           /\ ~Failing("critical", checks) => Conclude(checks) # "failed"
           /\ Conclude(checks) = "passed" => ~Failing("warning", checks)
  BY DEF Conclude, Statuses

-----------------------------------------------------------------------------
(* The invariant                                                           *)

\* Nothing has been imported at first.
LEMMA InitHolds ==
    ASSUME ContentAssumption, ContentInit
    PROVE  ContentInv
<1>1. TreeOK
  BY DEF ContentInit, TreeOK, ContentAssumption, Files
<1>2. PartitionOK
  BY FS_EmptySet DEF ContentInit, PartitionOK, Fits
<1> QED
  BY <1>1, <1>2 DEF ContentInit, ContentInv, ContentAssumption

\* What an attempt has read stays what it is while the files change.
LEMMA SourceMoves ==
    ASSUME ContentAssumption, ContentInv, NEW f \in Files,
           Delete(f) \/ \E lines \in Uploads, stamp \in Stamps : Upload(f, lines, stamp)
    PROVE  ContentInv'
<1>1. UNCHANGED <<format, release, partition, rejects, job, imports>>
  BY DEF Delete, Upload
<1>2. uploads' \in 0..MaxUploads
  BY DEF Delete, Upload, ContentInv, ContentAssumption
<1>3. PICK to \in File \cup {None} : tree' = [tree EXCEPT ![f] = to]
  <2>1. CASE Delete(f)
    BY <2>1 DEF Delete
  <2>2. ASSUME NEW lines \in Uploads, NEW stamp \in Stamps, Upload(f, lines, stamp)
        PROVE  \E to \in File \cup {None} : tree' = [tree EXCEPT ![f] = to]
    <3>1. [lines |-> lines, stamp |-> stamp] \in File
      BY DEF File, ContentAssumption
    <3> QED
      BY <2>2, <3>1 DEF Upload
  <2> QED
    BY <2>1, <2>2
<1>4. TreeOK'
  BY <1>1, <1>3 DEF ContentInv, TreeOK, Files
<1>5. (job # None => JobOK(job))'
  BY <1>1 DEF ContentInv, JobOK, JobShape, StagingOK, Judged, Files
<1>6. PartitionOK' /\ (release # None => ReleaseOK)'
  BY <1>1 DEF ContentInv, PartitionOK, ReleaseOK
<1> QED
  BY <1>1, <1>2, <1>4, <1>5, <1>6 DEF ContentInv

\* An attempt that ends leaves everything but itself.
LEMMA EndHolds ==
    ASSUME ContentInv, job' = None,
           UNCHANGED <<format, tree, release, partition, uploads, imports>>
    PROVE  ContentInv'
<1>1. TreeOK'
  BY DEF ContentInv, TreeOK, Files
<1>2. PartitionOK' /\ (release # None => ReleaseOK)'
  BY DEF ContentInv, PartitionOK, ReleaseOK
<1> QED
  BY <1>1, <1>2 DEF ContentInv

\* An attempt that goes on does so in a state that is in order.
LEMMA JobMoves ==
    ASSUME ContentInv, JobOK(job)',
           UNCHANGED <<format, tree, release, partition, uploads>>, imports' \in 0..MaxImports
    PROVE  ContentInv'
<1>1. TreeOK'
  BY DEF ContentInv, TreeOK, Files
<1>2. PartitionOK' /\ (release # None => ReleaseOK)'
  BY DEF ContentInv, PartitionOK, ReleaseOK
<1> QED
  BY <1>1, <1>2 DEF ContentInv

\* An attempt begins with nothing read.
LEMMA DiscoverHolds ==
    ASSUME ContentAssumption, ContentInv, NEW mode \in {"manifest", "content"},
           NEW replace \in BOOLEAN, Discover(mode, replace)
    PROVE  ContentInv'
<1> DEFINE j == job'
<1>1. j = [pc |-> "checksum", mode |-> mode, replace |-> replace,
           found |-> [f \in Present |-> tree[f].stamp], checksum |-> None,
           read |-> [f \in {} |-> <<>>], staging |-> {}, parsed |-> 0, malformed |-> 0,
           rejected |-> 0, checks |-> {}]
  BY DEF Discover
<1>2. format' = format /\ imports' \in 0..MaxImports
  BY DEF Discover, ContentInv, ContentAssumption
<1>3. Present \subseteq Files
  BY DEF Present
<1>4. JobShape(job)'
  BY <1>1, <1>2, <1>3 DEF JobShape, Job, Files
<1>5. ParsedPlaces(format, j.read) = {} /\ MalformedPlaces(format, j.read) = {}
  BY <1>1 DEF ParsedPlaces, MalformedPlaces
<1>6. StagingOK(job)'
  BY <1>1, <1>2, <1>5, FS_EmptySet DEF StagingOK
<1>7. JobOK(job)'
  BY <1>1, <1>4, <1>6 DEF JobOK
<1> QED
  BY <1>2, <1>7, JobMoves DEF Discover

\* Before the files are read an attempt only takes notes.
LEMMA ChecksumHolds ==
    ASSUME ContentInv, Checksum
    PROVE  ContentInv'
<1> DEFINE sum == IF job.mode = "manifest" THEN <<"manifest", job.found>>
                  ELSE <<"content", LinesOf(DOMAIN job.found)>>
<1>1. JobOK(job) /\ job.pc = "checksum"
  BY DEF Checksum, ContentInv
<1>2. job' = [job EXCEPT !.pc = "open", !.checksum = sum] /\ format' = format
  BY DEF Checksum
<1> HIDE DEF sum
<1>3. JobOK(job)'
  BY <1>1, <1>2 DEF JobOK, JobShape, StagingOK, Job, Files
<1>4. imports' \in 0..MaxImports
  BY DEF Checksum, ContentInv
<1> QED
  BY <1>3, <1>4, JobMoves DEF Checksum

\* So it does when it decides to import.
LEMMA OpenHolds ==
    ASSUME ContentInv, OpenImport
    PROVE  ContentInv'
<1>1. JobOK(job) /\ job.pc = "open"
  BY DEF OpenImport, ContentInv
<1>2. job' = [job EXCEPT !.pc = "stage"] /\ format' = format
  BY DEF OpenImport
<1>3. JobOK(job)'
  BY <1>1, <1>2 DEF JobOK, JobShape, StagingOK, Job, Files
<1>4. imports' \in 0..MaxImports
  BY DEF OpenImport, ContentInv
<1> QED
  BY <1>3, <1>4, JobMoves DEF OpenImport

\* A file adds as many rows, and as many to the counters, as it has lines for.
LEMMA StageHolds ==
    ASSUME ContentAssumption, ContentInv, StageFile
    PROVE  ContentInv'
<1> DEFINE f == NextFile
           lines == tree[f].lines
           good == Parsed(format, lines)
           bad == Malformed(format, lines)
           rows == {[place |-> <<f, n>>, row |-> RowOf(lines[n]), reject |-> None] : n \in good}
           more == [g \in DOMAIN job.read \cup {f} |-> IF g = f THEN lines ELSE job.read[g]]
<1>1. JobOK(job) /\ job.pc = "stage" /\ TreeOK
  BY DEF StageFile, ContentInv
<1>2. /\ job' = [job EXCEPT !.read = more, !.staging = @ \cup rows,
                             !.parsed = @ + Cardinality(good),
                             !.malformed = @ + Cardinality(bad)]
      /\ format' = format /\ tree[f] # None /\ Unread # {}
  BY <1>1 DEF StageFile, JobOK, JobShape
<1>3. f \in DOMAIN job.found /\ f \notin DOMAIN job.read /\ f \in Files
  <2>1. Unread \subseteq Files /\ Files \subseteq Nat
    BY <1>1 DEF Unread, JobOK, JobShape, Files, ContentAssumption, TreeOK
  <2>2. \E g \in Unread : \A h \in Unread : g <= h
    <3>1. Unread \in SUBSET Nat
      BY <2>1
    <3> QED
      BY <1>2, <3>1, Least
  <2>3. NextFile \in Unread
    BY <2>2 DEF NextFile
  <2> QED
    BY <2>1, <2>3 DEF Unread
<1>4. f \in Nat /\ tree[f] \in File /\ lines \in Seq(Line) /\ format \in Formats
  BY <1>1, <1>2, <1>3 DEF TreeOK, File, Files, ContentAssumption
<1> HIDE DEF f, lines
<1>5. /\ IsFiniteSet(good) /\ IsFiniteSet(bad)
      /\ good \subseteq Nat
  BY <1>4, FileParsed
<1>6. rows \subseteq Staged
  <2> SUFFICES ASSUME NEW n \in good
               PROVE  [place |-> <<f, n>>, row |-> RowOf(lines[n]), reject |-> None] \in Staged
    OBVIOUS
  <2>1. RowOf(lines[n]) \in Row
    BY <1>4, RowTyped
  <2> QED
    BY <1>4, <1>5, <2>1 DEF Staged
<1>7. IsFiniteSet(rows) /\ Cardinality(rows) = Cardinality(good)
  <2> DEFINE row == [n \in good |->
                       [place |-> <<f, n>>, row |-> RowOf(lines[n]), reject |-> None]]
  <2>1. row \in [good -> rows]
    OBVIOUS
  <2>2. \A x, y \in good : row[x] = row[y] => x = y
    <3> SUFFICES ASSUME NEW x \in good, NEW y \in good, row[x] = row[y]
                 PROVE  x = y
      OBVIOUS
    <3>1. row[x].place = <<f, x>> /\ row[y].place = <<f, y>>
      OBVIOUS
    <3> QED
      BY <3>1
  <2>3. \A z \in rows : \E x \in good : row[x] = z
    OBVIOUS
  <2> HIDE DEF row, rows, good
  <2> QED
    BY <1>5, <2>1, <2>2, <2>3, OneToOne
<1>8. \A s \in rows : s.place \in {<<f, n>> : n \in good} /\ s.reject = None
  OBVIOUS
<1>9. {s.place : s \in rows} = {<<f, n>> : n \in good}
  <2>1. ASSUME NEW n \in good
        PROVE  <<f, n>> \in {s.place : s \in rows}
    <3> DEFINE s == [place |-> <<f, n>>, row |-> RowOf(lines[n]), reject |-> None]
    <3>1. s \in rows /\ s.place = <<f, n>>
      OBVIOUS
    <3> HIDE DEF s, rows
    <3> QED
      BY <3>1
  <2>2. ASSUME NEW s \in rows
        PROVE  s.place \in {<<f, n>> : n \in good}
    BY <1>8
  <2> HIDE DEF rows, good
  <2> QED
    BY <2>1, <2>2
<1>10. /\ ParsedPlaces(format, more) = ParsedPlaces(format, job.read) \cup {<<f, n>> : n \in good}
       /\ MalformedPlaces(format, more)
              = MalformedPlaces(format, job.read) \cup {<<f, n>> : n \in bad}
       /\ ParsedPlaces(format, job.read) \cap {<<f, n>> : n \in good} = {}
       /\ MalformedPlaces(format, job.read) \cap {<<f, n>> : n \in bad} = {}
  <2>1. /\ DOMAIN more = DOMAIN job.read \cup {f} /\ more[f] = lines
        /\ \A g \in DOMAIN job.read : more[g] = job.read[g]
    BY <1>3
  <2> HIDE DEF more
  <2> QED
    BY <1>3, <2>1, PlacesGrow
<1>11. job.staging \cap rows = {}
  <2> SUFFICES ASSUME NEW s \in job.staging, s \in rows
               PROVE  FALSE
    OBVIOUS
  <2>1. s.place \in ParsedPlaces(format, job.read)
    BY <1>1 DEF JobOK, StagingOK
  <2> HIDE DEF rows
  <2> QED
    BY <1>8, <1>10, <2>1
<1>12. JobShape(job)'
  <2>1. DOMAIN more \subseteq DOMAIN job.found /\ more \in [DOMAIN more -> Seq(Line)]
    BY <1>1, <1>3, <1>4 DEF JobOK, JobShape
  <2> HIDE DEF rows, more, good, bad
  <2> QED
    BY <1>1, <1>2, <2>1 DEF JobOK, JobShape, Files
<1> HIDE DEF rows, more, good, bad
<1>13. /\ job'.read = more /\ job'.staging = job.staging \cup rows
       /\ job'.parsed = job.parsed + Cardinality(good)
       /\ job'.malformed = job.malformed + Cardinality(bad)
       /\ job'.pc = "stage"
  BY <1>1, <1>2 DEF JobOK, JobShape
<1>14. StagingOK(job)'
  <2>1. StagingOK(job)
    BY <1>1 DEF JobOK
  <2>2. /\ IsFiniteSet(job.staging \cup rows)
        /\ Cardinality(job.staging \cup rows) = Cardinality(job.staging) + Cardinality(rows)
    BY <1>7, <1>11, <2>1, Apart DEF StagingOK
  <2>3. {s.place : s \in job.staging \cup rows} = ParsedPlaces(format, more)
    BY <1>9, <1>10, <2>1 DEF StagingOK
  <2>4. /\ IsFiniteSet({<<f, n>> : n \in bad})
        /\ Cardinality({<<f, n>> : n \in bad}) = Cardinality(bad)
    BY <1>5, Numbered
  <2>5. /\ IsFiniteSet(MalformedPlaces(format, more))
        /\ Cardinality(MalformedPlaces(format, more))
               = Cardinality(MalformedPlaces(format, job.read)) + Cardinality(bad)
    BY <1>10, <2>1, <2>4, Apart DEF StagingOK
  <2> QED
    BY <1>2, <1>6, <1>7, <1>13, <2>1, <2>2, <2>3, <2>5 DEF StagingOK
<1>15. JobOK(job)'
  <2>1. \A s \in job'.staging : s.reject = None
    BY <1>1, <1>8, <1>13 DEF JobOK
  <2> QED
    BY <1>12, <1>13, <1>14, <2>1 DEF JobOK
<1>16. imports' \in 0..MaxImports
  BY DEF StageFile, ContentInv
<1> QED
  BY <1>15, <1>16, JobMoves DEF StageFile

\* Phase A ends with a table whose valid rows can be served, or with nothing.
LEMMA ValidateHolds ==
    ASSUME ContentAssumption, ContentInv, ValidateStaging
    PROVE  ContentInv'
<1> DEFINE common == MarkCommon(job.staging)
<1>1. JobOK(job) /\ job.pc = "stage" /\ TreeOK
  BY DEF ValidateStaging, ContentInv
<1>2. /\ IsFiniteSet(job.staging) /\ job.staging \in SUBSET Staged
      /\ \A s \in job.staging : s.reject = None
  BY <1>1 DEF JobOK, StagingOK
<1>3. CASE Conclude(StagingChecks) = "failed"
  BY <1>3, EndHolds DEF ValidateStaging
<1>4. CASE Conclude(StagingChecks) # "failed"
  <2>1. ~Failing("critical", StagingChecks)
    BY <1>4, Concluded
  <2>2. /\ Marked = MarkFamily(format, common)
        /\ StagingChecks = CommonChecks(common) \cup FamilyChecks(format, Marked)
        /\ format \in Formats
    BY <1>1 DEF Marked, StagingChecks, TreeOK
  <2>3. /\ Marked = common
        /\ Fits(format, Valid(Marked))
        /\ ~Failing("warning", StagingChecks) => Rejected(Marked) = {} /\ ~Implausible(Marked)
    BY <1>2, <2>1, <2>2, PassedStaging
  <2>4. /\ job' = [job EXCEPT !.pc = "publish", !.staging = Marked, !.checks = StagingChecks,
                              !.rejected = Cardinality(Rejected(common))]
        /\ format' = format
    BY <1>4 DEF ValidateStaging
  <2>5. /\ common \subseteq Staged
        /\ IsFiniteSet(common)
        /\ Cardinality(common) = Cardinality(job.staging)
        /\ {s.place : s \in common} = {s.place : s \in job.staging}
    BY <1>2, MarkedOnce
  <2> HIDE DEF common
  <2>6. JobShape(job)'
    BY <1>1, <2>4 DEF JobOK, JobShape, Job, Files
  <2>7. /\ job'.pc = "publish" /\ job'.staging = Marked /\ job'.checks = StagingChecks
        /\ job'.rejected = Cardinality(Rejected(common))
        /\ job'.read = job.read /\ job'.parsed = job.parsed /\ job'.malformed = job.malformed
    BY <1>1, <2>4 DEF JobOK, JobShape
  <2>8. StagingOK(job)'
    BY <1>1, <2>3, <2>4, <2>5, <2>7 DEF JobOK, StagingOK
  <2>9. Judged(job)'
    BY <2>3, <2>4, <2>7 DEF Judged
  <2>10. JobOK(job)'
    BY <2>6, <2>7, <2>8, <2>9 DEF JobOK
  <2>11. imports' \in 0..MaxImports
    BY DEF ValidateStaging, ContentInv
  <2> QED
    BY <2>10, <2>11, JobMoves DEF ValidateStaging
<1> QED
  BY <1>3, <1>4

\* What is published is the valid rows of the table, and the counts are theirs.
LEMMA PublishShows ==
    ASSUME ContentInv, Publish
    PROVE  /\ PartitionOK'
           /\ ReleaseOK'
           /\ release'.parsed = Cardinality(job.staging)
           /\ release'.imported = Cardinality(Valid(job.staging))
<1> DEFINE rows == Valid(job.staging)
           status == Conclude(FinalChecks(job.staging, job.checks))
<1>1. JobOK(job) /\ job.pc = "publish"
  BY DEF Publish, ContentInv
<1>2. StagingOK(job) /\ Judged(job)
  BY <1>1 DEF JobOK
<1>3. /\ partition' = rows /\ format' = format
      /\ release' = [checksum |-> job.checksum, parsed |-> job.parsed,
                     imported |-> Cardinality(rows), rejected |-> job.rejected,
                     status |-> status, read |-> job.read]
  BY DEF Publish, Transformed
<1>4. ~Failing("critical", ProductionChecks(Cardinality(rows), Expected))
  BY Concluded DEF Publish, Transformed
<1>5. /\ IsFiniteSet(rows)
      /\ Cardinality(rows) \in Nat /\ Cardinality(Rejected(job.staging)) \in Nat
      /\ Cardinality(job.staging) = Cardinality(rows) + Cardinality(Rejected(job.staging))
  BY <1>2, ValidOrRejected DEF StagingOK
<1>6. status \in Statuses
  BY Concluded
<1>7. rows \subseteq Staged /\ Fits(format, rows)
  BY <1>2 DEF StagingOK, Judged, Valid
<1>8. rows # {}
  <2>1. Check("production_rows", "critical", Cardinality(rows) > 0)
            \in ProductionChecks(Cardinality(rows), Expected)
    BY DEF ProductionChecks
  <2>2. Cardinality(rows) > 0
    BY <1>4, <2>1 DEF Failing, Check
  <2> QED
    BY <2>2, FS_EmptySet
<1> HIDE DEF rows, status
<1>9. PartitionOK'
  BY <1>3, <1>5, <1>7, <1>8 DEF PartitionOK
<1>10. /\ release'.parsed = Cardinality(job.staging)
       /\ release'.imported = Cardinality(rows)
       /\ release'.rejected = Cardinality(Rejected(job.staging))
       /\ release'.status = status
  BY <1>2, <1>3 DEF StagingOK, Judged
<1>11. ReleaseOK'
  BY <1>3, <1>5, <1>6, <1>10 DEF ReleaseOK
<1> QED
  BY <1>9, <1>10, <1>11 DEF rows

\* A publication completes an attempt.
LEMMA PublishHolds ==
    ASSUME ContentInv, Publish
    PROVE  ContentInv'
<1>1. /\ job' = None /\ UNCHANGED <<format, tree, uploads, imports>>
  BY DEF Publish
<1>2. TreeOK'
  BY <1>1 DEF ContentInv, TreeOK, Files
<1> QED
  BY <1>1, <1>2, PublishShows DEF ContentInv

\* validate decides on the status and on nothing else, and it does not fail what
\* is served.
LEMMA RevalidateShows ==
    ASSUME ContentInv, Revalidate
    PROVE  ReleaseOK' /\ release'.status # "failed"
<1> DEFINE status == Conclude(ProductionChecks(Cardinality(partition), Expected)
                                \cup RangeChecks(partition))
<1>1. release # None /\ ReleaseOK /\ PartitionOK /\ partition # {}
  BY DEF Revalidate, ContentInv, PartitionOK
<1>2. release' = [release EXCEPT !.status = status] /\ partition' = partition
  BY DEF Revalidate
<1>3. status \in Statuses /\ status # "failed"
  BY <1>1, ServedPasses, Concluded DEF PartitionOK
<1> HIDE DEF status
<1> QED
  BY <1>1, <1>2, <1>3 DEF ReleaseOK

\* So it keeps the invariant.
LEMMA RevalidateHolds ==
    ASSUME ContentInv, Revalidate
    PROVE  ContentInv'
<1>1. UNCHANGED <<format, tree, partition, job, uploads, imports>> /\ release # None
  BY DEF Revalidate
<1>2. TreeOK'
  BY <1>1 DEF ContentInv, TreeOK, Files
<1>3. PartitionOK'
  BY <1>1 DEF ContentInv, PartitionOK
<1>4. (job # None => JobOK(job))'
  BY <1>1 DEF ContentInv, JobOK, JobShape, StagingOK, Judged, Files
<1> QED
  BY <1>1, <1>2, <1>3, <1>4, RevalidateShows DEF ContentInv

\* Every step keeps the invariant.
LEMMA ContentStep ==
    ASSUME ContentAssumption, ContentInv, ContentNext
    PROVE  ContentInv'
<1>1. CASE \E mode \in {"manifest", "content"}, replace \in BOOLEAN : Discover(mode, replace)
  BY <1>1, DiscoverHolds
<1>2. CASE Checksum
  BY <1>2, ChecksumHolds
<1>3. CASE SkipImport
  BY <1>3, EndHolds DEF SkipImport
<1>4. CASE OpenImport
  BY <1>4, OpenHolds
<1>5. CASE StageFile
  BY <1>5, StageHolds
<1>6. CASE ValidateStaging
  BY <1>6, ValidateHolds
<1>7. CASE Publish
  BY <1>7, PublishHolds
<1>8. CASE Fail
  BY <1>8, EndHolds DEF Fail
<1>9. CASE \E f \in Files : \/ Delete(f)
                            \/ \E lines \in Uploads, stamp \in Stamps : Upload(f, lines, stamp)
  BY <1>9, SourceMoves
<1>10. CASE Revalidate
  BY <1>10, RevalidateHolds
<1> QED
  BY <1>1, <1>2, <1>3, <1>4, <1>5, <1>6, <1>7, <1>8, <1>9, <1>10 DEF ContentNext, AttemptStep

\* The inductive invariant: what a staging table owes to the files, what Phase A
\* has shown of it, and what the partition and the registry row keep of it.
THEOREM ContentInvariance == ContentSpec => []ContentInv
<1>1. ContentInit => ContentInv
  BY InitHolds, ContentAssumption
<1>2. ContentInv /\ [ContentNext]_contentVars => ContentInv'
  <2> SUFFICES ASSUME ContentInv, [ContentNext]_contentVars
               PROVE  ContentInv'
    OBVIOUS
  <2>1. CASE ContentNext
    BY <2>1, ContentStep, ContentAssumption
  <2>2. CASE UNCHANGED contentVars
    BY <2>2 DEF contentVars, ContentInv, TreeOK, JobOK, JobShape, StagingOK, Judged,
         PartitionOK, ReleaseOK, Files
  <2> QED
    BY <2>1, <2>2
<1> QED
  BY <1>1, <1>2, PTL DEF ContentSpec

-----------------------------------------------------------------------------
(* What the runs check                                                     *)

\* Every variable keeps its type.
THEOREM ContentTypeCorrect == ContentSpec => []ContentTypeOK
<1>1. ContentInv => ContentTypeOK
  <2> SUFFICES ASSUME ContentInv
               PROVE  ContentTypeOK
    OBVIOUS
  <2>1. format \in Formats /\ tree \in [Files -> File \cup {None}]
    BY DEF ContentInv, TreeOK
  <2>2. \A f \in Present : tree[f].stamp \in Stamps /\ \A n \in DOMAIN tree[f].lines :
                               tree[f].lines[n] \in Line
    BY <2>1 DEF Present, File
  <2>3. job # None => /\ [pc |-> job.pc, mode |-> job.mode, replace |-> job.replace] \in Job
                      /\ job.parsed = Cardinality(job.staging)
                      /\ \A s \in job.staging : s.row \in Row
    BY DEF ContentInv, JobOK, JobShape, StagingOK, Staged
  <2> QED
    BY <2>1, <2>2, <2>3 DEF ContentInv, ContentTypeOK, ReleaseOK
<1> QED
  BY <1>1, ContentInvariance, PTL

\* The counts of the registry add up (provenance.md), whatever was rejected.
THEOREM CountsAddUp == ContentSpec => []Accounting
<1>1. ContentInv => Accounting
  BY DEF ContentInv, ReleaseOK, Accounting
<1> QED
  BY <1>1, ContentInvariance, PTL

\* What queries of the release can find is fit to be found: rows on the sphere, with
\* an identifier, and one of an OID.
THEOREM ServedCanBeQueried == ContentSpec => []ServedRowsValid
<1>1. ContentInv => ServedRowsValid
  <2> SUFFICES ASSUME ContentInv, release # None
               PROVE  /\ partition # {}
                      /\ \A s \in partition :
                             /\ s.row.id # None
                             /\ 0 <= s.row.ra /\ s.row.ra < 360
                             /\ -90 <= s.row.dec /\ s.row.dec <= 90
                             /\ format = "stetson_globs_dat" => s.row.cluster # None
                      /\ format = "vsx_dat" =>
                             \A s, t \in partition : s.row.id = t.row.id => s = t
    BY DEF ServedRowsValid
  <2>1. partition # {} /\ partition \subseteq Staged /\ Fits(format, partition)
    BY DEF ContentInv, PartitionOK
  <2>2. \A s \in partition : s.row.ra \in Int /\ s.row.dec \in Int
    BY <2>1 DEF Staged, Row
  <2> QED
    BY <2>1, <2>2 DEF Fits, RaOutOfRange, DecOutOfRange
<1> QED
  BY <1>1, ContentInvariance, PTL

\* The text of a line that should count: it has content and is no heading, as far
\* as the first line of a DR10 file can tell.
DataLine(fmt, line, first) ==
    /\ line.text = "data"
    /\ line.lead \notin {"APASS", "#"}
    /\ fmt = "apass_dr10_txt" /\ first => line.lead = "digits"

\* No parser skips such a line.
LEMMA DataIsKept ==
    ASSUME NEW fmt, NEW lines, NEW n \in DOMAIN lines, DataLine(fmt, lines[n], n = 1)
    PROVE  n \in Kept(fmt, lines)
<1>1. lines[n].text = "data" /\ lines[n].lead \notin {"APASS", "#"}
  BY DEF DataLine
<1>2. ~Dr6Skips(lines[n]) /\ ~VsxSkips(lines[n]) /\ ~LandoltSkips(lines[n])
      /\ ~StetsonSkips(lines[n])
  BY <1>1 DEF Dr6Skips, VsxSkips, LandoltSkips, StetsonSkips
<1>3. fmt = "apass_dr10_txt" => ~Dr10Skips(lines[n], n = 1)
  BY <1>1 DEF Dr10Skips, IsDr10Header, DataLine
<1> QED
  BY <1>2, <1>3 DEF Kept, Skips

\* Nothing is dropped unseen (add-family.md): a line with content is a staged row or
\* is counted as malformed.
THEOREM NoLineIsLost == ContentSpec => []NothingDropped
<1>1. ContentInv => NothingDropped
  <2> SUFFICES ASSUME ContentInv, job # None, Unread = {}
               PROVE  NothingDropped
    BY DEF NothingDropped
  <2> DEFINE places == UNION {{<<f, n>> : n \in DOMAIN job.read[f]} : f \in DOMAIN job.read}
             counted == {p \in places : DataLine(format, job.read[p[1]][p[2]], p[2] = 1)}
             good == ParsedPlaces(format, job.read)
             bad == MalformedPlaces(format, job.read)
  <2>1. JobShape(job) /\ StagingOK(job)
    BY DEF ContentInv, JobOK
  <2>2. counted \subseteq good \cup bad
    <3> SUFFICES ASSUME NEW p \in counted
                 PROVE  p \in good \cup bad
      OBVIOUS
    <3>1. PICK f \in DOMAIN job.read : p \in {<<f, n>> : n \in DOMAIN job.read[f]}
      OBVIOUS
    <3>2. PICK n \in DOMAIN job.read[f] : p = <<f, n>>
      BY <3>1
    <3>3. n \in Kept(format, job.read[f])
      BY <3>2, DataIsKept
    <3>4. n \in Parsed(format, job.read[f]) \cup Malformed(format, job.read[f])
      BY <3>3 DEF Parsed, Malformed
    <3> QED
      BY <3>1, <3>2, <3>4, PlacesAre
  <2>3. /\ IsFiniteSet(good)
        /\ Cardinality(good) <= job.parsed
    <3> DEFINE place == [s \in job.staging |-> s.place]
    <3>1. place \in Surjection(job.staging, good)
      BY <2>1 DEF StagingOK, Surjection
    <3> HIDE DEF place
    <3> QED
      BY <2>1, <3>1, FS_Surjection DEF StagingOK
  <2>4. IsFiniteSet(bad) /\ Cardinality(bad) = job.malformed
    BY <2>1 DEF StagingOK
  <2> HIDE DEF counted, good, bad
  <2>5. /\ IsFiniteSet(good \cup bad)
        /\ Cardinality(good \cup bad) =
               Cardinality(good) + Cardinality(bad) - Cardinality(good \cap bad)
    BY <2>3, <2>4, FS_Union
  <2>6. Cardinality(counted) <= Cardinality(good \cup bad) /\ IsFiniteSet(counted)
    BY <2>2, <2>5, FS_Subset
  <2>7. IsFiniteSet(good \cap bad)
    BY <2>3, FS_Subset
  <2>8. /\ Cardinality(good) \in Nat /\ Cardinality(bad) \in Nat
        /\ Cardinality(good \cap bad) \in Nat /\ Cardinality(counted) \in Nat
    BY <2>3, <2>4, <2>6, <2>7, FS_CardinalityType
  <2>9. job.parsed \in Nat
    BY <2>1, FS_CardinalityType DEF StagingOK
  <2>10. job.parsed + job.malformed >= Cardinality(counted)
    BY <2>3, <2>4, <2>5, <2>6, <2>8, <2>9
  <2> QED
    BY <2>10 DEF counted, NothingDropped, DataLine
<1> QED
  BY <1>1, ContentInvariance, PTL

\* A status that lets a release become ACTIVE with nobody looking hides no rejected
\* row, no implausible one and no shortfall.
THEOREM PassedIsClean == ContentSpec => PassedMeansClean
<1> DEFINE Clean == Publish /\ release'.status = "passed"
                    => /\ release'.imported = release'.parsed
                       /\ 10 * (release'.imported + 1) > 9 * Expected
                       /\ \A s \in partition' : s.row.measure # "implausible"
<1>1. ContentInv => Clean
  <2> SUFFICES ASSUME ContentInv, Publish, release'.status = "passed"
               PROVE  /\ release'.imported = release'.parsed
                      /\ 10 * (release'.imported + 1) > 9 * Expected
                      /\ \A s \in partition' : s.row.measure # "implausible"
    OBVIOUS
  <2> DEFINE rows == Valid(job.staging)
  <2>1. StagingOK(job) /\ Judged(job)
    BY DEF Publish, ContentInv, JobOK
  <2>2. release'.status = Conclude(FinalChecks(job.staging, job.checks))
    BY DEF Publish
  <2>3. ~Failing("warning", FinalChecks(job.staging, job.checks))
    BY <2>2, Concluded
  <2>4. ~Failing("warning", job.checks)
    BY <2>3 DEF FinalChecks, Failing
  <2>5. ~Failing("warning", ProductionChecks(Cardinality(rows), Expected))
    BY <2>3 DEF FinalChecks, Failing, Transformed
  <2>6. Rejected(job.staging) = {} /\ ~Implausible(job.staging)
    BY <2>1, <2>4 DEF Judged
  <2>7. rows = job.staging
    BY <2>6 DEF Rejected, Valid
  <2>8. release'.parsed = Cardinality(rows) /\ release'.imported = Cardinality(rows)
    BY <2>7, PublishShows
  <2>9. \A s \in partition' : s.row.measure # "implausible"
    BY <2>6, <2>7 DEF Publish, Transformed, Implausible
  <2>10. Cardinality(rows) \in Nat
    BY <2>1, <2>7, FS_CardinalityType DEF StagingOK
  <2> HIDE DEF rows
  <2>11. 10 * (Cardinality(rows) + 1) > 9 * Expected
    <3>1. Expected \in Nat
      BY ContentAssumption DEF ContentAssumption
    <3>2. CASE Expected = 0
      BY <2>10, <3>2
    <3>3. CASE Expected # 0
      <4>1. Check("row_count_vs_expected", "warning", Cardinality(rows) >= RowFloor(Expected))
                \in ProductionChecks(Cardinality(rows), Expected)
        BY <3>3 DEF ProductionChecks
      <4>2. Cardinality(rows) >= RowFloor(Expected)
        BY <2>5, <4>1 DEF Failing, Check
      <4> QED
        BY <2>10, <3>1, <4>2 DEF RowFloor
    <3> QED
      BY <3>2, <3>3
  <2> QED
    BY <2>8, <2>9, <2>11
<1>2. ContentInv /\ [ContentNext]_contentVars => [Clean]_contentVars
  BY <1>1
<1> QED
  BY <1>2, ContentInvariance, PTL DEF ContentSpec, PassedMeansClean

\* validate never fails what an import has published.
THEOREM ValidateAgrees == ContentSpec => RevalidationAgrees
<1>1. ContentInv /\ [ContentNext]_contentVars
          => [Revalidate => release'.status # "failed"]_contentVars
  BY RevalidateShows
<1> QED
  BY <1>1, ContentInvariance, PTL DEF ContentSpec, RevalidationAgrees
=============================================================================
