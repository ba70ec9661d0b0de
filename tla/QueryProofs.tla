---------------------------- MODULE QueryProofs ----------------------------
(***************************************************************************)
(* Proofs about QueryEngine, for any tables, settings and queries: what a  *)
(* search returns is what the sphere says, what a batch returns is what    *)
(* searches would, every input comes back, in the order promised, and no   *)
(* connection mixes two identities.                                        *)
(***************************************************************************)
EXTENDS QueryInvariant, FiniteSetTheorems, TLAPS

-----------------------------------------------------------------------------
(* The sphere                                                              *)

\* The quarter turns that differences of coordinates come to.
LEMMA QuarterTurns ==
    /\ Cos(-3) = 0 /\ Cos(-2) = -1 /\ Cos(-1) = 0 /\ Cos(0) = 1
    /\ Cos(1) = 0 /\ Cos(2) = -1 /\ Cos(3) = 0
    /\ Sin(-1) = -1 /\ Sin(0) = 0 /\ Sin(1) = 1 /\ Sin(2) = 0
  BY DEF Cos, Sin

\* The distance that the database computes by unit vectors is the one that the
\* haversine gives for the stored coordinates.
LEMMA SameDistance ==
    ASSUME NEW row \in DataRow, NEW ra \in 0..3, NEW dec \in -1..1
    PROVE  /\ Separation(row, ra, dec) = Haversine(row, ra, dec)
           /\ Haversine(row, ra, dec) \in Nat
<1> DEFINE r == row.ra  d == row.dec
<1>1. r \in 0..3 /\ d \in -1..1
  BY DEF DataRow
<1>2. /\ Cos(d) \in {0, 1} /\ Cos(dec) \in {0, 1}
      /\ Sin(d) \in {-1, 0, 1} /\ Sin(dec) \in {-1, 0, 1}
  BY <1>1, QuarterTurns
<1>3. Cos(d - dec) = Cos(d) * Cos(dec) + Sin(d) * Sin(dec)
  BY <1>1, QuarterTurns
<1>4. /\ Cos(Lon(r)) * Cos(Lon(ra)) + Sin(Lon(r)) * Sin(Lon(ra)) = Cos(r - ra)
      /\ Cos(r - ra) \in {-1, 0, 1}
  BY <1>1, QuarterTurns DEF Lon
<1>5. Separation(row, ra, dec) = Haversine(row, ra, dec)
  BY <1>2, <1>3, <1>4 DEF Separation, Distance, Haversine
<1>6. 1 - Cos(d - dec) \in Nat
  BY <1>1, QuarterTurns
<1>7. Cos(d) * Cos(dec) \in {0, 1} /\ 1 - Cos(r - ra) \in Nat
  BY <1>2, <1>4
<1>8. Cos(d) * Cos(dec) * (1 - Cos(r - ra)) \in Nat
  BY <1>7
<1>9. Haversine(row, ra, dec) \in Nat
  BY <1>6, <1>8 DEF Haversine
<1> QED
  BY <1>5, <1>9

-----------------------------------------------------------------------------
(* Arrangements                                                            *)

\* A sequence that SetToSeqs gives has every element of the set once.
LEMMA Arranged ==
    ASSUME NEW S, IsFiniteSet(S), NEW f \in SetToSeqs(S)
    PROVE  /\ Cardinality(S) \in Nat
           /\ f \in [1..Cardinality(S) -> S]
           /\ f \in Seq(S) /\ Len(f) = Cardinality(S)
           /\ \A i, j \in 1..Cardinality(S) : f[i] = f[j] => i = j
           /\ \A x \in S : \E i \in 1..Cardinality(S) : f[i] = x
<1> DEFINE n == Cardinality(S)
<1>1. n \in Nat
  BY FS_CardinalityType
<1>2. /\ f \in [1..n -> S]
      /\ \A i, j \in 1..n : f[i] = f[j] => i = j
  BY DEF SetToSeqs
<1>3. Cardinality(1..n) = n
  <2> HIDE DEF n
  <2> QED
    BY <1>1, FS_Interval
<1>4. f \in Injection(1..n, S)
  BY <1>2 DEF Injection, IsInjective
<1>5. f \in Surjection(1..n, S)
  BY <1>3, <1>4, FS_Injection
<1>6. \A x \in S : \E i \in 1..n : f[i] = x
  BY <1>5 DEF Surjection
<1>7. f \in Seq(S) /\ Len(f) = n
  <2> HIDE DEF n
  <2> QED
    BY <1>1, <1>2
<1> QED
  BY <1>1, <1>2, <1>6, <1>7

\* A prefix of a sequence of numbers up to n, or all of it.
LEMMA PrefixIs ==
    ASSUME NEW S, NEW f \in Seq(S), NEW n \in Nat
    PROVE  /\ Prefix(f, n) \in Seq(S)
           /\ Len(Prefix(f, n)) = IF n < Len(f) THEN n ELSE Len(f)
           /\ DOMAIN Prefix(f, n) = 1..Len(Prefix(f, n))
           /\ DOMAIN Prefix(f, n) \subseteq DOMAIN f
           /\ \A i \in DOMAIN Prefix(f, n) : Prefix(f, n)[i] = f[i]
<1> DEFINE k == IF n < Len(f) THEN n ELSE Len(f)
<1>1. Len(f) \in Nat /\ k \in Nat /\ k <= Len(f) /\ DOMAIN f = 1..Len(f)
  OBVIOUS
<1>2. Prefix(f, n) = SubSeq(f, 1, k)
  BY DEF Prefix
<1> HIDE DEF k
<1>3. /\ SubSeq(f, 1, k) \in Seq(S)
      /\ Len(SubSeq(f, 1, k)) = k
      /\ \A i \in 1..k : SubSeq(f, 1, k)[i] = f[i]
  BY <1>1
<1> QED
  BY <1>1, <1>2, <1>3 DEF k

\* The beginning of a sorted arrangement is the best of a set.
LEMMA PrefixBest ==
    ASSUME NEW S, IsFiniteSet(S), NEW f \in SetToSeqs(S), NEW n \in Nat, NEW order,
           \A i, j \in DOMAIN f : i < j => <<f[i], f[j]>> \in order
    PROVE  BestOf(Prefix(f, n), S, n, order)
<1> DEFINE s == Prefix(f, n)
<1>1. /\ Cardinality(S) \in Nat
      /\ f \in Seq(S) /\ Len(f) = Cardinality(S) /\ DOMAIN f = 1..Cardinality(S)
      /\ \A i, j \in 1..Cardinality(S) : f[i] = f[j] => i = j
      /\ \A x \in S : \E i \in 1..Cardinality(S) : f[i] = x
  BY Arranged
<1>2. /\ s \in Seq(S)
      /\ Len(s) = IF n < Len(f) THEN n ELSE Len(f)
      /\ DOMAIN s = 1..Len(s)
      /\ DOMAIN s \subseteq DOMAIN f
      /\ \A i \in DOMAIN s : s[i] = f[i]
  BY <1>1, PrefixIs
<1> HIDE DEF s
<1>3. IsInjective(s) /\ ToSet(s) \subseteq S
  BY <1>1, <1>2 DEF IsInjective, ToSet
<1>4. Cardinality(DOMAIN s) = IF n < Cardinality(S) THEN n ELSE Cardinality(S)
  <2>1. Len(s) \in Nat /\ Len(s) = IF n < Cardinality(S) THEN n ELSE Cardinality(S)
    BY <1>1, <1>2
  <2>2. Cardinality(1..Len(s)) = Len(s)
    BY <2>1, FS_Interval
  <2> QED
    BY <1>2, <2>1, <2>2
<1>5. \A i, j \in DOMAIN s : i < j => <<s[i], s[j]>> \in order
  BY <1>2
<1>6. ASSUME NEW i \in DOMAIN s, NEW row \in S \ ToSet(s)
      PROVE  <<s[i], row>> \in order
  <2>1. PICK j \in 1..Cardinality(S) : f[j] = row
    BY <1>1
  <2>2. j \notin DOMAIN s
    BY <1>2, <2>1 DEF ToSet
  <2>3. i < j
    BY <1>1, <1>2, <2>2
  <2> QED
    BY <1>1, <1>2, <2>1, <2>3
<1> QED
  BY <1>3, <1>4, <1>5, <1>6 DEF BestOf, s

-----------------------------------------------------------------------------
(* Searches                                                                *)

\* The table is one of those given.
LEMMA TableTyped ==
    ASSUME WorldOK
    PROVE  parent \subseteq DataRow /\ IsFiniteSet(parent)
  BY QueryAssumption DEF WorldOK

\* Within a radius by the haversine is within it by the database's distance.
LEMMA WithinIs ==
    ASSUME WorldOK, NEW radius, NEW ra \in 0..3, NEW dec \in -1..1
    PROVE  /\ Within(radius, ra, dec) =
                  {row \in parent : /\ row.release = ResolvedRelease
                                    /\ Separation(row, ra, dec) <= radius}
           /\ IsFiniteSet(Within(radius, ra, dec))
<1>1. \A row \in parent : Separation(row, ra, dec) = Haversine(row, ra, dec)
  BY TableTyped, SameDistance
<1>2. Within(radius, ra, dec) = {row \in parent : /\ row.release = ResolvedRelease
                                                  /\ Separation(row, ra, dec) <= radius}
  BY <1>1 DEF Within, Released
<1>3. Within(radius, ra, dec) \in SUBSET parent
  BY <1>2
<1>4. IsFiniteSet(Within(radius, ra, dec))
  BY <1>3, TableTyped, FS_Subset
<1> QED
  BY <1>2, <1>4

\* What a SELECT puts first is no worse by the reference.
LEMMA NearerIsBetter ==
    ASSUME NEW q, q.order = None \/ q.order = "mag", q.ra \in 0..3, q.dec \in -1..1,
           NEW a \in DataRow, NEW b \in DataRow, ~Nearer(q, b, a)
    PROVE  IF q.order = None
           THEN Haversine(a, q.ra, q.dec) <= Haversine(b, q.ra, q.dec)
           ELSE \/ /\ a[q.order] # None
                   /\ b[q.order] = None \/ a[q.order] < b[q.order]
                \/ /\ a[q.order] = b[q.order]
                   /\ Haversine(a, q.ra, q.dec) <= Haversine(b, q.ra, q.dec)
<1> DEFINE ha == Haversine(a, q.ra, q.dec)  hb == Haversine(b, q.ra, q.dec)
<1>1. /\ Separation(a, q.ra, q.dec) = ha /\ ha \in Int
      /\ Separation(b, q.ra, q.dec) = hb /\ hb \in Int
  BY SameDistance
<1> HIDE DEF ha, hb
<1>2. a["mag"] \in Int \cup {None} /\ b["mag"] \in Int \cup {None}
  BY DEF DataRow
<1>3. CASE q.order = None \/ a[q.order] = b[q.order]
  <2>1. ~(hb < ha)
    BY <1>1, <1>3 DEF Nearer
  <2>2. ha <= hb
    BY <1>1, <2>1
  <2> QED
    BY <1>3, <2>2 DEF ha, hb
<1>4. CASE q.order # None /\ a[q.order] # b[q.order]
  <2>1. ~Before(b[q.order], a[q.order])
    BY <1>4 DEF Nearer
  <2> QED
    BY <1>2, <1>4, <2>1 DEF Before
<1> QED
  BY <1>3, <1>4

\* A cone search returns what the reference asks for.
LEMMA ConeIsReference ==
    ASSUME QueryInv, ConeSearch
    PROVE  SearchIsReference'
<1>1. PICK q \in Cones :
          /\ call' = [Nothing EXCEPT !.pc = "cone", !.q = q]
          /\ IF ConeError(q) # None
             THEN answer' = Error(ConeError(q))
             ELSE \E s \in ConeAnswers(q) : answer' = Rows(s)
  BY DEF ConeSearch
<1>2. /\ call'.pc = "cone" /\ call'.q = q
      /\ parent' = parent /\ WorldOK
  BY <1>1 DEF Nothing, ConeSearch, QueryInv
<1>3. CASE ConeError(q) # None
  BY <1>1, <1>2, <1>3 DEF SearchIsReference, Answered, Error
<1>4. CASE ConeError(q) = None
  <2> DEFINE wanted == {row \in Within(q.radius, q.ra, q.dec) :
                          InBand(row, q) /\ Passes(row, q.filter)}
             lower == {p \in wanted \X wanted :
                         /\ p[1][q.order] # None
                         /\ p[2][q.order] = None \/ p[1][q.order] < p[2][q.order]}
             same == {p \in wanted \X wanted : p[1][q.order] = p[2][q.order]}
             nearer == NoFurther(wanted, q.ra, q.dec)
             order == IF q.order = None THEN nearer ELSE lower \cup (same \cap nearer)
  <2>1. PICK t \in ConeAnswers(q) : answer' = Rows(t)
    BY <1>1, <1>4
  <2>2. PICK s \in SetToSeqs(ConeRows(q)) :
            /\ \A i, j \in DOMAIN s : i < j => ~Nearer(q, s[j], s[i])
            /\ t = Prefix(s, q.limit)
    BY <2>1 DEF ConeAnswers
  <2>3. ~CentreRefused(q) /\ ~ConeRefused(q)
    <3>1. ~CentreRefused(q)
      BY <1>4, QueryAssumption DEF ConeError
    <3>2. ~ConeRefused(q)
      BY <1>4, QueryAssumption DEF ConeError
    <3> QED
      BY <3>1, <3>2
  <2>4. /\ q.ra \in 0..3 /\ q.dec \in -1..1
        /\ q.limit \in Nat
        /\ q.order = None \/ q.order = "mag"
    BY <2>3, QueryAssumption DEF CentreRefused, ValidRa, ValidDec, ConeRefused, OrderRefused,
       IsColumn, ColumnType
  <2>5. wanted = ConeRows(q) /\ IsFiniteSet(wanted) /\ wanted \subseteq DataRow
    <3>1. wanted = ConeRows(q) /\ wanted \subseteq DataRow
      BY <1>2, <2>4, WithinIs, TableTyped DEF ConeRows
    <3>2. IsFiniteSet(wanted)
      <4>1. wanted \in SUBSET Within(q.radius, q.ra, q.dec)
        OBVIOUS
      <4> QED
        BY <1>2, <2>4, <4>1, WithinIs, FS_Subset
    <3> QED
      BY <3>1, <3>2
  <2> HIDE DEF wanted
  <2>6. \A i, j \in DOMAIN s : i < j => <<s[i], s[j]>> \in order
    <3> SUFFICES ASSUME NEW i \in DOMAIN s, NEW j \in DOMAIN s, i < j
                 PROVE  <<s[i], s[j]>> \in order
      OBVIOUS
    <3>1. s[i] \in wanted /\ s[j] \in wanted
      BY <2>5 DEF SetToSeqs
    <3>2. s[i] \in DataRow /\ s[j] \in DataRow
      BY <2>5, <3>1
    <3>3. IF q.order = None
          THEN Haversine(s[i], q.ra, q.dec) <= Haversine(s[j], q.ra, q.dec)
          ELSE \/ /\ s[i][q.order] # None
                  /\ s[j][q.order] = None \/ s[i][q.order] < s[j][q.order]
               \/ /\ s[i][q.order] = s[j][q.order]
                  /\ Haversine(s[i], q.ra, q.dec) <= Haversine(s[j], q.ra, q.dec)
      BY <2>2, <2>4, <3>2, NearerIsBetter
    <3> QED
      BY <3>1, <3>3 DEF NoFurther
  <2> HIDE DEF order
  <2>7. BestOf(t, wanted, q.limit, order)
    BY <2>2, <2>4, <2>5, <2>6, PrefixBest
  <2>8. answer'.rows = t
    BY <2>1 DEF Rows
  <2> QED
    BY <1>2, <2>7, <2>8 DEF SearchIsReference, Answered, wanted, order, Within, Released
<1> QED
  BY <1>3, <1>4

\* A lookup returns rows of its name, as many as there are or as it may.
LEMMA LookupIsReference ==
    ASSUME QueryInv, Lookup
    PROVE  SearchIsReference'
<1>1. PICK q \in Lookups :
          /\ call' = [Nothing EXCEPT !.pc = "lookup", !.q = q]
          /\ IF LookupError(q) # None
             THEN answer' = Error(LookupError(q))
             ELSE \E s \in LookupAnswers(q) : answer' = Rows(s)
  BY DEF Lookup
<1>2. /\ call'.pc = "lookup" /\ call'.q = q
      /\ parent' = parent /\ WorldOK
  BY <1>1 DEF Nothing, Lookup, QueryInv
<1>3. CASE LookupError(q) # None
  BY <1>1, <1>2, <1>3 DEF SearchIsReference, Answered, Error
<1>4. CASE LookupError(q) = None
  <2> DEFINE wanted == {row \in Released : row.native = q.native}
  <2>1. PICK t \in LookupAnswers(q) : answer' = Rows(t)
    BY <1>1, <1>4
  <2>2. PICK s \in SetToSeqs(LookupRows(q)) : t = Prefix(s, q.limit)
    BY <2>1 DEF LookupAnswers
  <2>3. q.limit \in Nat
    BY <1>4, QueryAssumption DEF LookupError
  <2>4. wanted = LookupRows(q) /\ wanted \in SUBSET parent
    BY DEF LookupRows, Released
  <2>5. IsFiniteSet(wanted)
    BY <1>2, <2>4, TableTyped, FS_Subset
  <2> HIDE DEF wanted
  <2>6. \A i, j \in DOMAIN s : i < j => <<s[i], s[j]>> \in wanted \X wanted
    BY <2>4 DEF SetToSeqs
  <2>7. BestOf(t, wanted, q.limit, wanted \X wanted)
    BY <2>2, <2>3, <2>4, <2>5, <2>6, PrefixBest
  <2>8. answer'.rows = t
    BY <2>1 DEF Rows
  <2> QED
    BY <1>2, <2>7, <2>8 DEF SearchIsReference, Answered, wanted, Released
<1> QED
  BY <1>3, <1>4

-----------------------------------------------------------------------------
(* The rows of a batch                                                     *)

\* What batch_crossmatch() returns a list of.
MatchRow == [input : InputIds, matched : BOOLEAN, row : DataRow \cup {None},
             separation : Int \cup {None}]

\* The order of an answer, for a list of rows (BatchIsOrdered).
IsOrdered(rows) ==
    \A i, j, k \in DOMAIN rows :
        LET a == rows[i]  b == rows[j] IN
        i <= j /\ a.input = b.input
            => /\ ~Before(b.separation, a.separation)
               /\ i <= k /\ k <= j => rows[k].input = a.input

\* The stable sort moves rows and neither adds, drops nor changes one.
LEMMA MergedMoves ==
    ASSUME NEW s \in Seq(MatchRow), NEW lost \in Seq(MatchRow), NEW t \in Merged(s, lost)
    PROVE  \E g \in [DOMAIN t -> DOMAIN (s \o lost)] :
               /\ DOMAIN t = 1..(Len(s) + Len(lost))
               /\ \A i, j \in DOMAIN t : g[i] = g[j] => i = j
               /\ \A n \in DOMAIN (s \o lost) : \E i \in DOMAIN t : g[i] = n
               /\ \A i \in DOMAIN t : t[i] = (s \o lost)[g[i]]
<1> DEFINE all == s \o lost
           n == Len(s) + Len(lost)
           InOrder(i, j) == \/ CodePoint[all[i].input] < CodePoint[all[j].input]
                            \/ CodePoint[all[i].input] = CodePoint[all[j].input] /\ i < j
<1>1. n \in Nat /\ DOMAIN all = 1..n
  OBVIOUS
<1>2. CASE lost = <<>>
  <2>1. t = s /\ DOMAIN t = 1..n /\ all = s
    BY <1>2 DEF Merged
  <2>2. [i \in 1..n |-> i] \in [DOMAIN t -> DOMAIN all]
    BY <1>1, <2>1
  <2> QED
    BY <1>1, <2>1, <2>2
<1>3. CASE lost # <<>>
  <2>1. PICK p \in SetToSeqs(DOMAIN all) : t = [k \in DOMAIN all |-> all[p[k]]]
    BY <1>3 DEF Merged
  <2>2. IsFiniteSet(DOMAIN all) /\ Cardinality(DOMAIN all) = n
    <3> HIDE DEF n
    <3> QED
      BY <1>1, FS_Interval
  <2>3. /\ p \in [1..n -> DOMAIN all]
        /\ \A i, j \in 1..n : p[i] = p[j] => i = j
        /\ \A x \in DOMAIN all : \E i \in 1..n : p[i] = x
    <3> HIDE DEF all, n
    <3> QED
      BY <2>1, <2>2, Arranged
  <2>4. /\ p \in [DOMAIN t -> DOMAIN all]
        /\ DOMAIN t = 1..n
        /\ \A i, j \in DOMAIN t : p[i] = p[j] => i = j
        /\ \A x \in DOMAIN all : \E i \in DOMAIN t : p[i] = x
        /\ \A i \in DOMAIN t : t[i] = all[p[i]]
    <3> HIDE DEF all, n
    <3> QED
      BY <1>1, <2>1, <2>3
  <2> QED
    BY <2>4
<1> QED
  BY <1>2, <1>3

\* The order promised: the SELECT leaves each id's rows together, nearest first; the
\* sort that the skipped inputs call for groups by its own order and keeps that.
LEMMA MergedInOrder ==
    ASSUME NEW s \in Seq(MatchRow), NEW lost \in Seq(MatchRow),
           \A j \in DOMAIN lost : lost[j].separation = None,
           \A i, j \in DOMAIN s : i < j => ~Follows(s[i], s[j]),
           NEW t \in Merged(s, lost)
    PROVE  IsOrdered(t)
<1> DEFINE all == s \o lost
           InOrder(i, j) == \/ CodePoint[all[i].input] < CodePoint[all[j].input]
                            \/ CodePoint[all[i].input] = CodePoint[all[j].input] /\ i < j
<1>1. /\ DOMAIN all = 1..(Len(s) + Len(lost)) /\ Len(s) \in Nat /\ Len(lost) \in Nat
      /\ \A i \in DOMAIN s : all[i] = s[i]
      /\ \A i \in DOMAIN all : i > Len(s) => i - Len(s) \in DOMAIN lost
                                            /\ all[i] = lost[i - Len(s)]
      /\ \A i \in DOMAIN all : all[i] \in MatchRow
  OBVIOUS
<1>2. \A i \in DOMAIN all : /\ all[i].input \in InputIds
                            /\ all[i].separation \in Int \cup {None}
  BY <1>1 DEF MatchRow
<1>3. ASSUME NEW i \in DOMAIN all, NEW j \in DOMAIN all, i <= j, all[i].input = all[j].input
      PROVE  ~Before(all[j].separation, all[i].separation)
  <2>1. CASE j > Len(s)
    BY <1>1, <2>1 DEF Before
  <2>2. CASE j <= Len(s) /\ i < j
    <3>1. i \in DOMAIN s /\ j \in DOMAIN s
      BY <1>1, <2>2
    <3>2. ~Follows(s[i], s[j])
      BY <2>2, <3>1
    <3> QED
      BY <1>1, <1>3, <3>1, <3>2 DEF Follows
  <2>3. CASE i = j
    BY <1>2, <2>3 DEF Before
  <2> QED
    BY <1>1, <1>3, <2>1, <2>2, <2>3
<1> HIDE DEF all
<1>4. CASE lost = <<>>
  <2>1. t = s /\ DOMAIN t = DOMAIN all /\ \A i \in DOMAIN t : t[i] = all[i]
    BY <1>1, <1>4 DEF Merged
  <2>2. ASSUME NEW i \in DOMAIN t, NEW j \in DOMAIN t, NEW k \in DOMAIN t,
               i <= k, k <= j, t[i].input = t[j].input
        PROVE  t[k].input = t[i].input
    <3>1. ASSUME NEW x \in DOMAIN t, NEW y \in DOMAIN t, x <= y
          PROVE  Collation[t[x].input] <= Collation[t[y].input]
      <4>1. /\ Collation[t[x].input] \in Nat /\ Collation[t[y].input] \in Nat
        BY <1>2, <2>1, QueryAssumption
      <4>2. CASE x = y
        BY <4>1, <4>2
      <4>3. CASE x < y
        <5>1. ~Follows(t[x], t[y])
          BY <2>1, <4>3
        <5> QED
          BY <4>1, <5>1 DEF Follows
      <4> QED
        BY <1>1, <2>1, <3>1, <4>2, <4>3
    <3>2. /\ Collation[t[i].input] <= Collation[t[k].input]
          /\ Collation[t[k].input] <= Collation[t[j].input]
      BY <2>2, <3>1
    <3>3. /\ t[i].input \in InputIds /\ t[k].input \in InputIds
          /\ Collation[t[i].input] \in Nat /\ Collation[t[k].input] \in Nat
      BY <1>2, <2>1, QueryAssumption
    <3>4. Collation[t[i].input] = Collation[t[k].input]
      BY <2>2, <3>2, <3>3
    <3> QED
      BY <3>3, <3>4, QueryAssumption DEF IsInjective
  <2> QED
    BY <1>3, <2>1, <2>2 DEF IsOrdered
<1>5. CASE lost # <<>>
  <2>1. PICK p \in SetToSeqs(DOMAIN all) :
            /\ \A i, j \in DOMAIN p : i < j => InOrder(p[i], p[j])
            /\ t = [k \in DOMAIN all |-> all[p[k]]]
    BY <1>5 DEF Merged, all
  <2>2. IsFiniteSet(DOMAIN all) /\ Cardinality(DOMAIN all) = Len(s) + Len(lost)
    <3>1. Len(s) + Len(lost) \in Nat
      BY <1>1
    <3>2. \A n \in Nat : IsFiniteSet(1..n) /\ Cardinality(1..n) = n
      BY FS_Interval
    <3> QED
      BY <1>1, <3>1, <3>2
  <2>3. p \in [DOMAIN all -> DOMAIN all]
    BY <1>1, <2>2, Arranged
  <2>4. DOMAIN t = DOMAIN all /\ \A i \in DOMAIN t : t[i] = all[p[i]]
    BY <2>1
  <2>5. ASSUME NEW i \in DOMAIN t, NEW j \in DOMAIN t, i <= j
        PROVE  /\ CodePoint[t[i].input] <= CodePoint[t[j].input]
               /\ t[i].input = t[j].input => p[i] <= p[j]
    <3>1. /\ t[i] = all[p[i]] /\ t[j] = all[p[j]] /\ p[i] \in DOMAIN all /\ p[j] \in DOMAIN all
      BY <2>3, <2>4
    <3>2. CodePoint[t[i].input] \in Nat /\ CodePoint[t[j].input] \in Nat
      BY <1>2, <3>1, QueryAssumption
    <3>3. CASE i = j
      BY <1>1, <3>1, <3>2, <3>3
    <3>4. CASE i < j
      <4>1. InOrder(p[i], p[j])
        BY <2>1, <2>3, <2>4, <3>4
      <4> QED
        BY <1>1, <3>1, <3>2, <4>1
    <3> QED
      BY <1>1, <2>4, <2>5, <3>3, <3>4
  <2>6. ASSUME NEW i \in DOMAIN t, NEW j \in DOMAIN t, NEW k \in DOMAIN t,
               i <= k, k <= j, t[i].input = t[j].input
        PROVE  t[k].input = t[i].input
    <3>1. /\ CodePoint[t[i].input] <= CodePoint[t[k].input]
          /\ CodePoint[t[k].input] <= CodePoint[t[j].input]
      BY <2>5, <2>6
    <3>2. /\ t[i].input \in InputIds /\ t[k].input \in InputIds
          /\ CodePoint[t[i].input] \in Nat /\ CodePoint[t[k].input] \in Nat
      BY <1>2, <2>3, <2>4, QueryAssumption
    <3>3. CodePoint[t[i].input] = CodePoint[t[k].input]
      BY <2>6, <3>1, <3>2
    <3> QED
      BY <3>2, <3>3, QueryAssumption DEF IsInjective
  <2>7. ASSUME NEW i \in DOMAIN t, NEW j \in DOMAIN t, i <= j, t[i].input = t[j].input
        PROVE  ~Before(t[j].separation, t[i].separation)
    <3>1. /\ p[i] \in DOMAIN all /\ p[j] \in DOMAIN all /\ p[i] <= p[j]
          /\ t[i] = all[p[i]] /\ t[j] = all[p[j]]
      BY <2>3, <2>4, <2>5, <2>7
    <3> QED
      BY <1>3, <2>7, <3>1
  <2> QED
    BY <2>6, <2>7 DEF IsOrdered
<1> QED
  BY <1>4, <1>5

\* An input asks for one candidate at least.
LEMMA CandidatesTyped ==
    ASSUME NEW q \in Batches
    PROVE  Candidates(q) \in Nat /\ Candidates(q) >= 1
<1>1. q.max \in Int
  BY QueryAssumption
<1> QED
  BY <1>1 DEF Candidates

\* The rows of an input, where near are the rows of the table within the radius: one
\* that says there is no match, or the best of them.
Matched(q, x, c, near) ==
    /\ c \in Seq(MatchRow) /\ 1 \in DOMAIN c
    /\ \A n \in DOMAIN c : c[n].input = x.id /\ c[n].matched = (near # {})
    /\ near = {} => DOMAIN c = {1}
    /\ near # {} =>
         \E s : /\ DOMAIN s = DOMAIN c
                /\ \A n \in DOMAIN c : c[n].row = s[n]
                /\ \A n \in DOMAIN c :
                     c[n].separation \in Nat /\ c[n].separation = Haversine(s[n], x.ra, x.dec)
                /\ BestOf(s, near, Candidates(q), NoFurther(near, x.ra, x.dec))

\* So are they.
LEMMA MatchesAre ==
    ASSUME WorldOK, NEW q \in Batches, NEW x, x.id \in InputIds, x.ra \in 0..3, x.dec \in -1..1,
           NEW c \in Matches(x, q)
    PROVE  Matched(q, x, c, Within(q.radius, x.ra, x.dec))
<1> DEFINE near == Within(q.radius, x.ra, x.dec)
<1>1. /\ near = {row \in parent : /\ row.release = ResolvedRelease
                                  /\ Separation(row, x.ra, x.dec) <= q.radius}
      /\ IsFiniteSet(near) /\ near \subseteq DataRow
  BY WithinIs, TableTyped
<1> SUFFICES Matched(q, x, c, near)
  OBVIOUS
<1> HIDE DEF near
<1>2. CASE near = {}
  <2>1. c = <<Match(x, None)>>
    BY <1>1, <1>2 DEF Matches
  <2>2. /\ Match(x, None) \in MatchRow
        /\ Match(x, None).input = x.id /\ ~Match(x, None).matched
    BY DEF Match, MatchRow
  <2>3. /\ c \in Seq(MatchRow) /\ DOMAIN c = {1} /\ c[1] = Match(x, None)
        /\ (near # {}) = FALSE
    BY <1>2, <2>1, <2>2
  <2>4. c[1].matched \in BOOLEAN
    BY <2>2, <2>3 DEF MatchRow
  <2>5. \A n \in DOMAIN c : c[n].input = x.id /\ c[n].matched = (near # {})
    BY <2>2, <2>3, <2>4
  <2> QED
    BY <1>2, <2>3, <2>5 DEF Matched
<1>3. CASE near # {}
  <2>1. PICK f \in SetToSeqs(near) :
            /\ \A i, j \in DOMAIN f :
                  i < j => Separation(f[i], x.ra, x.dec) <= Separation(f[j], x.ra, x.dec)
            /\ c = [k \in DOMAIN Prefix(f, Candidates(q)) |->
                      Match(x, Prefix(f, Candidates(q))[k])]
    BY <1>1, <1>3 DEF Matches
  <2> DEFINE s == Prefix(f, Candidates(q))
             order == NoFurther(near, x.ra, x.dec)
  <2>2. Candidates(q) \in Nat /\ Candidates(q) >= 1
    BY CandidatesTyped
  <2>3. /\ Cardinality(near) \in Nat /\ Cardinality(near) # 0
        /\ f \in [1..Cardinality(near) -> near]
        /\ f \in Seq(near) /\ Len(f) = Cardinality(near)
    BY <1>1, <1>3, Arranged, FS_EmptySet
  <2>4. /\ s \in Seq(near)
        /\ Len(s) = IF Candidates(q) < Len(f) THEN Candidates(q) ELSE Len(f)
        /\ DOMAIN s = 1..Len(s)
    BY <2>2, <2>3, PrefixIs
  <2>5. \A i, j \in DOMAIN f : i < j => <<f[i], f[j]>> \in order
    <3> SUFFICES ASSUME NEW i \in DOMAIN f, NEW j \in DOMAIN f, i < j
                 PROVE  <<f[i], f[j]>> \in order
      OBVIOUS
    <3>1. f[i] \in near /\ f[j] \in near /\ f[i] \in DataRow /\ f[j] \in DataRow
      BY <1>1, <2>3
    <3>2. Haversine(f[i], x.ra, x.dec) <= Haversine(f[j], x.ra, x.dec)
      BY <2>1, <3>1, SameDistance
    <3> QED
      BY <3>1, <3>2 DEF NoFurther
  <2> HIDE DEF order
  <2>6. BestOf(s, near, Candidates(q), order)
    BY <1>1, <2>2, <2>5, PrefixBest
  <2>7. c = [k \in DOMAIN s |-> Match(x, s[k])]
    BY <2>1
  <2> HIDE DEF s
  <2>8. 1 \in DOMAIN s
    BY <2>2, <2>3, <2>4
  <2>9. ASSUME NEW n \in DOMAIN s
        PROVE  /\ c[n] \in MatchRow
               /\ c[n].input = x.id /\ c[n].matched = TRUE /\ c[n].row = s[n]
               /\ c[n].separation \in Nat
               /\ c[n].separation = Haversine(s[n], x.ra, x.dec)
    <3>1. s[n] \in DataRow
      BY <1>1, <2>4
    <3>2. s[n] # None
      BY <3>1, QueryAssumption
    <3>3. c[n] = Match(x, s[n])
      BY <2>7
    <3>4. /\ Separation(s[n], x.ra, x.dec) = Haversine(s[n], x.ra, x.dec)
          /\ Haversine(s[n], x.ra, x.dec) \in Nat
      BY <3>1, SameDistance
    <3>5. c[n] = [input |-> x.id, matched |-> TRUE, row |-> s[n],
                  separation |-> Haversine(s[n], x.ra, x.dec)]
      <4> HIDE DEF order
      <4>1. (s[n] # None) = TRUE
        BY <3>2
      <4>2. (IF s[n] = None THEN None ELSE Separation(s[n], x.ra, x.dec))
              = Haversine(s[n], x.ra, x.dec)
        BY <3>2, <3>4
      <4> QED
        BY <3>3, <4>1, <4>2 DEF Match
    <3> QED
      BY <3>1, <3>4, <3>5 DEF MatchRow
  <2>10. c \in Seq(MatchRow) /\ DOMAIN c = DOMAIN s
    <3>1. Len(s) \in Nat /\ DOMAIN c = 1..Len(s)
      BY <2>4, <2>7
    <3>2. c \in [1..Len(s) -> MatchRow]
      BY <2>4, <2>7, <2>9
    <3> QED
      BY <2>4, <3>1, <3>2
  <2>11. (near # {}) = TRUE
    BY <1>3
  <2> QED
    BY <1>3, <2>6, <2>8, <2>9, <2>10, <2>11 DEF order, Matched
<1> QED
  BY <1>2, <1>3

\* Where a row of the SELECT comes from: an input and the number of a candidate.
Places(m) == UNION {{k} \X DOMAIN m[k] : k \in DOMAIN m}

\* It is a pair of both.
LEMMA PlaceIs ==
    ASSUME NEW m, NEW p
    PROVE  p \in Places(m) <=> \E k \in DOMAIN m : \E n \in DOMAIN m[k] : p = <<k, n>>
<1>1. ASSUME NEW k \in DOMAIN m, NEW n \in DOMAIN m[k], p = <<k, n>>
      PROVE  p \in Places(m)
  <2>1. p \in {k} \X DOMAIN m[k]
    BY <1>1
  <2> QED
    BY <2>1 DEF Places
<1>2. ASSUME p \in Places(m)
      PROVE  \E k \in DOMAIN m : \E n \in DOMAIN m[k] : p = <<k, n>>
  <2>1. PICK k \in DOMAIN m : p \in {k} \X DOMAIN m[k]
    BY <1>2 DEF Places
  <2> QED
    BY <2>1
<1> QED
  BY <1>1, <1>2

\* Finitely many inputs with finitely many candidates have finitely many places.
LEMMA PlacesFinite ==
    ASSUME NEW m, IsFiniteSet(DOMAIN m), \A k \in DOMAIN m : IsFiniteSet(DOMAIN m[k])
    PROVE  IsFiniteSet(Places(m))
<1> DEFINE column == [k \in DOMAIN m |-> {k} \X DOMAIN m[k]]
           columns == {{k} \X DOMAIN m[k] : k \in DOMAIN m}
<1>1. column \in Surjection(DOMAIN m, columns)
  BY DEF Surjection
<1>2. IsFiniteSet(columns)
  <2> HIDE DEF column, columns
  <2> QED
    BY <1>1, FS_Surjection
<1>3. \A T \in columns : IsFiniteSet(T)
  <2> SUFFICES ASSUME NEW k \in DOMAIN m
               PROVE  IsFiniteSet({k} \X DOMAIN m[k])
    OBVIOUS
  <2>1. IsFiniteSet({k})
    BY FS_Singleton
  <2> QED
    BY <2>1, FS_Product
<1> QED
  BY <1>2, <1>3, FS_UNION DEF Places

\* The inputs that reach the temporary table, and those that are skipped.
Good(q) == {k \in Taken(q) : ValidInput(q.inputs[k])}
Bad(q) == {k \in Taken(q) : ~ValidInput(q.inputs[k])}

\* Where the rows of a batch come from, where m[k] are the matches of each input k of
\* the temporary table: row i is candidate nth[i] of input from[i], or tells that this
\* input was skipped; each candidate and each skipped input has its row.
Traced(q, m, rows, from, nth) ==
    /\ \A k \in Good(q) : m[k] \in Matches(q.inputs[k], q)
    /\ \A i \in DOMAIN rows :
          \/ /\ from[i] \in Good(q) /\ nth[i] \in DOMAIN m[from[i]]
             /\ rows[i] = m[from[i]][nth[i]]
          \/ /\ from[i] \in Bad(q) /\ nth[i] = 0
             /\ rows[i] = Match(q.inputs[from[i]], None)
    /\ \A i, j \in DOMAIN rows : from[i] = from[j] /\ nth[i] = nth[j] => i = j
    /\ \A k \in Good(q) : \A n \in DOMAIN m[k] :
          \E i \in DOMAIN rows : from[i] = k /\ nth[i] = n
    /\ \A k \in Bad(q) : \E i \in DOMAIN rows : from[i] = k /\ nth[i] = 0

\* The inputs of a batch are finitely many and have ids.
LEMMA TakenTyped ==
    ASSUME NEW q \in Batches
    PROVE  /\ IsFiniteSet(Taken(q))
           /\ \A k \in Taken(q) : q.inputs[k].id \in InputIds
<1>1. q.inputs \in Seq(Input)
  BY QueryAssumption
<1>2. Taken(q) \subseteq DOMAIN q.inputs /\ DOMAIN q.inputs = 1..Len(q.inputs)
      /\ Len(q.inputs) \in Nat
  BY <1>1 DEF Taken
<1>3. IsFiniteSet(1..Len(q.inputs))
  BY <1>2, FS_Interval
<1>4. IsFiniteSet(Taken(q))
  BY <1>2, <1>3, FS_Subset
<1>5. \A k \in 1..Len(q.inputs) : q.inputs[k] \in Input
  BY <1>1
<1> QED
  BY <1>2, <1>4, <1>5 DEF Input

\* What is known of the inputs of a batch when all are taken.
LEMMA AllTaken ==
    ASSUME CallOK, call.pc = "stream", call.left = {}
    PROVE  /\ call.q \in Batches
           /\ call.uploaded = Good(call.q)
           /\ ToSet(call.skipped) = Bad(call.q)
           /\ call.skipped \in Seq(Nat) /\ IsInjective(call.skipped)
  BY DEF CallOK, StreamOK, Good, Bad

\* What a batch answers with: the matches of its inputs and a row for each input it
\* skipped, all of them once, in the order promised.
LEMMA BatchRows ==
    ASSUME QueryInv, MatchBatch
    PROVE  /\ answer'.error = None
           /\ \E n \in Nat : DOMAIN answer'.rows = 1..n
           /\ IsOrdered(answer'.rows)
           /\ call.q \in Batches
           /\ \E m, from, nth : Traced(call.q, m, answer'.rows, from, nth)
<1> DEFINE q == call.q
           lost == [j \in DOMAIN call.skipped |-> Match(q.inputs[call.skipped[j]], None)]
<1>1. /\ WorldOK /\ CallOK
      /\ call.pc = "stream" /\ call.left = {}
  BY DEF QueryInv, MatchBatch
<1>2. /\ q \in Batches
      /\ IsFiniteSet(Taken(q))
      /\ call.uploaded = {k \in Taken(q) : ValidInput(q.inputs[k])}
      /\ ToSet(call.skipped) = {k \in Taken(q) : ~ValidInput(q.inputs[k])}
      /\ \A k \in Taken(q) : q.inputs[k].id \in InputIds
      /\ call.skipped \in Seq(Nat) /\ IsInjective(call.skipped)
  BY <1>1, AllTaken, TakenTyped DEF Good, Bad
<1>3. PICK m, s, t :
          /\ DOMAIN m = call.uploaded
          /\ \A k \in call.uploaded : m[k] \in Matches(q.inputs[k], q)
          /\ s \in Selected(m) /\ t \in Merged(s, lost) /\ answer' = Rows(t)
  BY DEF MatchBatch
<1>4. answer'.error = None /\ answer'.rows = t
  BY <1>3 DEF Rows
<1>5. /\ \A k \in DOMAIN m : m[k] \in Seq(MatchRow)
      /\ IsFiniteSet(DOMAIN m)
  <2>1. ASSUME NEW k \in DOMAIN m
        PROVE  m[k] \in Seq(MatchRow)
    <3>1. /\ q.inputs[k].id \in InputIds /\ q.inputs[k].ra \in 0..3 /\ q.inputs[k].dec \in -1..1
          /\ m[k] \in Matches(q.inputs[k], q)
      BY <1>2, <1>3 DEF ValidInput, ValidRa, ValidDec
    <3>2. Matched(q, q.inputs[k], m[k], Within(q.radius, q.inputs[k].ra, q.inputs[k].dec))
      BY <1>1, <1>2, <3>1, MatchesAre
    <3> QED
      BY <3>2 DEF Matched
  <2>2. IsFiniteSet(DOMAIN m)
    BY <1>2, <1>3, FS_Subset
  <2> QED
    BY <2>1, <2>2
<1>6. IsFiniteSet(Places(m))
  <2>1. ASSUME NEW k \in DOMAIN m
        PROVE  IsFiniteSet(DOMAIN m[k])
    <3>1. DOMAIN m[k] = 1..Len(m[k]) /\ Len(m[k]) \in Nat
      BY <1>5
    <3> QED
      BY <3>1, FS_Interval
  <2> QED
    BY <1>5, <2>1, PlacesFinite
<1>7. PICK p \in SetToSeqs(Places(m)) :
          /\ s = [i \in DOMAIN p |-> m[p[i][1]][p[i][2]]]
          /\ \A i, j \in DOMAIN s : i < j => ~Follows(s[i], s[j])
  BY <1>3 DEF Selected, Places
<1> DEFINE c == Cardinality(Places(m))
<1>8. /\ c \in Nat
      /\ p \in [1..c -> Places(m)]
      /\ \A i, j \in 1..c : p[i] = p[j] => i = j
      /\ \A x \in Places(m) : \E i \in 1..c : p[i] = x
  BY <1>6, Arranged
<1> HIDE DEF c, lost, q
<1>9. \A i \in 1..c : /\ p[i][1] \in DOMAIN m /\ p[i][2] \in DOMAIN m[p[i][1]]
                      /\ p[i] = <<p[i][1], p[i][2]>>
                      /\ s[i] = m[p[i][1]][p[i][2]]
  <2> SUFFICES ASSUME NEW i \in 1..c
               PROVE  /\ p[i][1] \in DOMAIN m /\ p[i][2] \in DOMAIN m[p[i][1]]
                      /\ p[i] = <<p[i][1], p[i][2]>>
                      /\ s[i] = m[p[i][1]][p[i][2]]
    OBVIOUS
  <2>1. PICK k \in DOMAIN m : \E n \in DOMAIN m[k] : p[i] = <<k, n>>
    BY <1>8, PlaceIs
  <2>2. PICK n \in DOMAIN m[k] : p[i] = <<k, n>>
    BY <2>1
  <2>3. p[i][1] = k /\ p[i][2] = n
    BY <2>2
  <2> QED
    BY <1>7, <1>8, <2>2, <2>3
<1>10. s \in Seq(MatchRow) /\ Len(s) = c /\ DOMAIN s = 1..c
  <2>1. DOMAIN s = 1..c
    BY <1>7, <1>8
  <2>2. \A i \in 1..c : s[i] \in MatchRow
    BY <1>5, <1>9
  <2>3. s \in [1..c -> MatchRow]
    BY <1>7, <2>1, <2>2
  <2> QED
    BY <1>8, <2>1, <2>3
<1>11. /\ lost \in Seq(MatchRow) /\ Len(lost) = Len(call.skipped) /\ Len(lost) \in Nat
       /\ \A j \in 1..Len(lost) : /\ call.skipped[j] \in ToSet(call.skipped)
                                  /\ lost[j] = Match(q.inputs[call.skipped[j]], None)
                                  /\ lost[j].separation = None
  <2>1. /\ DOMAIN call.skipped = 1..Len(call.skipped) /\ Len(call.skipped) \in Nat
        /\ \A j \in DOMAIN call.skipped : call.skipped[j] \in ToSet(call.skipped)
    BY <1>2 DEF ToSet
  <2>2. \A j \in DOMAIN call.skipped : /\ Match(q.inputs[call.skipped[j]], None) \in MatchRow
                                       /\ Match(q.inputs[call.skipped[j]], None).separation = None
    BY <1>2, <2>1 DEF Match, MatchRow
  <2>3. lost \in [1..Len(call.skipped) -> MatchRow]
    BY <2>1, <2>2 DEF lost
  <2>4. lost \in Seq(MatchRow) /\ Len(lost) = Len(call.skipped)
    BY <2>1, <2>3
  <2> QED
    BY <2>1, <2>2, <2>4 DEF lost
<1>12. IsOrdered(t)
  <2>1. \A j \in DOMAIN lost : lost[j].separation = None
    BY <1>11
  <2> QED
    BY <1>3, <1>7, <1>10, <1>11, <2>1, MergedInOrder
<1>13. PICK g \in [DOMAIN t -> DOMAIN (s \o lost)] :
           /\ DOMAIN t = 1..(Len(s) + Len(lost))
           /\ \A i, j \in DOMAIN t : g[i] = g[j] => i = j
           /\ \A n \in DOMAIN (s \o lost) : \E i \in DOMAIN t : g[i] = n
           /\ \A i \in DOMAIN t : t[i] = (s \o lost)[g[i]]
  BY <1>3, <1>10, <1>11, MergedMoves
<1> DEFINE from == [i \in DOMAIN t |-> IF g[i] <= c THEN p[g[i]][1] ELSE call.skipped[g[i] - c]]
           nth == [i \in DOMAIN t |-> IF g[i] <= c THEN p[g[i]][2] ELSE 0]
<1>14. /\ DOMAIN (s \o lost) = 1..(c + Len(lost))
       /\ \A n \in 1..c : (s \o lost)[n] = s[n]
       /\ \A n \in 1..Len(lost) : (s \o lost)[c + n] = lost[n]
  <2>1. /\ DOMAIN (s \o lost) = 1..(Len(s) + Len(lost))
        /\ \A n \in 1..Len(s) : (s \o lost)[n] = s[n]
        /\ \A i \in 1..(Len(s) + Len(lost)) : i > Len(s) => (s \o lost)[i] = lost[i - Len(s)]
    <3>1. s \in Seq(MatchRow) /\ lost \in Seq(MatchRow)
      BY <1>10, <1>11
    <3> QED
      BY <3>1
  <2>2. \A n \in 1..Len(lost) : /\ c + n \in 1..(c + Len(lost)) /\ c + n > c
                                 /\ (c + n) - c = n
    BY <1>8, <1>11
  <2> QED
    BY <1>10, <2>1, <2>2
<1>15. ASSUME NEW i \in DOMAIN t
       PROVE  \/ /\ g[i] \in 1..c
                 /\ from[i] \in DOMAIN m /\ nth[i] \in DOMAIN m[from[i]]
                 /\ p[g[i]] = <<from[i], nth[i]>>
                 /\ t[i] = m[from[i]][nth[i]]
              \/ /\ g[i] - c \in 1..Len(lost) /\ g[i] \notin 1..c
                 /\ from[i] = call.skipped[g[i] - c] /\ nth[i] = 0
                 /\ from[i] \in ToSet(call.skipped)
                 /\ t[i] = Match(q.inputs[from[i]], None)
  <2>1. g[i] \in 1..(c + Len(lost)) /\ t[i] = (s \o lost)[g[i]]
    BY <1>13, <1>14
  <2>2. CASE g[i] <= c
    <3>1. g[i] \in 1..c /\ t[i] = s[g[i]]
      BY <1>8, <1>14, <2>1, <2>2
    <3> QED
      BY <1>9, <2>2, <3>1
  <2>3. CASE ~(g[i] <= c)
    <3>1. g[i] - c \in 1..Len(lost) /\ g[i] \notin 1..c /\ c + (g[i] - c) = g[i]
      BY <1>8, <1>11, <2>1, <2>3
    <3>2. t[i] = lost[g[i] - c]
      BY <1>14, <2>1, <3>1
    <3> QED
      BY <1>11, <2>3, <3>1, <3>2
  <2> QED
    BY <2>2, <2>3
<1>16. ASSUME NEW i \in DOMAIN t, NEW j \in DOMAIN t, from[i] = from[j], nth[i] = nth[j]
       PROVE  i = j
  <2>1. from[i] \in DOMAIN m <=> from[i] \notin ToSet(call.skipped)
    BY <1>2, <1>3, <1>15
  <2>2. CASE from[i] \in DOMAIN m
    <3>1. /\ g[i] \in 1..c /\ p[g[i]] = <<from[i], nth[i]>>
          /\ g[j] \in 1..c /\ p[g[j]] = <<from[j], nth[j]>>
      BY <1>15, <1>16, <2>1, <2>2
    <3>2. g[i] = g[j]
      BY <1>8, <1>16, <3>1
    <3> QED
      BY <1>13, <3>2
  <2>3. CASE from[i] \notin DOMAIN m
    <3>1. /\ g[i] - c \in 1..Len(lost) /\ from[i] = call.skipped[g[i] - c]
          /\ g[j] - c \in 1..Len(lost) /\ from[j] = call.skipped[g[j] - c]
      BY <1>15, <1>16, <2>3
    <3>2. g[i] - c = g[j] - c
      BY <1>2, <1>11, <1>16, <3>1 DEF IsInjective
    <3>3. g[i] \in Nat /\ g[j] \in Nat
      BY <1>13, <1>14
    <3>4. g[i] = g[j]
      BY <1>8, <3>2, <3>3
    <3> QED
      BY <1>13, <3>4
  <2> QED
    BY <2>2, <2>3
<1>17. ASSUME NEW k \in DOMAIN m, NEW n \in DOMAIN m[k]
       PROVE  \E i \in DOMAIN t : from[i] = k /\ nth[i] = n
  <2>1. <<k, n>> \in Places(m)
    BY PlaceIs
  <2>2. PICK a \in 1..c : p[a] = <<k, n>>
    BY <1>8, <2>1
  <2>3. PICK i \in DOMAIN t : g[i] = a
    <3>1. a \in 1..(c + Len(lost))
      BY <1>8, <1>11
    <3> QED
      BY <1>13, <1>14, <3>1
  <2>4. g[i] <= c /\ p[g[i]] = <<k, n>>
    BY <1>8, <2>2, <2>3
  <2> QED
    BY <2>4
<1>18. ASSUME NEW k \in ToSet(call.skipped)
       PROVE  \E i \in DOMAIN t : from[i] = k /\ nth[i] = 0
  <2>1. PICK a \in 1..Len(lost) : call.skipped[a] = k
    BY <1>2, <1>11 DEF ToSet
  <2>2. c + a \in 1..(c + Len(lost)) /\ ~(c + a <= c) /\ (c + a) - c = a
    BY <1>8, <1>11
  <2>3. PICK i \in DOMAIN t : g[i] = c + a
    BY <1>13, <1>14, <2>2
  <2> QED
    BY <2>1, <2>2, <2>3
<1> HIDE DEF from, nth
<1>19. Traced(q, m, t, from, nth)
  <2>1. Good(q) = call.uploaded /\ Bad(q) = ToSet(call.skipped)
    BY <1>2 DEF Good, Bad
  <2> QED
    BY <1>3, <1>15, <1>16, <1>17, <1>18, <2>1 DEF Traced
<1>20. \E n \in Nat : DOMAIN t = 1..n
  BY <1>8, <1>10, <1>11, <1>13
<1> QED
  <2>1. q \in Batches /\ Traced(q, m, answer'.rows, from, nth)
    BY <1>2, <1>4, <1>19
  <2> QED
    BY <1>4, <1>12, <1>20, <2>1 DEF q

\* An input that a batch can only answer with a row that says matched=False.
Hopeless(q, k) ==
    LET x == q.inputs[k] IN ~ValidInput(x) \/ Within(q.radius, x.ra, x.dec) = {}

\* Row i tells what came of input from[i], and every input has its row.
Told(q, rows, from, nth) ==
    /\ \A i \in DOMAIN rows :
          /\ from[i] \in Taken(q)
          /\ rows[i].input = q.inputs[from[i]].id
          /\ IF Hopeless(q, from[i])
             THEN /\ rows[i].matched = FALSE
                  /\ nth[i] = IF from[i] \in Good(q) THEN 1 ELSE 0
             ELSE rows[i].matched = TRUE
    /\ \A k \in Taken(q) :
          \E i \in DOMAIN rows :
              from[i] = k /\ nth[i] = IF k \in Good(q) THEN 1 ELSE 0

\* So do the rows of a batch.
LEMMA TracedRows ==
    ASSUME WorldOK, NEW q \in Batches, NEW m, NEW rows, NEW from, NEW nth,
           Traced(q, m, rows, from, nth)
    PROVE  Told(q, rows, from, nth)
<1>1. ASSUME NEW k \in Good(q)
      PROVE  /\ k \in Taken(q) /\ 1 \in DOMAIN m[k]
             /\ \A n \in DOMAIN m[k] : /\ m[k][n].input = q.inputs[k].id
                                       /\ IF Hopeless(q, k)
                                          THEN m[k][n].matched = FALSE /\ n = 1
                                          ELSE m[k][n].matched = TRUE
  <2> DEFINE near == Within(q.radius, q.inputs[k].ra, q.inputs[k].dec)
  <2>1. /\ k \in Taken(q) /\ ValidInput(q.inputs[k])
        /\ q.inputs[k].id \in InputIds /\ q.inputs[k].ra \in 0..3 /\ q.inputs[k].dec \in -1..1
        /\ m[k] \in Matches(q.inputs[k], q)
    BY TakenTyped DEF Good, Traced, ValidInput, ValidRa, ValidDec
  <2>2. Hopeless(q, k) <=> near = {}
    BY <2>1 DEF Hopeless
  <2> HIDE DEF near
  <2>3. Matched(q, q.inputs[k], m[k], near)
    BY <2>1, MatchesAre DEF near
  <2>4. /\ m[k] \in Seq(MatchRow) /\ 1 \in DOMAIN m[k]
        /\ \A n \in DOMAIN m[k] : m[k][n].input = q.inputs[k].id
                                  /\ m[k][n].matched = (near # {})
        /\ near = {} => DOMAIN m[k] = {1}
    BY <2>3 DEF Matched
  <2>5. CASE near = {}
    BY <2>1, <2>2, <2>4, <2>5
  <2>6. CASE near # {}
    BY <2>1, <2>2, <2>4, <2>6
  <2> QED
    BY <2>5, <2>6
<1>2. ASSUME NEW k \in Bad(q)
      PROVE  /\ k \in Taken(q) /\ k \notin Good(q) /\ Hopeless(q, k)
             /\ Match(q.inputs[k], None).input = q.inputs[k].id
             /\ Match(q.inputs[k], None).matched = FALSE
  BY DEF Good, Bad, Hopeless, Match
<1>3. ASSUME NEW i \in DOMAIN rows
      PROVE  /\ from[i] \in Taken(q)
             /\ rows[i].input = q.inputs[from[i]].id
             /\ IF Hopeless(q, from[i])
                THEN /\ rows[i].matched = FALSE
                     /\ nth[i] = IF from[i] \in Good(q) THEN 1 ELSE 0
                ELSE rows[i].matched = TRUE
  <2>1. CASE /\ from[i] \in Good(q) /\ nth[i] \in DOMAIN m[from[i]]
             /\ rows[i] = m[from[i]][nth[i]]
    <3>1. m[from[i]][nth[i]].input = q.inputs[from[i]].id /\ from[i] \in Taken(q)
      BY <1>1, <2>1
    <3>2. CASE Hopeless(q, from[i])
      <4>1. m[from[i]][nth[i]].matched = FALSE /\ nth[i] = 1
        BY <1>1, <2>1, <3>2
      <4> QED
        BY <2>1, <3>1, <3>2, <4>1
    <3>3. CASE ~Hopeless(q, from[i])
      BY <1>1, <2>1, <3>1, <3>3
    <3> QED
      BY <3>2, <3>3
  <2>2. CASE /\ from[i] \in Bad(q) /\ nth[i] = 0
             /\ rows[i] = Match(q.inputs[from[i]], None)
    BY <1>2, <2>2
  <2> QED
    BY <2>1, <2>2 DEF Traced
<1>4. ASSUME NEW k \in Taken(q)
      PROVE  \E i \in DOMAIN rows :
                 from[i] = k /\ nth[i] = IF k \in Good(q) THEN 1 ELSE 0
  <2>1. CASE k \in Good(q)
    BY <1>1, <2>1 DEF Traced
  <2>2. CASE k \notin Good(q)
    BY <2>2 DEF Traced, Good, Bad
  <2> QED
    BY <2>1, <2>2
<1> QED
  BY <1>3, <1>4 DEF Told

\* As many rows of an id say matched=False as it has hopeless inputs, and as many
\* at least say matched=True as it has others.
Counted(q, rows, id) ==
    LET yes == {j \in DOMAIN rows : rows[j].input = id /\ rows[j].matched = TRUE}
        no == {j \in DOMAIN rows : rows[j].input = id /\ rows[j].matched = FALSE}
        mine == {k \in Taken(q) : q.inputs[k].id = id}
        bad == {k \in mine : Hopeless(q, k)}
    IN Cardinality(no) = Cardinality(bad) /\ Cardinality(yes) >= Cardinality(mine \ bad)

\* So it is for the rows of a batch.
LEMMA RowsPerInput ==
    ASSUME WorldOK, NEW q \in Batches, NEW m, NEW rows, NEW from, NEW nth,
           Traced(q, m, rows, from, nth), \E n \in Nat : DOMAIN rows = 1..n,
           NEW id
    PROVE  Counted(q, rows, id)
<1> DEFINE yes == {j \in DOMAIN rows : rows[j].input = id /\ rows[j].matched = TRUE}
           no == {j \in DOMAIN rows : rows[j].input = id /\ rows[j].matched = FALSE}
           mine == {k \in Taken(q) : q.inputs[k].id = id}
           bad == {k \in mine : Hopeless(q, k)}
<1>1. /\ \A i \in DOMAIN rows :
            /\ from[i] \in Taken(q)
            /\ rows[i].input = q.inputs[from[i]].id
            /\ IF Hopeless(q, from[i])
               THEN /\ rows[i].matched = FALSE
                    /\ nth[i] = IF from[i] \in Good(q) THEN 1 ELSE 0
               ELSE rows[i].matched = TRUE
      /\ \A k \in Taken(q) :
            \E i \in DOMAIN rows : from[i] = k /\ nth[i] = IF k \in Good(q) THEN 1 ELSE 0
  <2>1. Told(q, rows, from, nth)
    BY TracedRows
  <2> QED
    BY <2>1 DEF Told
<1>2. \A i, j \in DOMAIN rows : from[i] = from[j] /\ nth[i] = nth[j] => i = j
  BY DEF Traced
<1>3. IsFiniteSet(bad) /\ IsFiniteSet(yes)
  <2>1. IsFiniteSet(DOMAIN rows)
    BY FS_Interval
  <2>2. yes \in SUBSET DOMAIN rows /\ bad \in SUBSET Taken(q)
    OBVIOUS
  <2> QED
    BY <2>1, <2>2, TakenTyped, FS_Subset
<1> DEFINE f == [k \in bad |-> CHOOSE i \in no : from[i] = k]
           g == [k \in mine \ bad |-> CHOOSE i \in yes : from[i] = k]
<1>4. Cardinality(no) = Cardinality(bad)
  <2>1. ASSUME NEW k \in bad
        PROVE  f[k] \in no /\ from[f[k]] = k
    <3>1. PICK i \in DOMAIN rows : from[i] = k
      BY <1>1
    <3>2. i \in no
      BY <1>1, <3>1
    <3> QED
      BY <3>1, <3>2
  <2>2. ASSUME NEW i \in no
        PROVE  from[i] \in bad /\ f[from[i]] = i
    <3>1. from[i] \in bad /\ Hopeless(q, from[i])
      BY <1>1
    <3>2. f[from[i]] \in no /\ from[f[from[i]]] = from[i]
      BY <2>1, <3>1
    <3>3. nth[f[from[i]]] = nth[i]
      BY <1>1, <3>1, <3>2
    <3> QED
      BY <1>2, <3>1, <3>2, <3>3
  <2> HIDE DEF f, no, bad, mine
  <2>3. DOMAIN f = bad
    BY DEF f
  <2>4. f \in [bad -> no]
    BY <2>1 DEF f
  <2>5. f \in Bijection(bad, no)
    BY <2>1, <2>2, <2>3, <2>4 DEF Bijection, Injection, Surjection, IsInjective
  <2> QED
    BY <1>3, <2>5, FS_Bijection DEF ExistsBijection
<1>5. Cardinality(yes) >= Cardinality(mine \ bad)
  <2>1. ASSUME NEW k \in mine \ bad
        PROVE  g[k] \in yes /\ from[g[k]] = k
    <3>1. PICK i \in DOMAIN rows : from[i] = k
      BY <1>1
    <3>2. i \in yes
      BY <1>1, <3>1
    <3> QED
      BY <3>1, <3>2
  <2>2. g \in [mine \ bad -> yes]
    BY <2>1
  <2> HIDE DEF g, yes, bad, mine
  <2>3. g \in Injection(mine \ bad, yes)
    BY <2>1, <2>2 DEF Injection, IsInjective
  <2>4. IsFiniteSet(mine \ bad) /\ Cardinality(mine \ bad) <= Cardinality(yes)
    BY <1>3, <2>3, FS_Injection
  <2>5. Cardinality(mine \ bad) \in Nat /\ Cardinality(yes) \in Nat
    BY <1>3, <2>4, FS_CardinalityType
  <2> QED
    BY <2>4, <2>5
<1> QED
  BY <1>4, <1>5 DEF Counted

\* The input shares its id with no other.
Alone(q, k) == \A l \in Taken(q) : q.inputs[l].id = q.inputs[k].id => l = k

\* The matched rows of its id are what a cone search at its position returns.
Agrees(q, rows, k) ==
    LET x == q.inputs[k]
        yes == {j \in DOMAIN rows : rows[j].input = x.id /\ rows[j].matched = TRUE}
        near == Within(q.radius, x.ra, x.dec)
    IN BestOf([j \in yes |-> rows[j].row], near, Candidates(q), NoFurther(near, x.ra, x.dec))

\* So they are in the answer to a batch.
LEMMA RowsAreBest ==
    ASSUME WorldOK, NEW q \in Batches, NEW m, NEW rows, NEW from, NEW nth,
           Traced(q, m, rows, from, nth), \E n \in Nat : DOMAIN rows = 1..n, IsOrdered(rows),
           NEW k \in Good(q), Alone(q, k)
    PROVE  Agrees(q, rows, k)
<1> DEFINE x == q.inputs[k]
           yes == {j \in DOMAIN rows : rows[j].input = x.id /\ rows[j].matched = TRUE}
           near == Within(q.radius, x.ra, x.dec)
           r == [j \in yes |-> rows[j].row]
           order == NoFurther(near, x.ra, x.dec)
<1>1. /\ k \in Taken(q) /\ ValidInput(x)
      /\ x.id \in InputIds /\ x.ra \in 0..3 /\ x.dec \in -1..1
      /\ m[k] \in Matches(x, q)
  BY TakenTyped DEF Good, Traced, ValidInput, ValidRa, ValidDec
<1>2. Hopeless(q, k) <=> near = {}
  BY <1>1 DEF Hopeless
<1>3. Matched(q, x, m[k], near)
  BY <1>1, MatchesAre
<1>4. Told(q, rows, from, nth)
  BY TracedRows
<1>5. \A j \in DOMAIN rows : j \in yes <=> from[j] = k /\ ~Hopeless(q, k)
  <2> SUFFICES ASSUME NEW j \in DOMAIN rows
               PROVE  j \in yes <=> from[j] = k /\ ~Hopeless(q, k)
    OBVIOUS
  <2>1. /\ from[j] \in Taken(q) /\ rows[j].input = q.inputs[from[j]].id
        /\ Hopeless(q, from[j]) => rows[j].matched = FALSE
        /\ ~Hopeless(q, from[j]) => rows[j].matched = TRUE
    BY <1>4 DEF Told
  <2>2. k \in Taken(q) /\ \A l \in Taken(q) : q.inputs[l].id = q.inputs[k].id => l = k
    BY <1>1 DEF Alone
  <2> QED
    BY <2>1, <2>2
<1>6. IsFiniteSet(near) /\ near \subseteq DataRow
  BY <1>1, WithinIs, TableTyped DEF Within, Released
<1> SUFFICES BestOf(r, near, Candidates(q), order)
  BY DEF Agrees
<1> HIDE DEF near
<1>7. CASE near = {}
  <2>1. yes = {} /\ DOMAIN r = {}
    BY <1>2, <1>5, <1>7
  <2>2. Cardinality(yes) = 0 /\ Cardinality(near) = 0
    BY <1>7, <2>1, FS_EmptySet
  <2>3. Candidates(q) \in Nat /\ Candidates(q) >= 1
    BY CandidatesTyped
  <2>4. ~(Candidates(q) < Cardinality(near))
    BY <2>2, <2>3
  <2>5. Cardinality(DOMAIN r) = Cardinality(near)
    BY <1>7, <2>1
  <2>6. IsInjective(r) /\ ToSet(r) = {}
    BY <2>1 DEF IsInjective, ToSet
  <2> HIDE DEF r, order
  <2> QED
    BY <1>7, <2>1, <2>4, <2>5, <2>6 DEF BestOf
<1>8. CASE near # {}
  <2>1. PICK s : /\ DOMAIN s = DOMAIN m[k]
                 /\ \A n \in DOMAIN m[k] : m[k][n].row = s[n]
                 /\ \A n \in DOMAIN m[k] : /\ m[k][n].separation \in Nat
                                           /\ m[k][n].separation = Haversine(s[n], x.ra, x.dec)
                 /\ BestOf(s, near, Candidates(q), NoFurther(near, x.ra, x.dec))
    BY <1>3, <1>8 DEF Matched
  <2>2. /\ BestOf(s, near, Candidates(q), order)
        /\ IsInjective(s) /\ ToSet(s) \subseteq near
        /\ \A n \in DOMAIN s : s[n] \in near
        /\ \A n, o \in DOMAIN s : s[n] = s[o] => n = o
    BY <2>1 DEF BestOf, IsInjective, ToSet
  <2>3. ASSUME NEW j \in yes
        PROVE  /\ j \in DOMAIN rows /\ from[j] = k
               /\ nth[j] \in DOMAIN s /\ rows[j] = m[k][nth[j]]
               /\ r[j] = s[nth[j]]
               /\ rows[j].separation \in Nat
               /\ rows[j].separation = Haversine(r[j], x.ra, x.dec)
    <3>1. j \in DOMAIN rows /\ from[j] = k
      BY <1>5
    <3>2. k \notin Bad(q)
      BY DEF Good, Bad
    <3>3. nth[j] \in DOMAIN m[k] /\ rows[j] = m[k][nth[j]]
      BY <3>1, <3>2 DEF Traced
    <3> QED
      BY <2>1, <3>1, <3>3
  <2>4. ASSUME NEW n \in DOMAIN s
        PROVE  \E j \in yes : nth[j] = n
    <3>1. PICK j \in DOMAIN rows : from[j] = k /\ nth[j] = n
      BY <2>1 DEF Traced
    <3> QED
      BY <1>2, <1>5, <1>8, <3>1
  <2>5. ASSUME NEW i \in yes, NEW j \in yes, nth[i] = nth[j]
        PROVE  i = j
    <3>1. i \in DOMAIN rows /\ j \in DOMAIN rows /\ from[i] = from[j]
      BY <2>3
    <3> QED
      BY <2>5, <3>1 DEF Traced
  <2> DEFINE f == [j \in yes |-> nth[j]]
  <2>6. f \in Bijection(yes, DOMAIN s)
    <3>1. f \in [yes -> DOMAIN s]
      BY <2>3
    <3> QED
      BY <2>4, <2>5, <3>1 DEF Bijection, Injection, Surjection, IsInjective
  <2>7. Cardinality(DOMAIN r) = Cardinality(DOMAIN s)
    <3>1. IsFiniteSet(DOMAIN rows)
      BY FS_Interval
    <3>2. yes \in SUBSET DOMAIN rows
      OBVIOUS
    <3>3. IsFiniteSet(yes)
      BY <3>1, <3>2, FS_Subset
    <3>4. Cardinality(DOMAIN s) = Cardinality(yes)
      <4> HIDE DEF f
      <4> QED
        BY <2>6, <3>3, FS_Bijection DEF ExistsBijection
    <3> QED
      BY <3>4
  <2>8. DOMAIN r = yes
    OBVIOUS
  <2> HIDE DEF r, f, yes
  <2>9. ToSet(r) = ToSet(s)
    <3>1. \A j \in yes : r[j] \in ToSet(s)
      BY <2>3 DEF ToSet
    <3>2. \A n \in DOMAIN s : s[n] \in ToSet(r)
      BY <2>3, <2>4, <2>8 DEF ToSet
    <3> QED
      BY <2>8, <3>1, <3>2 DEF ToSet
  <2>10. IsInjective(r)
    BY <2>2, <2>3, <2>5, <2>8 DEF IsInjective
  <2>11. ASSUME NEW i \in yes, NEW j \in yes, i < j
         PROVE  <<r[i], r[j]>> \in order
    <3>1. /\ rows[i].separation \in Nat /\ rows[j].separation \in Nat
          /\ rows[i].separation = Haversine(r[i], x.ra, x.dec)
          /\ rows[j].separation = Haversine(r[j], x.ra, x.dec)
      BY <2>3
    <3>2. /\ i \in DOMAIN rows /\ j \in DOMAIN rows /\ i <= j
          /\ rows[i].input = rows[j].input
      BY <2>11 DEF yes
    <3>3. ~Before(rows[j].separation, rows[i].separation)
      BY <3>2 DEF IsOrdered
    <3>4. rows[j].separation # None
      BY <3>1, QueryAssumption
    <3>5. rows[i].separation <= rows[j].separation
      BY <3>1, <3>3, <3>4 DEF Before
    <3>6. r[i] \in near /\ r[j] \in near
      BY <2>2, <2>3
    <3> QED
      BY <3>1, <3>5, <3>6 DEF order, NoFurther
  <2>12. ASSUME NEW i \in yes, NEW row \in near \ ToSet(r)
         PROVE  <<r[i], row>> \in order
    BY <2>2, <2>3, <2>9 DEF BestOf
  <2> HIDE DEF order
  <2> QED
    BY <2>2, <2>7, <2>8, <2>9, <2>10, <2>11, <2>12 DEF BestOf
<1> QED
  BY <1>7, <1>8

\* When a batch is answered, it is answered as promised.
LEMMA BatchStep ==
    ASSUME QueryInv, MatchBatch
    PROVE  /\ answer'.error = None
           /\ BatchAgreesWithCone' /\ EveryInputAnswered' /\ BatchIsOrdered'
<1>1. PICK q, rows, m, from, nth :
          /\ q = call.q /\ rows = answer'.rows /\ answer'.error = None
          /\ \E n \in Nat : DOMAIN rows = 1..n
          /\ IsOrdered(rows)
          /\ q \in Batches
          /\ Traced(q, m, rows, from, nth)
  BY BatchRows
<1>2. WorldOK /\ call'.q = q /\ parent' = parent
  BY <1>1 DEF QueryInv, MatchBatch, Nothing
<1>3. \A radius, ra, dec : Within(radius, ra, dec)' = Within(radius, ra, dec)
  BY <1>2 DEF Within, Released
<1>4. BatchIsOrdered'
  BY <1>1 DEF BatchIsOrdered, IsOrdered
<1>5. EveryInputAnswered'
  <2>1. \A j \in DOMAIN rows : \E k \in Taken(q) : rows[j].input = q.inputs[k].id
    <3>1. Told(q, rows, from, nth)
      BY <1>1, <1>2, TracedRows
    <3> QED
      BY <3>1 DEF Told
  <2>2. ASSUME NEW id \in InputIds
        PROVE  LET mine == {k \in Taken(q) : q.inputs[k].id = id}
                   lost == {k \in mine : Hopeless(q, k)}
               IN /\ Cardinality(RowsFor(id, FALSE)') = Cardinality(lost)
                  /\ Cardinality(RowsFor(id, TRUE)') >= Cardinality(mine \ lost)
    <3>1. Counted(q, rows, id)
      BY <1>1, <1>2, RowsPerInput
    <3> QED
      BY <1>1, <3>1 DEF Counted, RowsFor
  <2> QED
    BY <1>1, <1>2, <1>3, <2>1, <2>2 DEF EveryInputAnswered, Hopeless
<1>6. BatchAgreesWithCone'
  <2>1. ASSUME NEW k \in Taken(q), ValidInput(q.inputs[k]),
               \A l \in Taken(q) : q.inputs[l].id = q.inputs[k].id => l = k
        PROVE  LET x == q.inputs[k]
                   near == Within(q.radius, x.ra, x.dec)
               IN BestOf([j \in RowsFor(x.id, TRUE)' |-> rows[j].row], near,
                         Candidates(q), NoFurther(near, x.ra, x.dec))
    <3>1. k \in Good(q) /\ Alone(q, k)
      BY <2>1 DEF Good, Alone
    <3>2. Agrees(q, rows, k)
      BY <1>1, <1>2, <3>1, RowsAreBest
    <3> QED
      BY <1>1, <3>2 DEF Agrees, RowsFor
  <2> QED
    BY <1>1, <1>2, <1>3, <2>1 DEF BatchAgreesWithCone
<1> QED
  BY <1>1, <1>4, <1>5, <1>6

-----------------------------------------------------------------------------
(* The inductive invariant                                                 *)

\* A set of input numbers has a least: the next input is one of those to come.
LEMMA Least ==
    ASSUME NEW S \in SUBSET Nat, S # {}
    PROVE  \E m \in S : \A n \in S : m <= n
<1>1. \E m \in S : \A n \in S : ~(<<n, m>> \in OpToRel(<, Nat))
  BY NatLessThanWellFounded, WFMin
<1>2. PICK m \in S : \A n \in S : ~(n < m)
  BY <1>1 DEF OpToRel
<1> QED
  BY <1>2

\* A query that has no answer, or raised an error, promises no rows.
LEMMA NothingPromised ==
    ASSUME answer' # None => answer'.error \in {"refused", "misconfigured"}
    PROVE  AnswerOK'
<1>1. ~Answered("cone")' /\ ~Answered("lookup")' /\ ~Answered("batch")'
  BY QueryAssumption DEF Answered
<1>2. SearchIsReference'
  BY <1>1 DEF SearchIsReference, Answered
<1>3. BatchAgreesWithCone' /\ EveryInputAnswered' /\ BatchIsOrdered'
  BY <1>1 DEF BatchAgreesWithCone, EveryInputAnswered, BatchIsOrdered, Answered
<1> QED
  BY <1>2, <1>3 DEF AnswerOK

\* Settings and table stay, and so does a connection until the caller is done.
LEMMA WorldStays ==
    ASSUME QueryInv, setup' = setup, parent' = parent,
           connection' = connection \/ connection' = None
    PROVE  WorldOK' /\ ConnectionOK'
  BY DEF QueryInv, WorldOK, ConnectionOK

\* The invariant holds initially.
LEMMA QueryInitHolds == QueryInit => QueryInv
<1> SUFFICES ASSUME QueryInit
             PROVE  QueryInv
  OBVIOUS
<1>1. WorldOK /\ ConnectionOK /\ answer = None
  BY DEF QueryInit, WorldOK, ConnectionOK
<1>2. CallOK
  BY DEF QueryInit, Nothing, CallOK
<1>3. AnswerOK
  BY <1>1 DEF AnswerOK, SearchIsReference, BatchAgreesWithCone, EveryInputAnswered,
     BatchIsOrdered, Answered
<1> QED
  BY <1>1, <1>2, <1>3 DEF QueryInv

\* Connecting preserves it.
LEMMA ConnectHolds ==
    ASSUME QueryInv, Connect
    PROVE  QueryInv'
<1>1. call.pc = "idle" /\ answer = None /\ setup' = setup
  BY DEF Connect, Idle, QueryInv, CallOK
<1>2. WorldOK' /\ ConnectionOK'
  BY <1>1 DEF Connect, QueryInv, WorldOK, ConnectionOK
<1>3. CallOK'
  BY <1>1 DEF Connect, QueryInv, CallOK
<1>4. AnswerOK'
  BY <1>1, NothingPromised DEF Connect
<1> QED
  BY <1>2, <1>3, <1>4 DEF QueryInv

\* A search, or any query with an answer, is over.
LEMMA CallIsOver ==
    ASSUME NEW pc \in {"cone", "lookup", "batch"}, NEW q,
           call' = [Nothing EXCEPT !.pc = pc, !.q = q]
    PROVE  CallOK'
  BY DEF Nothing, CallOK

\* Searches preserve it.
LEMMA SearchHolds ==
    ASSUME QueryInv, ConeSearch \/ Lookup
    PROVE  QueryInv'
<1>1. WorldOK' /\ ConnectionOK'
  BY WorldStays DEF ConeSearch, Lookup
<1>2. CallOK'
  BY CallIsOver DEF ConeSearch, Lookup
<1>3. SearchIsReference'
  BY ConeIsReference, LookupIsReference
<1>4. answer' # None => answer'.error \in {None, "refused", "misconfigured"}
  <2>1. CASE ConeSearch
    <3>1. \A q : ConeError(q) \in {None, "refused", "misconfigured"}
      BY DEF ConeError
    <3>2. PICK q \in Cones : \/ answer' = Error(ConeError(q)) /\ ConeError(q) # None
                             \/ \E s : answer' = Rows(s)
      BY <2>1 DEF ConeSearch
    <3> QED
      BY <3>1, <3>2 DEF Error, Rows
  <2>2. CASE Lookup
    <3>1. \A q : LookupError(q) \in {None, "refused", "misconfigured"}
      BY DEF LookupError
    <3>2. PICK q \in Lookups : \/ answer' = Error(LookupError(q)) /\ LookupError(q) # None
                               \/ \E s : answer' = Rows(s)
      BY <2>2 DEF Lookup
    <3> QED
      BY <3>1, <3>2 DEF Error, Rows
  <2> QED
    BY <2>1, <2>2
<1>5. call'.pc # "batch"
  BY DEF ConeSearch, Lookup, Nothing
<1>6. BatchAgreesWithCone' /\ EveryInputAnswered' /\ BatchIsOrdered'
  BY <1>5 DEF BatchAgreesWithCone, EveryInputAnswered, BatchIsOrdered, Answered
<1> QED
  BY <1>1, <1>2, <1>3, <1>4, <1>6 DEF QueryInv, AnswerOK

\* The start of a batch preserves it: nothing is taken yet.
LEMMA BeginBatchHolds ==
    ASSUME QueryInv, BeginBatch
    PROVE  QueryInv'
<1>1. PICK q \in Batches :
          \/ /\ call' = [Nothing EXCEPT !.pc = "batch", !.q = q]
             /\ answer' = Error("refused") \/ answer' = Error("misconfigured")
          \/ /\ call' = [Nothing EXCEPT !.pc = "stream", !.q = q, !.left = Taken(q)]
             /\ answer' = answer
  BY DEF BeginBatch
<1>2. WorldOK' /\ ConnectionOK' /\ answer = None
  BY WorldStays DEF BeginBatch, Idle, QueryInv, CallOK
<1>3. AnswerOK'
  BY <1>1, <1>2, NothingPromised DEF Error
<1>4. CASE call' = [Nothing EXCEPT !.pc = "batch", !.q = q]
  BY <1>2, <1>3, <1>4, CallIsOver DEF QueryInv
<1>5. CASE /\ call' = [Nothing EXCEPT !.pc = "stream", !.q = q, !.left = Taken(q)]
           /\ answer' = answer
  <2>1. call' = [pc |-> "stream", q |-> q, left |-> Taken(q), uploaded |-> {}, skipped |-> <<>>]
    BY <1>5 DEF Nothing
  <2>2. <<>> \in Seq(Nat) /\ IsInjective(<<>>) /\ ToSet(<<>>) = {}
    BY DEF IsInjective, ToSet
  <2>3. StreamOK'
    <3>1. /\ call'.q = q /\ call'.left = Taken(q) /\ call'.uploaded = {}
          /\ call'.skipped = <<>>
      BY <2>1
    <3>2. Taken(q) \ call'.left = {}
      BY <3>1
    <3> QED
      BY <1>2, <1>5, <2>2, <3>1, <3>2 DEF StreamOK
  <2>4. CallOK'
    BY <2>1, <2>3 DEF CallOK
  <2> QED
    BY <1>2, <1>3, <2>4 DEF QueryInv
<1> QED
  BY <1>1, <1>4, <1>5

\* Taking an input preserves it: it goes to one place, and went to none before.
LEMMA StreamHolds ==
    ASSUME QueryInv, Stream
    PROVE  QueryInv'
<1>1. PICK k, q : /\ k = NextInput /\ q = call.q
                  /\ call.pc = "stream" /\ call.left # {}
                  /\ IF ~Numeric(q.inputs[k])
                     THEN /\ call' = [Nothing EXCEPT !.pc = "batch", !.q = q]
                          /\ answer' = Error("refused")
                     ELSE /\ call' = IF ValidInput(q.inputs[k])
                                     THEN [call EXCEPT !.left = @ \ {k},
                                                       !.uploaded = @ \cup {k}]
                                     ELSE [call EXCEPT !.left = @ \ {k},
                                                       !.skipped = Append(@, k)]
                          /\ answer' = answer
  BY DEF Stream
<1>2. /\ call = [pc |-> "stream", q |-> q, left |-> call.left, uploaded |-> call.uploaded,
                 skipped |-> call.skipped]
      /\ q \in Batches /\ answer = None
      /\ call.left \subseteq Taken(q)
      /\ call.uploaded = {n \in Taken(q) \ call.left : ValidInput(q.inputs[n])}
      /\ call.skipped \in Seq(Nat) /\ IsInjective(call.skipped)
      /\ ToSet(call.skipped) = {n \in Taken(q) \ call.left : ~ValidInput(q.inputs[n])}
  BY <1>1 DEF QueryInv, CallOK, StreamOK
<1>3. WorldOK' /\ ConnectionOK'
  BY WorldStays DEF Stream
<1>4. AnswerOK'
  BY <1>1, <1>2, NothingPromised DEF Error
<1>5. k \in call.left /\ k \in Nat
  <2>1. q.inputs \in Seq(Input)
    BY <1>2, QueryAssumption
  <2>2. Taken(q) \subseteq Nat
    BY <2>1 DEF Taken
  <2>3. \E n \in call.left : \A l \in call.left : n <= l
    BY <1>1, <1>2, <2>2, Least
  <2> QED
    BY <1>1, <1>2, <2>2, <2>3 DEF NextInput
<1>6. CASE ~Numeric(q.inputs[k])
  BY <1>1, <1>3, <1>4, <1>6, CallIsOver DEF QueryInv
<1>7. CASE Numeric(q.inputs[k]) /\ ValidInput(q.inputs[k])
  <2>1. call' = [pc |-> "stream", q |-> q, left |-> call.left \ {k},
                 uploaded |-> call.uploaded \cup {k}, skipped |-> call.skipped]
    BY <1>1, <1>2, <1>7
  <2>2. /\ call.uploaded \cup {k} =
              {n \in Taken(q) \ (call.left \ {k}) : ValidInput(q.inputs[n])}
        /\ ToSet(call.skipped) =
              {n \in Taken(q) \ (call.left \ {k}) : ~ValidInput(q.inputs[n])}
    BY <1>2, <1>5, <1>7
  <2>3. StreamOK'
    BY <1>1, <1>2, <1>7, <2>1, <2>2 DEF StreamOK
  <2>4. CallOK'
    BY <2>1, <2>3 DEF CallOK
  <2> QED
    BY <1>3, <1>4, <2>4 DEF QueryInv
<1>8. CASE Numeric(q.inputs[k]) /\ ~ValidInput(q.inputs[k])
  <2> DEFINE s == Append(call.skipped, k)
  <2>1. call' = [pc |-> "stream", q |-> q, left |-> call.left \ {k},
                 uploaded |-> call.uploaded, skipped |-> s]
    BY <1>1, <1>2, <1>8
  <2>2. call.uploaded = {n \in Taken(q) \ (call.left \ {k}) : ValidInput(q.inputs[n])}
    BY <1>2, <1>5, <1>8
  <2>3. /\ s \in Seq(Nat)
        /\ DOMAIN s = DOMAIN call.skipped \cup {Len(call.skipped) + 1}
        /\ Len(call.skipped) + 1 \notin DOMAIN call.skipped
        /\ \A i \in DOMAIN call.skipped : s[i] = call.skipped[i]
        /\ s[Len(call.skipped) + 1] = k
    BY <1>2, <1>5
  <2>4. \A i \in DOMAIN call.skipped : call.skipped[i] # k
    BY <1>2, <1>5 DEF ToSet
  <2> HIDE DEF s
  <2>5. IsInjective(s)
    BY <1>2, <2>3, <2>4 DEF IsInjective
  <2>6. ToSet(s) = ToSet(call.skipped) \cup {k}
    BY <2>3 DEF ToSet
  <2>7. ToSet(s) = {n \in Taken(q) \ (call.left \ {k}) : ~ValidInput(q.inputs[n])}
    BY <1>2, <1>5, <1>8, <2>6
  <2>8. StreamOK'
    BY <1>1, <1>2, <1>8, <2>1, <2>2, <2>3, <2>5, <2>7 DEF StreamOK
  <2>9. CallOK'
    BY <2>1, <2>8 DEF CallOK
  <2> QED
    BY <1>3, <1>4, <2>9 DEF QueryInv
<1> QED
  BY <1>6, <1>7, <1>8

\* So does the SELECT over the batch.
LEMMA MatchBatchHolds ==
    ASSUME QueryInv, MatchBatch
    PROVE  QueryInv'
<1>1. WorldOK' /\ ConnectionOK'
  BY WorldStays DEF MatchBatch
<1>2. CallOK' /\ call'.pc = "batch"
  BY CallIsOver DEF MatchBatch, Nothing
<1>3. SearchIsReference'
  BY <1>2 DEF SearchIsReference, Answered
<1> QED
  BY <1>1, <1>2, <1>3, BatchStep DEF QueryInv, AnswerOK

\* And the end of a query.
LEMMA ReturnHolds ==
    ASSUME QueryInv, Return
    PROVE  QueryInv'
<1>1. WorldOK' /\ ConnectionOK'
  BY WorldStays DEF Return
<1>2. CallOK'
  BY DEF Return, Nothing, CallOK
<1>3. AnswerOK'
  BY NothingPromised DEF Return
<1> QED
  BY <1>1, <1>2, <1>3 DEF QueryInv

-----------------------------------------------------------------------------
(* The invariant holds                                                     *)

\* Whatever is asked in whatever order, the invariant holds.
THEOREM QueryInvariance == QuerySpec => []QueryInv
<1>1. QueryInv /\ [QueryNext]_queryVars => QueryInv'
  <2> SUFFICES ASSUME QueryInv, [QueryNext]_queryVars
               PROVE  QueryInv'
    OBVIOUS
  <2>1. CASE Connect
    BY <2>1, ConnectHolds
  <2>2. CASE ConeSearch \/ Lookup
    BY <2>2, SearchHolds
  <2>3. CASE BeginBatch
    BY <2>3, BeginBatchHolds
  <2>4. CASE Stream
    BY <2>4, StreamHolds
  <2>5. CASE MatchBatch
    BY <2>5, MatchBatchHolds
  <2>6. CASE Return
    BY <2>6, ReturnHolds
  <2>7. CASE UNCHANGED queryVars
    <3>1. /\ setup' = setup /\ parent' = parent /\ connection' = connection
          /\ call' = call /\ answer' = answer
      BY <2>7 DEF queryVars
    <3>2. WorldOK' /\ ConnectionOK' /\ CallOK'
      BY <3>1, WorldStays DEF QueryInv, CallOK, StreamOK
    <3>3. \A radius, ra, dec : Within(radius, ra, dec)' = Within(radius, ra, dec)
      BY <3>1 DEF Within, Released
    <3>4. SearchIsReference'
      <4>1. SearchIsReference
        BY DEF QueryInv, AnswerOK
      <4> QED
        BY <3>1, <4>1 DEF SearchIsReference, Answered, Within, Released
    <3>5. BatchAgreesWithCone'
      BY <3>1, <3>3 DEF QueryInv, AnswerOK, BatchAgreesWithCone, Answered, RowsFor
    <3>6. EveryInputAnswered'
      BY <3>1, <3>3 DEF QueryInv, AnswerOK, EveryInputAnswered, Answered, RowsFor
    <3>7. BatchIsOrdered'
      BY <3>1 DEF QueryInv, AnswerOK, BatchIsOrdered, Answered
    <3> QED
      BY <3>1, <3>2, <3>4, <3>5, <3>6, <3>7 DEF QueryInv, AnswerOK
  <2> QED
    BY <2>1, <2>2, <2>3, <2>4, <2>5, <2>6, <2>7 DEF QueryNext
<1> QED
  BY <1>1, QueryInitHolds, PTL DEF QuerySpec

-----------------------------------------------------------------------------
(* What the runs check                                                     *)

\* Every variable keeps its type, and whatever reaches the temporary table can be
\* placed on the sphere.
THEOREM QueryTypeCorrect == QuerySpec => []QueryTypeOK
<1>1. QueryInv => QueryTypeOK
  <2> SUFFICES ASSUME QueryInv
               PROVE  QueryTypeOK
    OBVIOUS
  <2>1. ASSUME connection # None
        PROVE  /\ connection.role \in CatalogRoles
               /\ connection.timeout \in Nat \cup {None}
    <3>1. PICK w \in Worlds : setup = w.setup
      BY DEF QueryInv, WorldOK
    <3>2. /\ setup.timeout \in [CatalogRoles \ {"default"} -> Nat \cup {None}]
          /\ setup.generic \in Nat \cup {None}
      BY <3>1, QueryAssumption
    <3>3. ASSUME NEW role \in CatalogRoles
          PROVE  StatementTimeoutFor(setup, role) \in Nat \cup {None}
      <4>1. (IF role = "default" THEN "reader" ELSE role) \in CatalogRoles \ {"default"}
        BY DEF CatalogRoles
      <4> QED
        BY <3>2, <4>1 DEF StatementTimeoutFor
    <3>4. CASE \E role \in CatalogRoles : connection = Session(ConfigFor(setup, role))
      BY <3>3, <3>4 DEF Session, ConfigFor
    <3>5. CASE \E default \in Defaults : connection = Session(ReaderConfig(setup, default))
      <4>1. PICK default \in Defaults : connection = Session(ReaderConfig(setup, default))
        BY <3>5
      <4>2. /\ default \in Nat \cup {None} /\ "reader" \in CatalogRoles
            /\ StatementTimeoutFor(setup, "reader") \in Nat \cup {None}
        BY <3>3, QueryAssumption DEF CatalogRoles
      <4>3. /\ ReaderConfig(setup, default).role = "reader"
            /\ ReaderConfig(setup, default).timeout \in Nat \cup {None}
            /\ DOMAIN ReaderConfig(setup, default) = {"role", "login", "timeout"}
        BY <4>2 DEF ReaderConfig, ConfigFor
      <4> QED
        BY <4>1, <4>2, <4>3 DEF Session
    <3> QED
      BY <2>1, <3>4, <3>5 DEF QueryInv, ConnectionOK
  <2>2. ASSUME NEW k \in call.uploaded
        PROVE  call.q.inputs[k] \in [id : InputIds, ra : 0..3, dec : -1..1]
    <3>1. /\ call.q \in Batches /\ k \in Taken(call.q) /\ ValidInput(call.q.inputs[k])
      BY DEF QueryInv, CallOK, StreamOK
    <3>2. call.q.inputs \in Seq(Input) /\ k \in DOMAIN call.q.inputs
      BY <3>1, QueryAssumption DEF Taken
    <3>3. call.q.inputs[k] \in Input
      BY <3>2
    <3> QED
      BY <3>1, <3>3 DEF Input, ValidInput, ValidRa, ValidDec
  <2> QED
    BY <2>1, <2>2 DEF QueryInv, CallOK, AnswerOK, QueryTypeOK
<1> QED
  BY <1>1, QueryInvariance, PTL

\* A search returns what the haversine formula says, poles and RA 0 included, the best
\* of it, and NULLs last.
THEOREM SearchesMatchReference == QuerySpec => []SearchIsReference
<1>1. QueryInv => SearchIsReference
  BY DEF QueryInv, AnswerOK
<1> QED
  BY <1>1, QueryInvariance, PTL

\* A batch answers each of its inputs as a cone search would.
THEOREM BatchAgrees == QuerySpec => []BatchAgreesWithCone
<1>1. QueryInv => BatchAgreesWithCone
  BY DEF QueryInv, AnswerOK
<1> QED
  BY <1>1, QueryInvariance, PTL

\* Every input of a batch comes back, and nothing else.
THEOREM EveryInputComesBack == QuerySpec => []EveryInputAnswered
<1>1. QueryInv => EveryInputAnswered
  BY DEF QueryInv, AnswerOK
<1> QED
  BY <1>1, QueryInvariance, PTL

\* The rows of one id stand together, nearest first, whatever the database's and
\* Python's orders of ids are.
THEOREM BatchOrderKept == QuerySpec => []BatchIsOrdered
<1>1. QueryInv => BatchIsOrdered
  BY DEF QueryInv, AnswerOK
<1> QED
  BY <1>1, QueryInvariance, PTL

\* No connection mixes identities or takes a timeout meant for another role.
THEOREM ConnectionsKeepRole == QuerySpec => []ConnectionsKeepTheirRole
<1>1. QueryInv => ConnectionsKeepTheirRole
  <2> SUFFICES ASSUME QueryInv, connection # None
               PROVE  ConnectionsKeepTheirRole
    BY DEF ConnectionsKeepTheirRole
  <2> DEFINE own == [r \in DOMAIN setup.timeout |->
                       IF setup.timeout[r] = 0 THEN None ELSE setup.timeout[r]]
             Limit(cfg) == IF cfg.timeout = 0 THEN None ELSE cfg.timeout
  <2>1. PICK role \in CatalogRoles :
            /\ connection.role = role /\ connection.login = CredsFor(setup, role)
            /\ \/ connection.timeout = Limit(ConfigFor(setup, role))
               \/ /\ role = "reader"
                  /\ setup.timeout["reader"] # None
                        => connection.timeout = Limit(ConfigFor(setup, role))
    <3>1. CASE \E role \in CatalogRoles : connection = Session(ConfigFor(setup, role))
      BY <3>1 DEF Session, ConfigFor
    <3>2. CASE \E default \in Defaults : connection = Session(ReaderConfig(setup, default))
      <4>1. PICK default \in Defaults : connection = Session(ReaderConfig(setup, default))
        BY <3>2
      <4> DEFINE cfg == ConfigFor(setup, "reader")
      <4>2. /\ ReaderConfig(setup, default).role = "reader"
            /\ ReaderConfig(setup, default).login = CredsFor(setup, "reader")
            /\ cfg.timeout # None => ReaderConfig(setup, default) = cfg
        BY DEF ReaderConfig, ConfigFor
      <4>3. setup.timeout["reader"] # None => cfg.timeout # None
        BY DEF ConfigFor, StatementTimeoutFor
      <4>4. /\ connection.role = "reader"
            /\ connection.login = CredsFor(setup, "reader")
        BY <4>1, <4>2 DEF Session
      <4>5. setup.timeout["reader"] # None => connection.timeout = Limit(cfg)
        BY <4>1, <4>2, <4>3 DEF Session, ConfigFor
      <4> QED
        BY <4>4, <4>5 DEF CatalogRoles
    <3> QED
      BY <3>1, <3>2 DEF QueryInv, ConnectionOK
  <2>2. \E r \in {connection.role, "default"} :
            /\ connection.login.user = setup.user[r]
            /\ connection.login.password = setup.password[r]
    BY <2>1 DEF CredsFor
  <2>3. ASSUME role # "default"
        PROVE  /\ role \in DOMAIN setup.timeout
               /\ ConfigFor(setup, role).timeout =
                     IF setup.timeout[role] # None THEN setup.timeout[role]
                     ELSE IF role = "reader" THEN setup.generic ELSE None
    <3>1. PICK w \in Worlds : setup = w.setup
      BY DEF QueryInv, WorldOK
    <3>2. DOMAIN setup.timeout = CatalogRoles \ {"default"}
      BY <3>1, QueryAssumption
    <3> QED
      BY <2>1, <2>3, <3>2 DEF ConfigFor, StatementTimeoutFor
  <2>4. connection.role \in {"bootstrap", "admin", "ingest"}
           => connection.timeout = own[connection.role]
    BY <2>1, <2>3
  <2>5. connection.role = "reader" /\ setup.timeout["reader"] # None
           => connection.timeout = own["reader"]
    BY <2>1, <2>3
  <2> QED
    BY <2>2, <2>4, <2>5 DEF ConnectionsKeepTheirRole
<1> QED
  BY <1>1, QueryInvariance, PTL
=============================================================================
