----------------------------- MODULE QueryEngine -----------------------------
(***************************************************************************)
(* What a query selects, once a release is resolved (CatalogReader and     *)
(* Serving have how it is): cone_search() and lookup_native_id() of        *)
(* query/cone.py, batch_crossmatch() of query/crossmatch.py with the       *)
(* inputs streamed one by one, and the crossmatch command that reads them  *)
(* from a CSV file.                                                        *)
(*                                                                         *)
(* Positions are the multiples of a quarter turn: RA in 0..3 and Dec in    *)
(* -1..1, which has the wrap of RA at 0, the poles and ties of separation. *)
(* Other values of RA and Dec stand for every coordinate out of range, NaN *)
(* among them.  Where SQL leaves an order open, any order may come.        *)
(***************************************************************************)
EXTENDS Settings, FiniteSets, Sequences, SequencesExt

CONSTANTS
    Worlds,      \* settings of a process, and the rows of the data table
    Cones,       \* cone searches asked
    Lookups,     \* searches by native id
    Batches,     \* crossmatches
    Defaults,    \* statement_timeout_ms= of a CatalogReader
    InputIds,    \* ids of crossmatch inputs
    Collation,   \* the rank of an input id in the order of the database,
    CodePoint,   \* and in that of Python
    Heading      \* the input id that is a column heading to the CSV reader

\* The columns of a data table that a query can tell apart.
DataRow == [id : Nat, release : Nat, ra : 0..3, dec : -1..1, mag : Int \cup {None},
            native : STRING]

\* An input that is not numeric has no coordinates: ra is None.
Input == [id : InputIds, ra : Int \cup {None}, dec : Int]

\* Both orders tell any two ids apart.
ASSUME QueryAssumption ==
    /\ \A w \in Worlds : /\ w.parent \subseteq DataRow /\ IsFiniteSet(w.parent)
                         /\ w.setup.timeout \in [CatalogRoles \ {"default"} -> Nat \cup {None}]
                         /\ w.setup.generic \in Nat \cup {None}
    /\ Defaults \subseteq Nat \cup {None}
    /\ \A q \in Cones \cup Lookups : q.limit \in Int
    /\ \A q \in Batches : q.inputs \in Seq(Input) /\ q.max \in Int
    /\ Collation \in [InputIds -> Nat] /\ IsInjective(Collation)
    /\ CodePoint \in [InputIds -> Nat] /\ IsInjective(CodePoint)
    /\ None \notin DataRow \cup Nat \cup {"refused", "misconfigured"}

VARIABLES
    setup,      \* the settings
    parent,     \* the rows of the family's data table, all releases
    connection, \* the last connection made, or None
    call,       \* the query asked, and how far a crossmatch has got
    answer      \* its rows and the error it raised, or None

queryVars == <<setup, parent, connection, call, answer>>

\* The release every query here has resolved.
ResolvedRelease == 1

-----------------------------------------------------------------------------
(* The sphere (spatial/cone.py)                                            *)

ValidRa(ra) == ra \in 0..3
ValidDec(dec) == dec \in -1..1

\* RA to longitude, in quarter turns.
Lon(ra) == IF ra > 2 THEN ra - 4 ELSE ra

\* Cosine and sine of k quarter turns, where k is from -4 to 4.
Cos(k) == IF k \in {-4, 0, 4} THEN 1 ELSE IF k \in {-2, 2} THEN -1 ELSE 0
Sin(k) == Cos(k - 1)

\* Distance of two points given in longitude and latitude, by the angle of their unit
\* vectors: the cosines of 0, 1 and 2 quarter turns are 1, 0 and -1.
Distance(lon1, lat1, lon2, lat2) ==
    1 - (Cos(lat1) * Cos(lat2) * (Cos(lon1) * Cos(lon2) + Sin(lon1) * Sin(lon2))
           + Sin(lat1) * Sin(lat2))

Separation(row, ra, dec) == Distance(Lon(row.ra), row.dec, Lon(ra), dec)

-----------------------------------------------------------------------------
(* Orders                                                                  *)

\* Ascending with NULLs last.
Before(a, b) == a # None /\ (b = None \/ a < b)

Prefix(s, n) == SubSeq(s, 1, IF n < Len(s) THEN n ELSE Len(s))

-----------------------------------------------------------------------------
(* cone_search() and lookup_native_id()                                    *)

ColumnType == [mag |-> "number", native |-> "text", geom |-> "geography"]
IsColumn(c) == c \in DOMAIN ColumnType

\* Half of _QUALITY_OPERATORS; the other three differ in nothing that matters.
Operators == {"=", "!=", "<"}

\* A comparison with NULL is not true.
Compares(a, op, b) ==
    /\ a # None
    /\ CASE op = "=" -> a = b
         [] op = "!=" -> a # b
         [] op = "<" -> a < b

\* A quality filter names a column that compares, an operator of the list and
\* a value of the column's type.
FilterRefused(qf) ==
    \/ qf.column = "geom"
    \/ ~IsColumn(qf.column)
    \/ qf.op \notin Operators
    \/ qf.type # ColumnType[qf.column]

OrderRefused(c) == c # None /\ (~IsColumn(c) \/ ColumnType[c] # "number")

\* Refused with CatalogQueryError before a connection is made, and after the
\* release is resolved.
CentreRefused(q) == ~ValidRa(q.ra) \/ ~ValidDec(q.dec) \/ q.limit < 0

ConeRefused(q) ==
    \/ q.band # None /\ ~IsColumn(q.band)
    \/ q.filter # None /\ FilterRefused(q.filter)
    \/ OrderRefused(q.order)

\* Limits of magnitude count only with a band; a row without a value is out.
InBand(row, q) ==
    q.band # None => /\ q.min # None => row[q.band] # None /\ row[q.band] >= q.min
                     /\ q.max # None => row[q.band] # None /\ row[q.band] <= q.max

Passes(row, qf) == qf # None => Compares(row[qf.column], qf.op, qf.value)

ConeRows(q) ==
    {row \in parent : /\ row.release = ResolvedRelease
                      /\ Separation(row, q.ra, q.dec) <= q.radius
                      /\ InBand(row, q)
                      /\ Passes(row, q.filter)}

\* Mutant of Nearer: rows with no value come first.
NearerNullsFirst(q, a, b) ==
    LET sa == Separation(a, q.ra, q.dec)  sb == Separation(b, q.ra, q.dec) IN
    IF q.order = None \/ a[q.order] = b[q.order] THEN sa < sb
    ELSE a[q.order] = None \/ (b[q.order] # None /\ a[q.order] < b[q.order])

\* By separation, or by a column with NULLs last and the separation next.
Nearer(q, a, b) ==
    LET sa == Separation(a, q.ra, q.dec)  sb == Separation(b, q.ra, q.dec) IN
    IF q.order = None \/ a[q.order] = b[q.order] THEN sa < sb
    ELSE Before(a[q.order], b[q.order])

\* What the SELECT may return.
ConeAnswers(q) ==
    {Prefix(s, q.limit) : s \in
        {s \in SetToSeqs(ConeRows(q)) :
            \A i, j \in DOMAIN s : i < j => ~Nearer(q, s[j], s[i])}}

LookupRows(q) == {row \in parent : row.release = ResolvedRelease /\ row.native = q.native}

LookupAnswers(q) == {Prefix(s, q.limit) : s \in SetToSeqs(LookupRows(q))}

-----------------------------------------------------------------------------
(* batch_crossmatch()                                                      *)

Numeric(x) == x.ra # None

ValidInput(x) == ValidRa(x.ra) /\ ValidDec(x.dec)

\* How many rows an input gets at most.
Candidates(q) == IF q.nearest THEN 1 ELSE IF q.max > 1 THEN q.max ELSE 1

Match(x, row) ==
    [input |-> x.id, matched |-> row # None, row |-> row,
     separation |-> IF row = None THEN None ELSE Separation(row, x.ra, x.dec)]

\* Mutant of Matches: the limit keeps any rows, and the nearest of those come first.
MatchesUnordered(x, q) ==
    LET near == {row \in parent : /\ row.release = ResolvedRelease
                                  /\ Separation(row, x.ra, x.dec) <= q.radius}
        kept == {s \in {Prefix(s, Candidates(q)) : s \in SetToSeqs(near)} :
                   \A i, j \in DOMAIN s :
                      i < j => Separation(s[i], x.ra, x.dec) <= Separation(s[j], x.ra, x.dec)}
    IN IF near = {} THEN {<<Match(x, None)>>}
       ELSE {[k \in DOMAIN s |-> Match(x, s[k])] : s \in kept}

\* The LEFT JOIN LATERAL for one input: its nearest rows, or one row of NULLs.
Matches(x, q) ==
    LET near == {row \in parent : /\ row.release = ResolvedRelease
                                  /\ Separation(row, x.ra, x.dec) <= q.radius}
        sorted == {s \in SetToSeqs(near) :
                     \A i, j \in DOMAIN s :
                        i < j => Separation(s[i], x.ra, x.dec) <= Separation(s[j], x.ra, x.dec)}
    IN IF near = {} THEN {<<Match(x, None)>>}
       ELSE {[k \in DOMAIN s |-> Match(x, s[k])] : s \in {Prefix(s, Candidates(q)) : s \in sorted}}

\* ORDER BY q.input_id, m.separation_deg NULLS LAST.
Follows(a, b) ==
    \/ Collation[b.input] < Collation[a.input]
    \/ a.input = b.input /\ Before(b.separation, a.separation)

\* What the SELECT may return where m[k] are the matches of input k.
Selected(m) ==
    LET places == UNION {{k} \X DOMAIN m[k] : k \in DOMAIN m}
        orders == {[i \in DOMAIN p |-> m[p[i][1]][p[i][2]]] : p \in SetToSeqs(places)}
    IN {s \in orders : \A i, j \in DOMAIN s : i < j => ~Follows(s[i], s[j])}

\* Mutant of Merged: the rows of the skipped inputs come first.
MergedFirst(s, lost) ==
    LET all == lost \o s
        InOrder(i, j) == \/ CodePoint[all[i].input] < CodePoint[all[j].input]
                         \/ CodePoint[all[i].input] = CodePoint[all[j].input] /\ i < j
    IN IF lost = <<>> THEN {s}
       ELSE {[k \in DOMAIN all |-> all[p[k]]] : p \in
               {p \in SetToSeqs(DOMAIN all) :
                  \A i, j \in DOMAIN p : i < j => InOrder(p[i], p[j])}}

\* The rows of the skipped inputs go to the end, and a stable sort by input id,
\* in Python's order, puts everything in its place.
Merged(s, lost) ==
    LET all == s \o lost
        InOrder(i, j) == \/ CodePoint[all[i].input] < CodePoint[all[j].input]
                         \/ CodePoint[all[i].input] = CodePoint[all[j].input] /\ i < j
    IN IF lost = <<>> THEN {s}
       ELSE {[k \in DOMAIN all |-> all[p[k]]] : p \in
               {p \in SetToSeqs(DOMAIN all) :
                  \A i, j \in DOMAIN p : i < j => InOrder(p[i], p[j])}}

\* The inputs of a batch by their numbers.  The crossmatch command skips blank
\* lines, which are left out, and whatever looks like a heading, wherever it stands.
Taken(q) == {k \in DOMAIN q.inputs : q.csv => q.inputs[k].id # Heading}

-----------------------------------------------------------------------------
(* The process                                                             *)

\* Of a batch: the inputs still to come, those in the temporary table, and the list
\* of those that are out of range.
Nothing == [pc |-> "idle", q |-> None, left |-> {}, uploaded |-> {}, skipped |-> <<>>]

QueryInit ==
    /\ \E w \in Worlds : setup = w.setup /\ parent = w.parent
    /\ connection = None
    /\ call = Nothing
    /\ answer = None

Rows(s) == [error |-> None, rows |-> s]
Error(e) == [error |-> e, rows |-> <<>>]

Idle == call.pc = "idle" /\ connection = None

\* Any command or reader makes a connection, unless the database is reserved.
\* A CatalogReader has a default timeout of its own.
Connect ==
    /\ Idle
    /\ ~Reserved(setup.database)
    /\ \/ \E role \in CatalogRoles : connection' = Session(ConfigFor(setup, role))
       \/ \E default \in Defaults : connection' = Session(ReaderConfig(setup, default))
    /\ UNCHANGED <<setup, parent, call, answer>>

\* What a cone search raises before it selects.  CatalogReader makes its engine
\* first; a function validates centre and limit first.
ConeError(q) ==
    IF q.reader /\ Reserved(setup.database) THEN "misconfigured"
    ELSE IF CentreRefused(q) THEN "refused"
    ELSE IF Reserved(setup.database) THEN "misconfigured"
    ELSE IF ConeRefused(q) THEN "refused"
    ELSE None

ConeSearch ==
    /\ Idle
    /\ \E q \in Cones :
          /\ call' = [Nothing EXCEPT !.pc = "cone", !.q = q]
          /\ IF ConeError(q) # None
             THEN answer' = Error(ConeError(q))
             ELSE \E s \in ConeAnswers(q) : answer' = Rows(s)
    /\ UNCHANGED <<setup, parent, connection>>

LookupError(q) ==
    IF q.limit < 0 /\ ~(q.reader /\ Reserved(setup.database)) THEN "refused"
    ELSE IF Reserved(setup.database) THEN "misconfigured"
    ELSE None

Lookup ==
    /\ Idle
    /\ \E q \in Lookups :
          /\ call' = [Nothing EXCEPT !.pc = "lookup", !.q = q]
          /\ IF LookupError(q) # None
             THEN answer' = Error(LookupError(q))
             ELSE \E s \in LookupAnswers(q) : answer' = Rows(s)
    /\ UNCHANGED <<setup, parent, connection>>

\* The command reads the whole file first, and names a line it cannot read.
BeginBatch ==
    /\ Idle
    /\ \E q \in Batches :
          IF q.csv /\ \E k \in Taken(q) : ~Numeric(q.inputs[k])
          THEN /\ call' = [Nothing EXCEPT !.pc = "batch", !.q = q]
               /\ answer' = Error("refused")
          ELSE IF Reserved(setup.database)
          THEN /\ call' = [Nothing EXCEPT !.pc = "batch", !.q = q]
               /\ answer' = Error("misconfigured")
          ELSE /\ call' = [Nothing EXCEPT !.pc = "stream", !.q = q, !.left = Taken(q)]
               /\ UNCHANGED answer
    /\ UNCHANGED <<setup, parent, connection>>

NextInput == CHOOSE k \in call.left : \A l \in call.left : k <= l

\* Mutant of Stream: an input out of range is uploaded like any other.
StreamUnchecked ==
    LET k == NextInput  x == call.q.inputs[k] IN
    /\ call.pc = "stream" /\ call.left # {}
    /\ IF ~Numeric(x)
       THEN /\ call' = [Nothing EXCEPT !.pc = "batch", !.q = call.q]
            /\ answer' = Error("refused")
       ELSE /\ call' = [call EXCEPT !.left = @ \ {k}, !.uploaded = @ \cup {k}]
            /\ UNCHANGED answer
    /\ UNCHANGED <<setup, parent, connection>>

\* One input on its way to the temporary table: a coordinate that is no number
\* ends the batch, one that is out of range is skipped.
Stream ==
    LET k == NextInput  x == call.q.inputs[k] IN
    /\ call.pc = "stream" /\ call.left # {}
    /\ IF ~Numeric(x)
       THEN /\ call' = [Nothing EXCEPT !.pc = "batch", !.q = call.q]
            /\ answer' = Error("refused")
       ELSE /\ call' = IF ValidInput(x)
                       THEN [call EXCEPT !.left = @ \ {k}, !.uploaded = @ \cup {k}]
                       ELSE [call EXCEPT !.left = @ \ {k}, !.skipped = Append(@, k)]
            /\ UNCHANGED answer
    /\ UNCHANGED <<setup, parent, connection>>

\* The SELECT over all inputs, and the rows of those it never saw.
MatchBatch ==
    LET Answers(k) == Matches(call.q.inputs[k], call.q)
        lost == [j \in DOMAIN call.skipped |-> Match(call.q.inputs[call.skipped[j]], None)]
    IN
    /\ call.pc = "stream" /\ call.left = {}
    /\ \E m \in [call.uploaded -> UNION {Answers(k) : k \in call.uploaded}] :
          /\ \A k \in call.uploaded : m[k] \in Answers(k)
          /\ \E s \in Selected(m) : \E t \in Merged(s, lost) : answer' = Rows(t)
    /\ call' = [Nothing EXCEPT !.pc = "batch", !.q = call.q]
    /\ UNCHANGED <<setup, parent, connection>>

\* The caller has its answer and asks again.
Return ==
    /\ ~Idle /\ call.pc # "stream"
    /\ connection' = None
    /\ call' = Nothing
    /\ answer' = None
    /\ UNCHANGED <<setup, parent>>

QueryNext ==
    Connect \/ ConeSearch \/ Lookup \/ BeginBatch \/ Stream \/ MatchBatch \/ Return

QuerySpec == QueryInit /\ [][QueryNext]_queryVars

-----------------------------------------------------------------------------
(* What answers are                                                        *)

\* Every variable keeps its type; what is uploaded, the database can place.
QueryTypeOK ==
    /\ connection # None => /\ connection.role \in CatalogRoles
                            /\ connection.timeout \in Nat \cup {None}
    /\ call.pc \in {"idle", "cone", "lookup", "stream", "batch"}
    /\ \A k \in call.uploaded : call.q.inputs[k] \in [id : InputIds, ra : 0..3, dec : -1..1]
    /\ answer # None => answer.error \in {None, "refused", "misconfigured"}

\* Twice the haversine of the separation of a row from a point, from the
\* coordinates as they are stored (angular_separation_deg), which for quarter
\* turns is their number.
Haversine(row, ra, dec) ==
    (1 - Cos(row.dec - dec)) + Cos(row.dec) * Cos(dec) * (1 - Cos(row.ra - ra))

\* s lists n of the rows of S, or all of them, best first, and leaves out no
\* better one; order relates a row to those that are no better.
BestOf(s, S, n, order) ==
    /\ IsInjective(s) /\ ToSet(s) \subseteq S
    /\ Cardinality(DOMAIN s) = IF n < Cardinality(S) THEN n ELSE Cardinality(S)
    /\ \A i, j \in DOMAIN s : i < j => <<s[i], s[j]>> \in order
    /\ \A i \in DOMAIN s : \A row \in S \ ToSet(s) : <<s[i], row>> \in order

Answered(kind) == call.pc = kind /\ answer # None /\ answer.error = None

Released == {row \in parent : row.release = ResolvedRelease}

Within(radius, ra, dec) == {row \in Released : Haversine(row, ra, dec) <= radius}
NoFurther(S, ra, dec) ==
    {p \in S \X S : Haversine(p[1], ra, dec) <= Haversine(p[2], ra, dec)}

\* A cone search returns the rows of its release that pass the filters within
\* the radius on the sphere, RA 0 and the poles included: the nearest, or those
\* of lowest value with rows of no value last, and a lookup those of its name.
SearchIsReference ==
    /\ Answered("cone") =>
          LET q == call.q
              wanted == {row \in Within(q.radius, q.ra, q.dec) :
                           InBand(row, q) /\ Passes(row, q.filter)}
              lower == {p \in wanted \X wanted :
                          /\ p[1][q.order] # None
                          /\ p[2][q.order] = None \/ p[1][q.order] < p[2][q.order]}
              same == {p \in wanted \X wanted : p[1][q.order] = p[2][q.order]}
              nearer == NoFurther(wanted, q.ra, q.dec)
          IN BestOf(answer.rows, wanted, q.limit,
                    IF q.order = None THEN nearer ELSE lower \cup (same \cap nearer))
    /\ Answered("lookup") =>
          LET wanted == {row \in Released : row.native = call.q.native} IN
          BestOf(answer.rows, wanted, call.q.limit, wanted \X wanted)

\* The rows of an answer for an input id, by their numbers.
RowsFor(id, matched) ==
    {j \in DOMAIN answer.rows : answer.rows[j].input = id /\ answer.rows[j].matched = matched}

\* A batch answers each of its inputs as a cone search at its position with the
\* same radius would, whatever else is in the batch.
BatchAgreesWithCone ==
    Answered("batch") =>
        LET q == call.q IN
        \A k \in Taken(q) :
            /\ ValidInput(q.inputs[k])
            /\ \A l \in Taken(q) : q.inputs[l].id = q.inputs[k].id => l = k
            => LET x == q.inputs[k]
                   near == Within(q.radius, x.ra, x.dec)
               IN BestOf([j \in RowsFor(x.id, TRUE) |-> answer.rows[j].row], near,
                         Candidates(q), NoFurther(near, x.ra, x.dec))

\* Every input comes back: one row that says matched=False for each that is out
\* of range or has nothing near it, at least one that matched for any other, of
\* inputs that share an id as well, and nothing for ids that were not asked.
EveryInputAnswered ==
    Answered("batch") =>
        LET q == call.q
            Hopeless(x) == ~ValidInput(x) \/ Within(q.radius, x.ra, x.dec) = {}
        IN /\ \A j \in DOMAIN answer.rows :
                 \E k \in Taken(q) : answer.rows[j].input = q.inputs[k].id
           /\ \A id \in InputIds :
                 LET mine == {k \in Taken(q) : q.inputs[k].id = id}
                     lost == {k \in mine : Hopeless(q.inputs[k])}
                 IN /\ Cardinality(RowsFor(id, FALSE)) = Cardinality(lost)
                    /\ Cardinality(RowsFor(id, TRUE)) >= Cardinality(mine \ lost)

\* "by input_id then ascending separation" (crossmatch.py:56): the rows of one
\* id stand together, nearest first and unmatched ones last, whichever of its
\* two sorts put them there.
BatchIsOrdered ==
    Answered("batch") =>
        \A i, j, k \in DOMAIN answer.rows :
            LET a == answer.rows[i]  b == answer.rows[j] IN
            i <= j /\ a.input = b.input
                => /\ ~Before(b.separation, a.separation)
                   /\ i <= k /\ k <= j => answer.rows[k].input = a.input

\* No connection has the user of one identity and the password of another.  The
\* generic timeout, meant for readers, ends no statement of an import, a migration
\* or a bootstrap, and what is configured for readers wins over it and over the
\* default of a CatalogReader, though it be 0.
ConnectionsKeepTheirRole ==
    connection # None =>
        LET own == [r \in DOMAIN setup.timeout |->
                      IF setup.timeout[r] = 0 THEN None ELSE setup.timeout[r]] IN
        /\ \E role \in {connection.role, "default"} :
              /\ connection.login.user = setup.user[role]
              /\ connection.login.password = setup.password[role]
        /\ connection.role \in {"bootstrap", "admin", "ingest"}
              => connection.timeout = own[connection.role]
        /\ connection.role = "reader" /\ setup.timeout["reader"] # None
              => connection.timeout = own["reader"]
=============================================================================
