------------------------------ MODULE MCQuery ------------------------------
(***************************************************************************)
(* Small instances of QueryEngine for TLC.                                 *)
(***************************************************************************)
EXTENDS QueryInvariant

\* Settings: nothing configured beyond an identity for each role, or the ingest and
\* the reader role with part of their own, and the timeouts that matter.
Plain == [database |-> "catalog", user |-> [r \in CatalogRoles |-> r],
          password |-> [r \in CatalogRoles |-> r],
          timeout |-> [r \in CatalogRoles \ {"default"} |-> None], generic |-> None]

MCSettings ==
    {[Plain EXCEPT !.user["ingest"] = u, !.password["ingest"] = w, !.user["reader"] = v] :
        u \in {"ingest", None}, w \in {"ingest", None}, v \in {"reader", None}}
    \cup {[Plain EXCEPT !.timeout["ingest"] = t, !.timeout["reader"] = r, !.generic = g] :
        t \in {None, 5}, r \in {None, 0, 5}, g \in {None, 0, 7}}
    \cup {[Plain EXCEPT !.database = "reserved"]}

Star(id, release, ra, dec, mag, native) ==
    [id |-> id, release |-> release, ra |-> ra, dec |-> dec, mag |-> mag, native |-> native]

\* Nothing; both sides of RA 0 with a row of another release between them;
\* a pole given under several RAs; ties and rows of no magnitude.
MCTables ==
    {{},
     {Star(1, 1, 3, 0, 2, "x"), Star(2, 1, 1, 0, 1, "y"), Star(3, 2, 0, 0, 1, "x")},
     {Star(1, 1, 0, 1, None, "x"), Star(2, 1, 2, 1, 1, "x"), Star(3, 1, 1, -1, 1, "y")},
     {Star(1, 1, 0, 0, 2, "x"), Star(2, 1, 0, 0, None, "y"), Star(3, 1, 2, 0, 1, "x"),
      Star(4, 2, 2, 0, 1, "y")}}

MCWorlds == {[setup |-> s, parent |-> {}] : s \in MCSettings}
              \cup {[setup |-> Plain, parent |-> t] : t \in MCTables}

MagIs(op, v) == [column |-> "mag", op |-> op, type |-> "number", value |-> v]
MCFilters == {None, MagIs("<", 2), MagIs("!=", 1), MagIs("~", 1),
              [MagIs("=", "x") EXCEPT !.column = "native", !.type = "text"],
              [MagIs("=", "x") EXCEPT !.type = "text"],
              [MagIs("=", 1) EXCEPT !.column = "geom"],
              [MagIs("=", 1) EXCEPT !.column = "absent"]}

Cone(ra, dec, radius, limit, band, min, filter, order, reader) ==
    [ra |-> ra, dec |-> dec, radius |-> radius, limit |-> limit, band |-> band,
     min |-> min, max |-> None, filter |-> filter, order |-> order, reader |-> reader]

\* Every kind of centre in both orders; every filter at one centre; a limit below 0.
MCCones ==
    {Cone(ra, dec, r, n, None, None, None, o, TRUE) :
        ra \in {0, 2, 3, 4}, dec \in -1..2, r \in 0..2, n \in {1, 3}, o \in {None, "mag"}}
    \cup {[Cone(0, 0, 2, 2, b[1], b[2], f, o, x) EXCEPT !.max = b[3]] :
        b \in {<<None, 2, 1>>, <<"mag", 2, None>>, <<"mag", None, 1>>, <<"absent", 2, 1>>},
        f \in MCFilters, o \in {None, "mag", "native"}, x \in BOOLEAN}
    \cup {Cone(0, 0, 2, n, None, None, None, None, x) : n \in {-1, 0}, x \in BOOLEAN}

MCLookups == {[native |-> n, limit |-> k, reader |-> x] :
                n \in {"x", "y", "z"}, k \in {-1, 1, 3}, x \in BOOLEAN}

InputAt(id, ra, dec) == [id |-> id, ra |-> ra, dec |-> dec]
MCInputs == {InputAt(i, p[1], p[2]) : i \in {"b", "C"}, p \in {<<0, 0>>, <<3, 1>>, <<4, 0>>}}
              \cup {InputAt("id", 1, 0), InputAt("b", None, 0)}

\* Up to two inputs of any kind, or three that share ids and differ in kind.
MCSequences ==
    SeqOf(MCInputs, 2)
    \cup {<<InputAt("b", 0, 0), InputAt(i, 4, 0), InputAt(j, 3, 1)>> : i, j \in {"b", "C", "id"}}

MCBatches ==
    {[inputs |-> s, radius |-> a[1], nearest |-> a[2], max |-> a[3], csv |-> c] :
        s \in MCSequences, c \in BOOLEAN,
        a \in {<<1, FALSE, 2>>, <<0, FALSE, 0>>, <<1, TRUE, 2>>, <<2, FALSE, 2>>, <<2, TRUE, 2>>}}

\* b before C and id in the database; capitals first in Python.
MCCollation == [i \in {"b", "C", "id"} |-> CASE i = "b" -> 1 [] i = "C" -> 2 [] OTHER -> 3]
MCCodePoint == [i \in {"b", "C", "id"} |-> CASE i = "C" -> 1 [] i = "b" -> 2 [] OTHER -> 3]
=============================================================================
