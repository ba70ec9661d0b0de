--------------------------- MODULE ReleaseCatalog ---------------------------
(***************************************************************************)
(* What the release lifecycle promises to those who query it, with nothing *)
(* of how it is done: no rows, runs, staging tables, transactions, retries *)
(* or failure records.  A catalog serves releases by name, each the rows   *)
(* of one source tree, and at most one release of a family is live.  It    *)
(* changes for the request in progress and in no other way, one change at  *)
(* a time; a request may end before it has changed anything, which is all  *)
(* that a failure or a kill is.                                            *)
(***************************************************************************)
CONSTANTS
    Families, Names, FamilyOf, Sources,
    Publishable, \* the trees that pass every critical check
    Requests,    \* what may be asked
    None

VARIABLES
    live,    \* the release that default queries of a family are answered from
    served,  \* the rows of each release, or Gone, or None
    request  \* what is being done

catalogVars == <<live, served, request>>

\* A release that is still listed and whose rows a removal has dropped.
Gone == "gone"

CatalogInit ==
    /\ served \in [Names -> Publishable \cup {None}]
    /\ live \in {l \in [Families -> Names \cup {None}] :
                   \A f \in Families : l[f] # None => /\ FamilyOf[l[f]] = f
                                                      /\ served[l[f]] # None}
    /\ request = None

Start ==
    /\ request = None
    /\ request' \in Requests
    /\ UNCHANGED <<live, served>>

End ==
    /\ request # None
    /\ request' = None
    /\ UNCHANGED <<live, served>>

IsLive(n) == live[FamilyOf[n]] = n

For(kinds) == request # None /\ request.kind \in kinds

\* A change may be the last thing a request does.
Proceeds == request' \in {request, None}

\* An import replaces the rows of its release by those of its tree, at once.
\* Only --replace --force touches what default queries are answered from.
Publish ==
    /\ For({"import"})
    /\ request.src \in Publishable
    /\ IsLive(request.name) => request.force
    /\ served' = [served EXCEPT ![request.name] = request.src]
    /\ UNCHANGED live /\ Proceeds

\* The release asked for, and no other, takes over from the live one, even if
\* a removal has dropped its rows.
GoLive ==
    /\ For({"import", "activate"})
    /\ request.activate
    /\ served[request.name] # None
    /\ live' = [live EXCEPT ![FamilyOf[request.name]] = request.name]
    /\ UNCHANGED served /\ Proceeds

Retract ==
    /\ For({"deactivate"})
    /\ IsLive(request.name)
    /\ live' = [live EXCEPT ![FamilyOf[request.name]] = None]
    /\ UNCHANGED served /\ Proceeds

\* A removal drops the rows first, and may end there.
Drop ==
    /\ For({"remove"})
    /\ IsLive(request.name) => request.force
    /\ served[request.name] \notin {None, Gone}
    /\ served' = [served EXCEPT ![request.name] = Gone]
    /\ UNCHANGED live /\ Proceeds

Forget ==
    /\ For({"remove"})
    /\ IsLive(request.name) => request.force
    /\ served[request.name] = Gone
    /\ served' = [served EXCEPT ![request.name] = None]
    /\ live' = IF IsLive(request.name)
               THEN [live EXCEPT ![FamilyOf[request.name]] = None] ELSE live
    /\ Proceeds

CatalogNext == Start \/ End \/ Publish \/ GoLive \/ Retract \/ Drop \/ Forget

CatalogSpec == CatalogInit /\ [][CatalogNext]_catalogVars
=============================================================================
