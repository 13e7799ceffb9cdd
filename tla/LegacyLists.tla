---------------------------- MODULE LegacyLists ----------------------------
(***************************************************************************)
(* The paginated reads of RuijieClient that do not validate the count:     *)
(* get_devices, get_clients and get_switch_ports, on one project (or one   *)
(* switch) whose entries change while they are read.  The three differ in  *)
(* when they stop, in what they check and in the index of the first page.  *)
(***************************************************************************)
EXTENDS CloudListing

CONSTANTS
    ListPerPage,    \* per_page, page_size
    ListMaxPages,   \* max_pages
    MayStick        \* whether the endpoint may answer every page with the first

ASSUME LegacyAssumption ==
    ListPerPage \in Nat \ {0} /\ ListMaxPages \in Nat \ {0} /\ MayStick \in BOOLEAN

VARIABLES
    kind,       \* the method that is running
    listPhase,  \* "idle" or "reading"
    pagesAsked, \* pages asked for so far
    listed,     \* the entries collected
    stuck,      \* this endpoint ignores the page index
    listResult

listClient == <<kind, listPhase, pagesAsked, listed, stuck, listResult>>
listVars == <<cloud, listClient>>

ListKinds == {"devices", "clients", "ports"}

ListInit ==
    /\ CloudInit
    /\ kind \in ListKinds /\ listPhase = "idle" /\ pagesAsked = 0 /\ listed = <<>>
    /\ stuck = FALSE /\ listResult = "none"

ListStart ==
    /\ listPhase = "idle"
    /\ Observe
    /\ kind' \in ListKinds /\ listPhase' = "reading" /\ pagesAsked' = 0 /\ listed' = <<>>
    /\ stuck' \in {FALSE, MayStick} /\ listResult' = "none"

\* The endpoints' own numbering of the first page.
ApiBase(k) == IF k = "ports" THEN 0 ELSE 1

\* Mutant: every listing is asked for from index 0.
IndexFromZero(k, n) == n

\* The page index of the (n+1)-th request.
PageIndex(k, n) == IF k = "ports" THEN n ELSE n + 1

\* An index below the first is answered with the first page.
ListEntries ==
    LET p == PageIndex(kind, pagesAsked) - ApiBase(kind) + 1
    IN  PageOf(listing, IF stuck \/ p < 1 THEN 1 ELSE p, ListPerPage)

\* Mutant: repeated clients are not looked for.
NoRepeatCheck(entries) == FALSE

\* get_clients refuses a MAC it has seen.
Repeated(entries) == kind = "clients" /\ ToSet(listed) \cap ToSet(entries) # {}

\* Mutant: a full page counts as the last one.
ListCompleteWhenFull(entries, seen) ==
    IF kind = "clients" THEN Len(seen) >= Len(listing)
                        ELSE Len(entries) <= ListPerPage

\* After a page that was taken in: get_clients compares with totalCount, which
\* the answer may lack; the others stop at a short page.
ListComplete(entries, seen) ==
    IF kind = "clients" THEN Len(seen) >= Len(listing)
                        ELSE Len(entries) < ListPerPage

ListReturns == listResult' = "ok" /\ listPhase' = "idle" /\ pagesAsked' = pagesAsked + 1
ListRaises ==
    /\ listResult' = "error" /\ listPhase' = "idle" /\ listed' = <<>>
    /\ pagesAsked' = pagesAsked + 1

\* Mutant: the loop has no last page.
NoLastPage == FALSE

\* The loop's range is exhausted.
LastListPage == pagesAsked + 1 = ListMaxPages

\* One turn of the loop.
ReadPage ==
    /\ listPhase = "reading"
    /\ \/ ListEntries = <<>> /\ ListReturns /\ UNCHANGED listed
       \/ ListEntries # <<>> /\ Repeated(ListEntries) /\ ListRaises
       \/ /\ ListEntries # <<>> /\ ~Repeated(ListEntries)
          /\ \/ listed' = listed \o ListEntries /\ ListComplete(ListEntries, listed') /\ ListReturns
             \/ /\ kind = "clients" \/ ~ListComplete(ListEntries, listed \o ListEntries)
                /\ \/ LastListPage /\ ListRaises
                   \/ /\ ~LastListPage /\ listed' = listed \o ListEntries
                      /\ pagesAsked' = pagesAsked + 1
                      /\ UNCHANGED <<listPhase, listResult>>
    /\ UNCHANGED <<cloud, kind, stuck>>

\* The deadline passes, the transport fails, or the cloud returns an error.
ListRequestFails ==
    /\ listPhase = "reading"
    /\ ListRaises
    /\ UNCHANGED <<cloud, kind, stuck>>

ListOthers == listPhase = "reading" /\ Churn /\ UNCHANGED listClient

ListNext == ListStart \/ ReadPage \/ ListRequestFails \/ ListOthers

ListSpec == ListInit /\ [][ListNext]_listVars

-----------------------------------------------------------------------------
(* Properties. *)

\* Every variable keeps its type; no listing asks for more than max_pages
\* pages, even of an endpoint that always answers a full page (CHANGELOG.md 71-72).
ListTypeOK ==
    /\ CloudTypeOK
    /\ kind \in ListKinds /\ listPhase \in {"idle", "reading"}
    /\ pagesAsked \in 0..ListMaxPages
    /\ listed \in Seq(Devices)
    /\ stuck \in BOOLEAN
    /\ listResult \in {"none", "ok", "error"}

\* An account at rest is listed exactly and in order, whichever numbering the
\* endpoint uses (client.py 724, 953: from 1 for clients, from 0 for ports);
\* clients are even if the endpoint ignores the index.
ExactAtRest ==
    listResult = "ok" /\ changes = 0 /\ (stuck => kind = "clients") => listed = listing

\* A listing that is returned hides an entry that was there throughout only
\* if another one left meanwhile (every later entry then moves up across the
\* page border); arrivals, and the order they take, never hide one.
OnlyDeparturesHide ==
    listResult = "ok" /\ departures = 0 /\ ~stuck => stable \subseteq ToSet(listed)
==============================================================================
