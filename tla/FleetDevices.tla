---------------------------- MODULE FleetDevices ----------------------------
(***************************************************************************)
(* RuijieClient.get_fleet_devices: one collection of every device of the   *)
(* account, page by page from the root or, when the root answers "no       *)
(* devices", from each of its direct subgroups, while the account changes. *)
(* A step is one page: request, answer and every check made on the answer. *)
(***************************************************************************)
EXTENDS CloudListing

CONSTANTS
    Indexed,      \* groups with a BUILDING ancestor (_index_group_projects)
    PerPage,      \* per_page
    MaxPages,     \* max_pages
    Unset,        \* expected_total before the first page
    HierarchyMoves  \* whether the root may go blind during a collection

ASSUME FleetAssumption ==
    /\ Groups \in Seq(GroupSet)
    /\ PerPage \in Nat \ {0} /\ MaxPages \in Nat \ {0}
    /\ Indexed \subseteq GroupSet
    /\ Unset \notin Nat
    /\ HierarchyMoves \in BOOLEAN

VARIABLES
    phase,      \* "idle", "root", "below" (subgroups) or "partition"
    todo,       \* subgroups not collected yet, the current one first
    page,       \* the page to ask for next
    expected,   \* expected_total of the current target
    got,        \* all_devices of the current target: records dev, group
    collected,  \* devices of the targets already done
    result,     \* how the last collection ended
    agreed      \* history: no two pages of a target announced unequal totals

client == <<phase, todo, page, expected, got, collected, result, agreed>>
vars == <<cloud, client>>

Found == [dev: Devices, group: GroupSet]
Serials(s) == {s[i].dev : i \in DOMAIN s}
Collecting == phase \in {"root", "below"}

Init ==
    /\ CloudInit
    /\ phase = "idle" /\ todo = <<>>
    /\ page = 1 /\ expected = Unset /\ got = <<>>
    /\ collected = <<>> /\ result = "none" /\ agreed = TRUE

\* _get_complete_fleet_devices starts on a target.
NewTarget == page' = 1 /\ expected' = Unset /\ got' = <<>>

\* An error reaches the caller; nothing that was collected does.
Fail ==
    /\ result' = "error" /\ phase' = "idle" /\ collected' = <<>>
    /\ todo' = <<>> /\ NewTarget

\* get_fleet_devices: the hierarchy is read, the root is the first target.
Start ==
    /\ phase = "idle"
    /\ Observe
    /\ phase' = "root" /\ todo' = <<>>
    /\ NewTarget
    /\ collected' = <<>> /\ result' = "none" /\ agreed' = TRUE

-----------------------------------------------------------------------------
(* One page of _get_complete_fleet_devices. *)

Target == IF phase = "root" THEN RootListing ELSE GroupListing(Head(todo))
Entries == LET p == PageOf(Target, page, PerPage)
           IN  [i \in DOMAIN p |-> [dev |-> p[i], group |-> home[p[i]]]]
NoteTotal(total) == agreed' = (agreed /\ expected \in {Unset, total})

\* Mutant: a totalCount that changes between pages is accepted.
RejectedUnlessShort(total, entries) ==
    LET n == Len(got) + Len(entries) IN
    \/ expected = Unset /\ total > PerPage * MaxPages
    \/ Serials(got) \cap Serials(entries) # {}
    \/ n > total
    \/ n < total /\ (Len(entries) < PerPage \/ page = MaxPages)

\* The checks of a page, in the order of the code: the page limit, the count
\* of the first page, duplicates, too many devices, a page that is short.
PageRejected(total, entries) ==
    LET n == Len(got) + Len(entries) IN
    \/ expected = Unset /\ total > PerPage * MaxPages
    \/ expected # Unset /\ total # expected
    \/ Serials(got) \cap Serials(entries) # {}
    \/ n > total
    \/ n < total /\ (Len(entries) < PerPage \/ page = MaxPages)

\* Mutant: a subgroup without devices is asked again, after the others.
NextTodoRequeued(devices) ==
    IF devices = <<>> THEN Append(Tail(todo), Head(todo)) ELSE Tail(todo)

\* The subgroups that remain after the current one.
NextTodo(devices) == Tail(todo)

\* The target's devices are complete: on to the subgroups when the root has
\* none, to the next subgroup, or to the partition by project.
TargetDone(devices) ==
    \/ /\ phase = "root" /\ devices = <<>> /\ Groups # <<>>
       /\ phase' = "below" /\ todo' = Groups
       /\ NewTarget
       /\ UNCHANGED <<collected, result>>
    \/ /\ phase = "root" /\ (devices # <<>> \/ Groups = <<>>)
       /\ phase' = "partition" /\ collected' = devices
       /\ NewTarget
       /\ UNCHANGED <<todo, result>>
    \/ /\ phase = "below"
       /\ Serials(collected) \cap Serials(devices) = {}
       /\ collected' = collected \o devices
       /\ todo' = NextTodo(devices)
       /\ phase' = IF todo' = <<>> THEN "partition" ELSE "below"
       /\ NewTarget
       /\ UNCHANGED result
    \/ /\ phase = "below"
       /\ Serials(collected) \cap Serials(devices) # {}
       /\ Fail

\* A target without devices may be answered without a deviceList: whatever
\* was collected so far is taken for complete.
VacantPage ==
    /\ Collecting /\ Target = <<>>
    /\ TargetDone(got)
    /\ NoteTotal(0)
    /\ UNCHANGED cloud

\* An answer with a deviceList (an empty one too).
ListPage ==
    /\ Collecting
    /\ LET total == Len(Target)
           devices == got \o Entries
       IN  /\ NoteTotal(total)
           /\ \/ PageRejected(total, Entries) /\ Fail
              \/ /\ ~PageRejected(total, Entries)
                 /\ Len(devices) = total
                 /\ TargetDone(devices)
              \/ /\ ~PageRejected(total, Entries)
                 /\ Len(devices) < total
                 /\ page' = page + 1 /\ expected' = total /\ got' = devices
                 /\ UNCHANGED <<phase, todo, collected, result>>
    /\ UNCHANGED cloud

\* The deadline passes, the transport fails, or the cloud returns an error.
RequestFails == Collecting /\ Fail /\ UNCHANGED <<cloud, agreed>>

\* get_fleet_devices: every device must belong to a known project.
Partition ==
    /\ phase = "partition"
    /\ \/ /\ \A i \in DOMAIN collected : collected[i].group \in Indexed
          /\ phase' = "idle" /\ result' = "ok"
          /\ UNCHANGED <<todo, page, expected, got, collected>>
       \/ /\ \E i \in DOMAIN collected : collected[i].group \notin Indexed
          /\ Fail
    /\ UNCHANGED <<cloud, agreed>>

-----------------------------------------------------------------------------
ClientStep == VacantPage \/ ListPage \/ RequestFails \/ Partition

Others ==
    /\ phase # "idle"
    /\ Churn \/ (HierarchyMoves /\ RootGoesBlind)
    /\ UNCHANGED client

Next == Start \/ ClientStep \/ Others

Spec == Init /\ [][Next]_vars
\* The client runs on, and every request ends: it carries a timeout that the
\* deadline caps (_request_timeout_for_deadline).
FairSpec == Spec /\ WF_vars(ClientStep)

-----------------------------------------------------------------------------
(* Properties. *)

\* Every variable keeps its type; in particular no page beyond max_pages is
\* ever asked for.
TypeOK ==
    /\ CloudTypeOK
    /\ phase \in {"idle", "root", "below", "partition"}
    /\ todo \in Seq(GroupSet)
    /\ page \in 1..MaxPages
    /\ expected \in Nat \cup {Unset}
    /\ got \in Seq(Found)
    /\ collected \in Seq(Found)
    /\ result \in {"none", "ok", "error"}
    /\ agreed \in BOOLEAN

\* Nothing happened to the account but, at most, that one device came, left or
\* moved: then one device is not stable.
OneDeviceChanged == changes <= 1 /\ changes = Cardinality(everListed \ stable)

\* A fleet that is returned misses no device that was in the account, in one
\* place, from the first request to the last, although one device came, left
\* or moved meanwhile (client.py 564, "count-validated").
StableDevicesListed ==
    result = "ok" /\ phase = "idle" /\ OneDeviceChanged => stable \subseteq Serials(collected)

\* A collection ends, whatever the account does meanwhile (client.py 465-466).
CollectionEnds == phase # "idle" ~> phase = "idle"

\* "Fleet pagination validates totalCount, rejects repeated/inconsistent
\* pages" (CHANGELOG.md 66): what is returned came from pages that agreed.
InconsistentPagesRejected == result = "ok" => agreed
==============================================================================
