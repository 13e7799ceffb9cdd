------------------------------ MODULE GroupTree ------------------------------
(***************************************************************************)
(* What RuijieClient reads from the account's hierarchy (client.py 978-    *)
(* 1041): its projects, the id of its root, and the project that each      *)
(* group belongs to.  A tree's nodes are numbered in document order.       *)
(* _collect_projects and _index_group_projects call themselves for every   *)
(* subgroup, so both visit the groups in the same order: one walk here,    *)
(* with the effects of both, a step for each call and each return.         *)
(***************************************************************************)
EXTENDS Integers, Sequences, FiniteSets, SequencesExt

CONSTANTS
    MaxNodes,    \* the largest tree
    GroupIds,
    NoId         \* no groupId, or an empty one

ASSUME TreeAssumption ==
    MaxNodes \in Nat \ {0} /\ IsFiniteSet(GroupIds) /\ NoId \notin GroupIds

VARIABLES
    tree,
    calls,       \* the calls under way, the innermost last
    answered,    \* whether the walk came to its end
    projects,    \* get_projects: nodes, in order
    rootId,      \* _resolve_root_group_id: an id, or NoId for an error
    index        \* project_by_group: [GroupIds -> a node, or 0]

treeVars == <<tree, calls, answered, projects, rootId, index>>

\* "parent" of the root is 0; "envelope" holds the ids beside the tree.
Nodes(t) == DOMAIN t.parent

\* In document order what stands between a group and a subgroup is below the
\* group.
Shapes(size) ==
    {p \in [1..size -> 0..(size - 1)] :
        /\ \A n \in 1..size : p[n] < n /\ (p[n] = 0 <=> n = 1)
        /\ \A m, n \in 1..size : p[n] < m /\ m < n => p[n] <= p[m]}
TreesOf(size) ==
    [parent: Shapes(size), buildings: SUBSET (1..size),
     id: [1..size -> GroupIds \cup {NoId}], envelope: SUBSET GroupIds]
Trees == UNION {TreesOf(size) : size \in 1..MaxNodes}

NoProjects == [i \in GroupIds |-> 0]

TreeInit ==
    /\ tree \in Trees
    /\ calls = <<>> /\ answered = FALSE
    /\ projects = <<>> /\ rootId = NoId /\ index = NoProjects

-----------------------------------------------------------------------------
\* explicit_ids
ExplicitIds(t) == t.envelope \cup ({t.id[1]} \ {NoId})

\* _resolve_root_group_id: the one explicit id, else that of the one group
\* directly below that has one.
Resolve(t) ==
    LET wrappers == {t.id[c] : c \in {n \in Nodes(t) : t.parent[n] = 1}} \ {NoId}
        ids == IF ExplicitIds(t) # {} THEN ExplicitIds(t) ELSE wrappers
    IN  IF Cardinality(ids) = 1 THEN CHOOSE i \in ids : TRUE ELSE NoId

-----------------------------------------------------------------------------
(* The walk. *)

SubGroups(t, n) == {c \in Nodes(t) : t.parent[c] = n}
Innermost == calls[Len(calls)]

\* Mutant: the first building on the way down keeps its groups.
OwnerOutermost(n, owner) ==
    IF owner # 0 THEN owner ELSE IF n \in tree.buildings THEN n ELSE 0

\* owning_project: the building nearest to a group, given that of the group above it.
Owner(n, owner) == IF n \in tree.buildings THEN n ELSE owner

\* A call for a group, until its first subgroup: an id that comes again
\* replaces the first.  "left" are the subgroups to come.
Call(n, owner, callers, found) ==
    /\ calls' = Append(callers,
            [group |-> n, owner |-> Owner(n, owner),
             list |-> IF n \in tree.buildings THEN <<n>> ELSE <<>>,
             left |-> SubGroups(tree, n)])
    /\ index' = IF tree.id[n] # NoId /\ Owner(n, owner) # 0
                THEN [found EXCEPT ![tree.id[n]] = Owner(n, owner)] ELSE found

\* get_projects and the lookups of get_fleet_devices, on one answer.
ReadTree ==
    /\ calls = <<>>
    /\ rootId' = Resolve(tree)
    /\ Call(1, 0, <<>>, NoProjects)
    /\ projects' = <<>> /\ answered' = FALSE
    /\ UNCHANGED tree

\* The next subgroup, in document order.
Descend ==
    /\ calls # <<>>
    /\ \E n \in Innermost.left :
        /\ \A m \in Innermost.left : n <= m
        /\ Call(n, Innermost.owner, [calls EXCEPT ![Len(calls)].left = @ \ {n}], index)
    /\ UNCHANGED <<tree, answered, projects, rootId>>

\* No subgroup is left: the caller's list is extended, or the walk is over.
Return ==
    /\ calls # <<>> /\ Innermost.left = {}
    /\ \/ /\ Len(calls) = 1
          /\ calls' = <<>> /\ projects' = Innermost.list /\ answered' = TRUE
       \/ /\ Len(calls) > 1
          /\ calls' = [Front(calls) EXCEPT ![Len(calls) - 1].list = @ \o Innermost.list]
          /\ UNCHANGED <<projects, answered>>
    /\ UNCHANGED <<tree, rootId, index>>

TreeNext == ReadTree \/ Descend \/ Return

TreeSpec == TreeInit /\ [][TreeNext]_treeVars

-----------------------------------------------------------------------------
(* Properties. *)

\* Every variable keeps its type; no more calls are under way than groups there are.
TreeTypeOK ==
    /\ tree \in Trees
    /\ calls \in Seq([group: Nodes(tree), owner: Nodes(tree) \cup {0},
                      list: Seq(Nodes(tree)), left: SUBSET Nodes(tree)])
    /\ Len(calls) <= Cardinality(Nodes(tree))
    /\ answered \in BOOLEAN
    /\ projects \in Seq(Nodes(tree))
    /\ rootId \in GroupIds \cup {NoId}
    /\ index \in [GroupIds -> Nodes(tree) \cup {0}]

\* A group and all above it: what the group's parent, and theirs, lead to.
Ancestors(t, n) ==
    {a \in Nodes(t) : \A S \in SUBSET Nodes(t) :
        n \in S /\ (\A m \in S : t.parent[m] # 0 => t.parent[m] \in S) => a \in S}

\* The buildings that a group is in, or is.
Above(t, n) == Ancestors(t, n) \cap t.buildings

\* A group is looked up to the building that is nearest above it, or is it; of
\* two groups with one id, to that of the last which has any (client.py 1028).
IndexNearest ==
    answered => \A i \in GroupIds :
        LET owned == {n \in Nodes(tree) : tree.id[n] = i /\ Above(tree, n) # {}}
        IN  IF owned = {} THEN index[i] = 0
            ELSE \E n \in owned : \E b \in Above(tree, n) :
                    /\ index[i] = b
                    /\ \A m \in owned : m <= n
                    /\ \A c \in Above(tree, n) : c <= b

\* Every building is a project once, in document order, however deep it is
\* (client.py 408-410).
ProjectsListed ==
    answered =>
        /\ {projects[k] : k \in DOMAIN projects} = tree.buildings
        /\ \A k, l \in DOMAIN projects : k < l => projects[k] < projects[l]

\* A root is never guessed: it has one of the ids that the answer names, and
\* no other id is named at that place (client.py 993-1019).
RootNotGuessed ==
    rootId # NoId =>
        \/ tree.envelope \cup {tree.id[1]} \subseteq {rootId, NoId}
           /\ rootId \in tree.envelope \cup {tree.id[1]}
        \/ /\ tree.envelope = {} /\ tree.id[1] = NoId
           /\ \A n \in Nodes(tree) : tree.parent[n] = 1 => tree.id[n] \in {rootId, NoId}
           /\ \E n \in Nodes(tree) : tree.parent[n] = 1 /\ tree.id[n] = rootId

\* The three reads of one answer are right together: the projects, the root, and
\* the project of every group (client.py 408-410, 993-1041).
HierarchyRead == ProjectsListed /\ RootNotGuessed /\ IndexNearest
==============================================================================
