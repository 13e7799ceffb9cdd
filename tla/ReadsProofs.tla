----------------------------- MODULE ReadsProofs -----------------------------
(***************************************************************************)
(* Theorems about the walk of the group tree, for every tree and every     *)
(* number of groups, and about all reads of MCReads together.              *)
(***************************************************************************)
EXTENDS MCReads, ListingProofs, DeadlineProofs

-----------------------------------------------------------------------------
(* The group tree. *)

\* The nodes of a tree, and which is below which.
IsTree(t, size) ==
    /\ size \in Nat \ {0} /\ Nodes(t) = 1..size /\ Cardinality(Nodes(t)) = size
    /\ t.buildings \subseteq 1..size
    /\ t.id \in [1..size -> GroupIds \cup {NoId}] /\ t.envelope \subseteq GroupIds
    /\ t.parent \in [1..size -> 0..(size - 1)]
    /\ \A n \in 1..size : t.parent[n] < n /\ (t.parent[n] = 0 <=> n = 1)
    /\ \A m \in 1..size : \A n \in 1..size :
          t.parent[n] < m /\ m < n => t.parent[n] <= t.parent[m]

LEMMA TreeShape ==
    ASSUME tree \in Trees
    PROVE  \E size \in 1..MaxNodes : IsTree(tree, size)
<1>1. PICK size \in 1..MaxNodes : tree \in TreesOf(size)
  BY DEF Trees
<1>2. size \in Nat \ {0}
  BY <1>1, TreeAssumption
<1>3. Nodes(tree) = 1..size
  BY <1>1 DEF TreesOf, Shapes, Nodes
<1>4. Cardinality(1..size) = size
  BY <1>2, FS_Interval
<1> QED
  BY <1>1, <1>2, <1>3, <1>4 DEF IsTree, TreesOf, Shapes

\* A group's ancestors are the group and its parent's ancestors; none comes after it.
LEMMA AncestorsOf ==
    ASSUME NEW size, IsTree(tree, size), NEW n \in 1..size
    PROVE  /\ Ancestors(tree, n) \subseteq 1..n
           /\ n \in Ancestors(tree, n)
           /\ n = 1 => Ancestors(tree, n) = {n}
           /\ n # 1 => Ancestors(tree, n) = {n} \cup Ancestors(tree, tree.parent[n])
<1> DEFINE p == tree.parent
           Closed(S) == \A m \in S : p[m] # 0 => p[m] \in S
<1>1. /\ size \in Nat \ {0} /\ Nodes(tree) = 1..size /\ p \in [1..size -> 0..(size - 1)]
      /\ \A m \in 1..size : p[m] < m /\ (p[m] = 0 <=> m = 1)
  BY DEF IsTree
<1>2. \A m \in 1..size : Ancestors(tree, m) =
         {a \in 1..size : \A S \in SUBSET (1..size) : m \in S /\ Closed(S) => a \in S}
  BY <1>1 DEF Ancestors
<1> HIDE DEF p
<1>3. Closed(1..n) /\ 1..n \in SUBSET (1..size) /\ n \in 1..n
  BY <1>1
<1>4. Ancestors(tree, n) \subseteq 1..n
  <2> SUFFICES ASSUME NEW a \in Ancestors(tree, n) PROVE a \in 1..n
    OBVIOUS
  <2>1. \A S \in SUBSET (1..size) : n \in S /\ Closed(S) => a \in S
    BY <1>2
  <2> HIDE DEF Closed
  <2> QED BY <1>3, <2>1
<1>5. n \in Ancestors(tree, n)
  BY <1>2
<1>6. CASE n = 1
  BY <1>4, <1>5, <1>6
<1>7. CASE n # 1
  <2> DEFINE u == p[n]
  <2>1. u \in 1..size /\ u # 0
    BY <1>1, <1>7
  <2>2. ASSUME NEW a \in Ancestors(tree, u) PROVE a \in Ancestors(tree, n)
    <3>1. a \in 1..size /\ \A S \in SUBSET (1..size) : u \in S /\ Closed(S) => a \in S
      BY <1>2, <2>1, <2>2
    <3>2. ASSUME NEW S \in SUBSET (1..size), n \in S, Closed(S) PROVE a \in S
      <4>1. u \in S
        BY <2>1, <3>2
      <4> HIDE DEF Closed
      <4> QED BY <3>1, <3>2, <4>1
    <3> HIDE DEF Closed, u
    <3> QED BY <1>2, <3>1, <3>2
  <2>3. ASSUME NEW a \in Ancestors(tree, n), a # n PROVE a \in Ancestors(tree, u)
    <3>1. a \in 1..size /\ \A S \in SUBSET (1..size) : n \in S /\ Closed(S) => a \in S
      BY <1>2, <2>3
    <3>2. ASSUME NEW S \in SUBSET (1..size), u \in S, Closed(S) PROVE a \in S
      <4>1. Closed(S \cup {n})
        BY <3>2, <2>1
      <4>2. S \cup {n} \in SUBSET (1..size) /\ n \in S \cup {n}
        BY <1>1
      <4> HIDE DEF Closed
      <4>3. a \in S \cup {n}
        BY <3>1, <4>1, <4>2
      <4> QED BY <2>3, <4>3
    <3> HIDE DEF Closed, u
    <3> QED BY <1>2, <2>1, <3>1, <3>2
  <2> QED
    BY <1>4, <1>5, <1>7, <2>2, <2>3 DEF p
<1> QED
  BY <1>6, <1>7, <1>4, <1>5 DEF p

\* The nearest building above a group, or 0.
Nearest(t, b, n) ==
    IF Above(t, n) = {} THEN b = 0 ELSE b \in Above(t, n) /\ \A c \in Above(t, n) : c <= b

\* It is found from that of the parent.
LEMMA OwnerIsNearest ==
    ASSUME NEW size, IsTree(tree, size), NEW n \in 1..size, NEW b,
           IF n = 1 THEN b = 0 ELSE Nearest(tree, b, tree.parent[n])
    PROVE  Nearest(tree, Owner(n, b), n)
<1>1. /\ size \in Nat \ {0} /\ tree.parent \in [1..size -> 0..(size - 1)]
      /\ \A m \in 1..size : tree.parent[m] < m /\ (tree.parent[m] = 0 <=> m = 1)
  BY DEF IsTree
<1>2. /\ Ancestors(tree, n) \subseteq 1..n /\ n \in Ancestors(tree, n)
      /\ n = 1 => Ancestors(tree, n) = {n}
      /\ n # 1 => Ancestors(tree, n) = {n} \cup Ancestors(tree, tree.parent[n])
  BY AncestorsOf
<1>3. CASE n \in tree.buildings
  BY <1>1, <1>2, <1>3 DEF Nearest, Above, Owner
<1>4. CASE n \notin tree.buildings
  <2>1. CASE n = 1
    BY <1>2, <1>4, <2>1 DEF Nearest, Above, Owner
  <2>2. CASE n # 1
    BY <1>2, <1>4, <2>2 DEF Nearest, Above, Owner
  <2> QED BY <2>1, <2>2
<1> QED
  BY <1>3, <1>4

\* A list of the members of a set of nodes in document order.
Listed(t, l, S) ==
    /\ l \in Seq(Nodes(t))
    /\ {l[k] : k \in DOMAIN l} = S
    /\ \A j, k \in DOMAIN l : j < k => l[j] < l[k]

LEMMA ListedNone == Listed(tree, <<>>, {})
BY DEF Listed

LEMMA ListedOne == ASSUME NEW n \in Nodes(tree) PROVE Listed(tree, <<n>>, {n})
<1>1. <<n>> \in Seq(Nodes(tree)) /\ DOMAIN <<n>> = {1} /\ <<n>>[1] = n
  OBVIOUS
<1> QED BY <1>1 DEF Listed

LEMMA ListedBoth ==
    ASSUME NEW k, NEW S, NEW l, NEW T, Listed(tree, k, S), Listed(tree, l, T),
           Nodes(tree) \subseteq Int, \A s \in S : \A t \in T : s < t
    PROVE  Listed(tree, k \o l, S \cup T)
<1>1. /\ k \in Seq(Nodes(tree)) /\ l \in Seq(Nodes(tree)) /\ Len(k) \in Nat /\ Len(l) \in Nat
      /\ DOMAIN k = 1..Len(k) /\ DOMAIN l = 1..Len(l)
  BY DEF Listed
<1>2. /\ k \o l \in Seq(Nodes(tree)) /\ DOMAIN (k \o l) = 1..(Len(k) + Len(l))
      /\ \A i \in 1..Len(k) : (k \o l)[i] = k[i]
      /\ \A i \in 1..Len(l) : (k \o l)[Len(k) + i] = l[i]
      /\ \A i \in 1..(Len(k) + Len(l)) :
            \/ i \in 1..Len(k)
            \/ i > Len(k) /\ i - Len(k) \in 1..Len(l) /\ (k \o l)[i] = l[i - Len(k)]
  BY <1>1
<1> DEFINE m == k \o l
<1> HIDE DEF m
<1>3. {m[i] : i \in DOMAIN m} = S \cup T
  <2>1. ASSUME NEW i \in DOMAIN m PROVE m[i] \in S \cup T
    <3>1. CASE i \in 1..Len(k)
      BY <1>1, <1>2, <3>1 DEF Listed, m
    <3>2. CASE i \notin 1..Len(k)
      BY <1>1, <1>2, <3>2 DEF Listed, m
    <3> QED BY <3>1, <3>2
  <2>2. ASSUME NEW s \in S PROVE \E i \in DOMAIN m : m[i] = s
    <3>1. PICK i \in 1..Len(k) : k[i] = s
      BY <1>1, <2>2 DEF Listed
    <3>2. i \in DOMAIN m /\ m[i] = s
      BY <1>1, <1>2, <3>1 DEF m
    <3> QED BY <3>2
  <2>3. ASSUME NEW t \in T PROVE \E i \in DOMAIN m : m[i] = t
    <3>1. PICK i \in 1..Len(l) : l[i] = t
      BY <1>1, <2>3 DEF Listed
    <3>2. Len(k) + i \in DOMAIN m /\ m[Len(k) + i] = t
      BY <1>1, <1>2, <3>1 DEF m
    <3> QED BY <3>2
  <2> QED BY <2>1, <2>2, <2>3
<1>4. ASSUME NEW i \in DOMAIN m, NEW j \in DOMAIN m, i < j PROVE m[i] < m[j]
  <2>1. CASE i \in 1..Len(k) /\ j \in 1..Len(k)
    BY <1>1, <1>2, <1>4, <2>1 DEF Listed, m
  <2>2. CASE i \in 1..Len(k) /\ j \notin 1..Len(k)
    <3>1. m[i] \in S
      BY <1>1, <1>2, <2>2 DEF Listed, m
    <3>2. m[j] \in T
      BY <1>1, <1>2, <2>2 DEF Listed, m
    <3> QED BY <3>1, <3>2
  <2>3. CASE i \notin 1..Len(k)
    <3>1. /\ i - Len(k) \in DOMAIN l /\ m[i] = l[i - Len(k)]
          /\ j - Len(k) \in DOMAIN l /\ m[j] = l[j - Len(k)] /\ i - Len(k) < j - Len(k)
      BY <1>1, <1>2, <1>4, <2>3 DEF m
    <3> QED BY <3>1 DEF Listed
  <2> QED BY <2>1, <2>2, <2>3
<1> QED
  BY <1>2, <1>3, <1>4 DEF Listed, m

\* The lookups of the groups up to one of them.
LookedUp(t, lookups, last) ==
    /\ lookups \in [GroupIds -> Nodes(t) \cup {0}]
    /\ \A i \in GroupIds :
        LET owned == {n \in 1..last : t.id[n] = i /\ Above(t, n) # {}}
        IN  IF owned = {} THEN lookups[i] = 0
            ELSE \E n \in owned : Nearest(t, lookups[i], n) /\ \A m \in owned : m <= n

\* The walk up to a group: the calls under way are for groups each below the one
\* before, and each has the buildings from its group to the group of the next call.
\* Whatever is still to come is below a group whose call is under way.
Until(walk, k, last) == IF k = Len(walk) THEN last ELSE walk[k + 1].group - 1
AtCall(t, walk, k, last) ==
    LET call == walk[k] IN
    /\ call.group \in 1..last /\ k <= call.group
    /\ Nearest(t, call.owner, call.group)
    /\ call.left = {c \in SubGroups(t, call.group) : last < c}
    /\ Listed(t, call.list, t.buildings \cap call.group..Until(walk, k, last))
Walked(t, walk, last) ==
    /\ walk # <<>> /\ walk[1].group = 1
    /\ \A k \in DOMAIN walk : AtCall(t, walk, k, last)
    /\ \A j, k \in DOMAIN walk : j < k => walk[j].group < walk[k].group
    /\ \A n \in Nodes(t) : last < n /\ t.parent[n] <= last =>
         \E k \in DOMAIN walk : walk[k].group = t.parent[n]

TreeInv ==
    /\ TreeTypeOK /\ RootNotGuessed
    /\ calls # <<>> => /\ ~answered
                       /\ \E last \in Nodes(tree) :
                            Walked(tree, calls, last) /\ LookedUp(tree, index, last)
    /\ answered => /\ Listed(tree, projects, tree.buildings)
                   /\ LookedUp(tree, index, Cardinality(Nodes(tree)))

LEMMA RootResolved ==
    ASSUME NEW size, IsTree(tree, size), rootId' = Resolve(tree), UNCHANGED tree
    PROVE  rootId' \in GroupIds \cup {NoId} /\ RootNotGuessed'
<1> DEFINE wrappers == {tree.id[c] : c \in {n \in Nodes(tree) : tree.parent[n] = 1}} \ {NoId}
           ids == IF ExplicitIds(tree) # {} THEN ExplicitIds(tree) ELSE wrappers
<1>1. /\ 1 \in 1..size /\ tree.id \in [1..size -> GroupIds \cup {NoId}]
      /\ Nodes(tree) = 1..size /\ tree.envelope \subseteq GroupIds /\ NoId \notin GroupIds
  BY TreeAssumption DEF IsTree
<1>2. ids \subseteq GroupIds
  BY <1>1 DEF ExplicitIds
<1>3. rootId' = IF Cardinality(ids) = 1 THEN CHOOSE i \in ids : TRUE ELSE NoId
  BY DEF Resolve
<1>4. IsFiniteSet(ids)
  BY <1>2, TreeAssumption, FS_Subset
<1>5. CASE Cardinality(ids) # 1
  BY <1>1, <1>3, <1>5 DEF RootNotGuessed
<1>6. CASE Cardinality(ids) = 1
  <2> HIDE DEF ids
  <2>1. PICK i : ids = {i}
    BY <1>4, <1>6, FS_Singleton
  <2>2. rootId' = i /\ i \in GroupIds
    BY <1>2, <1>3, <1>6, <2>1
  <2>3. CASE ExplicitIds(tree) # {}
    <3>1. tree.envelope \cup ({tree.id[1]} \ {NoId}) = {i}
      BY <2>1, <2>3 DEF ids, ExplicitIds
    <3> QED BY <2>2, <3>1 DEF RootNotGuessed
  <2>4. CASE ExplicitIds(tree) = {}
    <3>1. wrappers = {i} /\ tree.envelope = {} /\ tree.id[1] = NoId
      BY <2>1, <2>4 DEF ids, ExplicitIds
    <3>2. \E n \in Nodes(tree) : tree.parent[n] = 1 /\ tree.id[n] = i
      BY <3>1
    <3>3. \A n \in Nodes(tree) : tree.parent[n] = 1 => tree.id[n] \in {i, NoId}
      BY <3>1
    <3> QED BY <2>2, <3>1, <3>2, <3>3 DEF RootNotGuessed
  <2> QED BY <2>3, <2>4
<1> QED
  BY <1>5, <1>6

\* A call notes its group.
LEMMA CallIndexes ==
    ASSUME NEW size, IsTree(tree, size), NEW n \in 1..size, NEW owner, NEW lookups,
           IF n = 1 THEN owner = 0 ELSE Nearest(tree, owner, tree.parent[n]),
           LookedUp(tree, lookups, n - 1)
    PROVE  LookedUp(tree, IF tree.id[n] # NoId /\ Owner(n, owner) # 0
                         THEN [lookups EXCEPT ![tree.id[n]] = Owner(n, owner)] ELSE lookups, n)
<1> DEFINE own == Owner(n, owner)
           g == IF tree.id[n] # NoId /\ own # 0
                THEN [lookups EXCEPT ![tree.id[n]] = own] ELSE lookups
           owned(i, last) == {m \in 1..last : tree.id[m] = i /\ Above(tree, m) # {}}
<1>1. /\ size \in Nat \ {0} /\ Nodes(tree) = 1..size /\ NoId \notin GroupIds
      /\ tree.id \in [1..size -> GroupIds \cup {NoId}]
  BY TreeAssumption DEF IsTree
<1>2. Nearest(tree, own, n)
  BY OwnerIsNearest
<1>3. Ancestors(tree, n) \subseteq 1..n
  BY AncestorsOf
<1> HIDE DEF own
<1>4. (own = 0 <=> Above(tree, n) = {}) /\ own \in 1..size \cup {0}
  BY <1>1, <1>2, <1>3 DEF Nearest, Above
<1>5. lookups \in [GroupIds -> Nodes(tree) \cup {0}]
  BY DEF LookedUp
<1>6. g \in [GroupIds -> Nodes(tree) \cup {0}]
  BY <1>1, <1>4, <1>5
<1>7. ASSUME NEW i \in GroupIds
      PROVE  IF owned(i, n) = {} THEN g[i] = 0
             ELSE \E m \in owned(i, n) : Nearest(tree, g[i], m) /\ \A k \in owned(i, n) : k <= m
  <2>1. IF owned(i, n - 1) = {} THEN lookups[i] = 0
        ELSE \E m \in owned(i, n - 1) :
                Nearest(tree, lookups[i], m) /\ \A k \in owned(i, n - 1) : k <= m
    BY <1>7 DEF LookedUp
  <2>2. CASE tree.id[n] = i /\ Above(tree, n) # {}
    <3>1. g[i] = own
      BY <1>1, <1>4, <1>5, <2>2
    <3>2. n \in owned(i, n) /\ \A k \in owned(i, n) : k <= n
      BY <1>1, <2>2
    <3> HIDE DEF owned, g
    <3> QED BY <1>2, <3>1, <3>2
  <2>3. CASE ~(tree.id[n] = i /\ Above(tree, n) # {})
    <3>1. g[i] = lookups[i]
      BY <1>1, <1>4, <1>5, <1>7, <2>3
    <3>2. owned(i, n) = owned(i, n - 1)
      BY <1>1, <2>3
    <3> HIDE DEF owned, g
    <3> QED BY <2>1, <3>1, <3>2
  <2> QED BY <2>2, <2>3
<1> QED
  BY <1>6, <1>7 DEF LookedUp, own

Frames == [group: Nodes(tree), owner: Nodes(tree) \cup {0}, list: Seq(Nodes(tree)),
           left: SUBSET Nodes(tree)]

\* The next subgroup of the innermost call is the next group of the document.
LEMMA NextInOrder ==
    ASSUME NEW size, IsTree(tree, size), NEW last \in 1..size,
           calls \in Seq(Frames), Walked(tree, calls, last),
           NEW n \in Innermost.left, \A m \in Innermost.left : n <= m
    PROVE  n = last + 1 /\ n \in 1..size /\ tree.parent[n] = Innermost.group
<1>1. /\ size \in Nat \ {0} /\ Nodes(tree) = 1..size
      /\ tree.parent \in [1..size -> 0..(size - 1)]
      /\ \A m \in 1..size : tree.parent[m] < m /\ (tree.parent[m] = 0 <=> m = 1)
  BY DEF IsTree
<1> DEFINE top == Len(calls)
<1>2. top \in DOMAIN calls /\ DOMAIN calls = 1..top /\ top \in Nat \ {0}
  BY DEF Walked
<1>3. AtCall(tree, calls, top, last)
  BY <1>2 DEF Walked
<1>4. /\ n \in 1..size /\ last < n /\ tree.parent[n] = calls[top].group
      /\ calls[top].group \in 1..last
  BY <1>1, <1>3 DEF AtCall, SubGroups, Innermost
<1> DEFINE next == last + 1
<1>5. next \in 1..size /\ tree.parent[next] <= last /\ last < next /\ next <= n
  BY <1>1, <1>4
<1>6. PICK k \in DOMAIN calls : calls[k].group = tree.parent[next]
  BY <1>1, <1>5 DEF Walked
<1>7. CASE k = top
  <2>1. next \in Innermost.left
    BY <1>1, <1>3, <1>5, <1>6, <1>7 DEF AtCall, SubGroups, Innermost
  <2> QED BY <1>4, <1>5, <2>1 DEF Innermost
<1>8. CASE k # top
  <2>1. calls[k].group < calls[top].group
    BY <1>2, <1>6, <1>8 DEF Walked
  <2>2. next # n
    BY <1>1, <1>4, <1>6, <2>1
  <2>3. tree.parent[n] < next /\ next < n
    BY <1>4, <1>5, <2>2
  <2>4. tree.parent[n] <= tree.parent[next]
    BY <1>4, <1>5, <2>3 DEF IsTree
  <2>5. calls[k].group \in Int /\ calls[top].group \in Int
    BY <1>1, <1>4, <1>5, <1>6
  <2> QED BY <1>4, <1>6, <2>1, <2>4, <2>5
<1> QED
  BY <1>4, <1>7, <1>8 DEF Innermost

LEMMA Pushed ==
    ASSUME NEW S, NEW l \in Seq(S), l # <<>>, NEW f \in S, NEW g \in S
    PROVE  LET m == Append([l EXCEPT ![Len(l)] = f], g) IN
           /\ m \in Seq(S) /\ Len(m) = Len(l) + 1 /\ DOMAIN m = 1..(Len(l) + 1)
           /\ \A k \in 1..(Len(l) - 1) : m[k] = l[k]
           /\ m[Len(l)] = f /\ m[Len(l) + 1] = g
<1> DEFINE n == Len(l)
           w == [l EXCEPT ![n] = f]
           m == Append(w, g)
<1>1. n \in Nat \ {0} /\ n \in 1..n /\ DOMAIN l = 1..n
  OBVIOUS
<1>2. /\ w \in Seq(S) /\ Len(w) = n
      /\ \A k \in 1..n : w[k] = IF k = n THEN f ELSE l[k]
  BY ONLY <1>1, ExceptSeq, l \in Seq(S), f \in S
<1> HIDE DEF w
<1>3. /\ m \in Seq(S) /\ Len(m) = Len(w) + 1
      /\ \A k \in 1..Len(w) : m[k] = w[k]
      /\ m[Len(w) + 1] = g
  BY ONLY <1>2, AppendProperties, g \in S
<1> HIDE DEF m, n
<1>4. DOMAIN m = 1..(n + 1)
  BY <1>1, <1>2, <1>3
<1>5. \A k \in 1..(n - 1) : m[k] = l[k]
  BY <1>1, <1>2, <1>3
<1>6. m[n] = f /\ m[n + 1] = g
  BY <1>1, <1>2, <1>3
<1> QED
  BY <1>2, <1>3, <1>4, <1>5, <1>6 DEF m, w, n

LEMMA FrameWithout ==
    ASSUME NEW f \in Frames, NEW n
    PROVE  LET g == [f EXCEPT !.left = @ \ {n}] IN
           /\ g \in Frames /\ g.group = f.group /\ g.owner = f.owner /\ g.list = f.list
           /\ g.left = f.left \ {n}
BY DEF Frames

LEMMA DescendWalks ==
    ASSUME NEW size, IsTree(tree, size), NEW last \in 1..size,
           calls \in Seq(Frames), Walked(tree, calls, last), LookedUp(tree, index, last),
           Descend
    PROVE  /\ last + 1 \in 1..size /\ calls' \in Seq(Frames) /\ Len(calls') = Len(calls) + 1
           /\ Walked(tree, calls', last + 1) /\ LookedUp(tree, index', last + 1)
<1>1. /\ size \in Nat \ {0} /\ Nodes(tree) = 1..size
      /\ tree.parent \in [1..size -> 0..(size - 1)] /\ tree.buildings \subseteq 1..size
      /\ \A m \in 1..size : tree.parent[m] < m /\ (tree.parent[m] = 0 <=> m = 1)
  BY DEF IsTree
<1> DEFINE top == Len(calls)
           own(n) == Owner(n, Innermost.owner)
           mine(n) == [group |-> n, owner |-> own(n),
                       list |-> IF n \in tree.buildings THEN <<n>> ELSE <<>>,
                       left |-> SubGroups(tree, n)]
           rest(n) == [calls[top] EXCEPT !.left = @ \ {n}]
<1>2. PICK n \in Innermost.left :
        /\ \A m \in Innermost.left : n <= m
        /\ Call(n, Innermost.owner, [calls EXCEPT ![top].left = @ \ {n}], index)
  BY DEF Descend
<1>3. n = last + 1 /\ n \in 1..size /\ tree.parent[n] = Innermost.group
  BY <1>2, NextInOrder
<1>4. top \in DOMAIN calls /\ DOMAIN calls = 1..top /\ top \in Nat \ {0}
  BY DEF Walked
<1>5. AtCall(tree, calls, top, last)
  BY <1>4 DEF Walked
<1>6. calls[top] \in Frames /\ rest(n) \in Frames
  <2>1. calls[top] \in Frames
    BY <1>4
  <2> QED BY <2>1, FrameWithout
<1>7. Nearest(tree, Innermost.owner, tree.parent[n]) /\ n # 1 /\ last = n - 1
  BY <1>1, <1>3, <1>5 DEF AtCall, Innermost
<1>8. LookedUp(tree, index', n)
  BY <1>2, <1>3, <1>7, CallIndexes DEF Call
<1>9. Nearest(tree, own(n), n)
  BY <1>3, <1>7, OwnerIsNearest
<1>10. own(n) \in 1..size \cup {0}
  BY <1>1, <1>3, <1>4, <1>6 DEF Owner, Innermost, Frames
<1>11. mine(n) \in Frames
  <2>1. <<n>> \in Seq(Nodes(tree)) /\ <<>> \in Seq(Nodes(tree))
    BY <1>1, <1>3
  <2>2. SubGroups(tree, n) \subseteq Nodes(tree)
    BY DEF SubGroups
  <2> HIDE DEF own
  <2> QED BY <1>1, <1>3, <1>10, <2>1, <2>2 DEF Frames
<1> DEFINE w == [calls EXCEPT ![top].left = @ \ {n}]
<1>12. w \in Seq(Frames) /\ Len(w) = top /\ w = [calls EXCEPT ![top] = rest(n)]
  BY <1>4, <1>6
<1>13. /\ calls' \in Seq(Frames) /\ Len(calls') = top + 1 /\ DOMAIN calls' = 1..(top + 1)
       /\ \A k \in 1..(top - 1) : calls'[k] = calls[k]
       /\ calls'[top] = rest(n) /\ calls'[top + 1] = mine(n)
  <2>1. calls' = Append([calls EXCEPT ![top] = rest(n)], mine(n))
    BY <1>2, <1>12 DEF Call
  <2> HIDE DEF mine, rest
  <2>2. calls # <<>>
    BY DEF Walked
  <2> QED BY <1>6, <1>11, <2>1, <2>2, Pushed
<1>14. /\ calls'[top].group = calls[top].group /\ calls'[top].owner = calls[top].owner
       /\ calls'[top].list = calls[top].list /\ calls'[top].left = calls[top].left \ {n}
  BY <1>6, <1>13, FrameWithout
<1> HIDE DEF w, rest
<1>15. \A k \in 1..top : /\ calls'[k].group = calls[k].group /\ calls'[k].owner = calls[k].owner
                         /\ calls'[k].list = calls[k].list
  BY <1>4, <1>13, <1>14
<1>16. \A k \in 1..top : /\ AtCall(tree, calls, k, last) /\ calls[k].group \in 1..last
  BY <1>4 DEF Walked, AtCall
<1>17. ASSUME NEW k \in 1..(top + 1) PROVE AtCall(tree, calls', k, n)
  <2>1. CASE k < top
    <3>1. k \in 1..(top - 1) /\ k \in 1..top /\ k + 1 \in 1..top /\ k \in DOMAIN calls
      BY <1>4, <2>1
    <3>2. Until(calls', k, n) = Until(calls, k, last)
      BY <1>4, <1>13, <1>15, <2>1, <3>1 DEF Until
    <3>3. calls[k].group < calls[top].group
      BY <1>4, <2>1, <3>1 DEF Walked
    <3>4. \A c \in SubGroups(tree, calls[k].group) : last < c => n < c
      BY <1>1, <1>3, <1>4, <1>16, <3>1, <3>3 DEF SubGroups, Innermost
    <3>5. {c \in SubGroups(tree, calls[k].group) : last < c} =
            {c \in SubGroups(tree, calls[k].group) : n < c}
      BY <1>1, <1>3, <3>4 DEF SubGroups
    <3>6. calls[k].group \in 1..n
      BY <1>1, <1>3, <1>16, <3>1
    <3> QED BY <1>13, <1>16, <3>1, <3>2, <3>5, <3>6 DEF AtCall
  <2>2. CASE k = top
    <3>1. Until(calls', k, n) = last /\ Until(calls, k, last) = last
      <4>1. calls'[k + 1].group = n /\ k # Len(calls')
        <5>1. calls'[top + 1].group = n
          BY <1>13
        <5>2. top # Len(calls')
          <6> HIDE DEF mine, top
          <6> QED BY <1>4, <1>13
        <5> QED BY <2>2, <5>1, <5>2
      <4> QED BY <1>3, <2>2, <4>1 DEF Until
    <3>2. {c \in SubGroups(tree, calls[top].group) : n < c} =
            {c \in SubGroups(tree, calls[top].group) : last < c} \ {n}
      BY <1>1, <1>3 DEF SubGroups
    <3>3. calls[top].group \in 1..n
      BY <1>1, <1>3, <1>4, <1>16
    <3> QED BY <1>5, <1>14, <2>2, <3>1, <3>2, <3>3 DEF AtCall
  <2>3. CASE k = top + 1
    <3>1. Until(calls', k, n) = n
      BY <1>13, <2>3 DEF Until
    <3>2. Listed(tree, mine(n).list, tree.buildings \cap n..n)
      <4>1. n..n = {n}
        BY <1>3
      <4>2. CASE n \in tree.buildings
        BY SMTT(30), <1>1, <1>3, <4>1, <4>2, ListedOne
      <4>3. CASE n \notin tree.buildings
        BY <4>1, <4>3, ListedNone
      <4> QED BY <4>2, <4>3
    <3>3. mine(n).left = {c \in SubGroups(tree, n) : n < c}
      BY <1>1, <1>3 DEF SubGroups
    <3>4. top + 1 <= n
      BY <1>1, <1>3, <1>4, <1>5 DEF AtCall
    <3>5. n \in 1..n /\ calls'[k] = mine(n) /\ mine(n).group = n /\ mine(n).owner = own(n)
      BY <1>3, <1>13, <2>3
    <3> HIDE DEF mine, own
    <3> QED BY <1>9, <2>3, <3>1, <3>2, <3>3, <3>4, <3>5 DEF AtCall
  <2> QED BY <1>4, <2>1, <2>2, <2>3
<1> HIDE DEF mine
<1>18. \A j, k \in 1..(top + 1) : j < k => calls'[j].group < calls'[k].group
  <2> SUFFICES ASSUME NEW j \in 1..(top + 1), NEW k \in 1..(top + 1), j < k
               PROVE  calls'[j].group < calls'[k].group
    OBVIOUS
  <2>1. j \in 1..top
    BY <1>4
  <2>2. CASE k \in 1..top
    BY <1>4, <1>15, <2>1, <2>2 DEF Walked
  <2>3. CASE k = top + 1
    <3>1. calls'[k].group = n
      BY <1>13, <2>3 DEF mine
    <3>2. calls[j].group \in 1..last /\ calls'[j].group = calls[j].group
      BY <1>15, <1>16, <2>1
    <3> QED BY <1>3, <3>1, <3>2
  <2> QED BY <1>4, <2>2, <2>3
<1>19. ASSUME NEW m \in Nodes(tree), n < m, tree.parent[m] <= n
       PROVE  \E k \in DOMAIN calls' : calls'[k].group = tree.parent[m]
  <2>1. CASE tree.parent[m] = n
    BY <1>4, <1>13, <2>1 DEF mine
  <2>2. CASE tree.parent[m] # n
    <3>1. last < m /\ tree.parent[m] <= last
      BY SMTT(30), <1>1, <1>3, <1>19, <2>2
    <3>2. PICK k \in DOMAIN calls : calls[k].group = tree.parent[m]
      BY <3>1 DEF Walked
    <3> QED BY <1>4, <1>13, <1>15, <3>2
  <2> QED BY <2>1, <2>2
<1>20. calls' # <<>> /\ calls'[1].group = 1
  BY <1>4, <1>13, <1>15 DEF Walked
<1> QED
  BY <1>3, <1>8, <1>13, <1>17, <1>18, <1>19, <1>20 DEF Walked

LEMMA Popped ==
    ASSUME NEW S, NEW l \in Seq(S), Len(l) > 1, NEW f \in S
    PROVE  LET m == [Front(l) EXCEPT ![Len(l) - 1] = f] IN
           /\ m \in Seq(S) /\ Len(m) = Len(l) - 1 /\ DOMAIN m = 1..(Len(l) - 1)
           /\ \A k \in 1..(Len(l) - 2) : m[k] = l[k]
           /\ m[Len(l) - 1] = f /\ Front(l)[Len(l) - 1] = l[Len(l) - 1]
<1> DEFINE n == Len(l) - 1
           w == Front(l)
           m == [w EXCEPT ![n] = f]
<1>1. n \in Nat \ {0} /\ n \in 1..n /\ Len(l) = n + 1 /\ Len(l) \in Nat
  <2>1. Len(l) \in Nat /\ n = Len(l) - 1
    OBVIOUS
  <2> HIDE DEF n
  <2> QED BY SMTT(30), <2>1
<1>2. w \in Seq(S) /\ Len(w) = n /\ \A k \in 1..n : w[k] = l[k]
  BY <1>1 DEF Front
<1> HIDE DEF w, n
<1>3. /\ m \in Seq(S) /\ Len(m) = n
      /\ \A k \in 1..n : m[k] = IF k = n THEN f ELSE w[k]
  BY ONLY <1>1, <1>2, ExceptSeq, f \in S
<1> HIDE DEF m
<1>4. DOMAIN m = 1..n
  BY <1>1, <1>3
<1>5. \A k \in 1..(n - 1) : m[k] = l[k]
  BY <1>1, <1>2, <1>3
<1>6. m[n] = f /\ w[n] = l[n]
  BY <1>1, <1>2, <1>3
<1>7. Len(l) - 2 = n - 1
  BY <1>1 DEF n
<1> QED
  BY <1>3, <1>4, <1>5, <1>6, <1>7 DEF m, w, n

LEMMA FrameLonger ==
    ASSUME NEW f \in Frames, NEW l \in Seq(Nodes(tree))
    PROVE  LET g == [f EXCEPT !.list = @ \o l] IN
           /\ g \in Frames /\ g.group = f.group /\ g.owner = f.owner /\ g.left = f.left
           /\ g.list = f.list \o l
<1>1. f.list \o l \in Seq(Nodes(tree))
  BY DEF Frames
<1> QED
  BY <1>1 DEF Frames

\* When the innermost call has no subgroup left, nothing to come is below its group.
LEMMA CallOver ==
    ASSUME NEW size, IsTree(tree, size), NEW last \in 1..size,
           calls \in Seq(Frames), Walked(tree, calls, last), Innermost.left = {},
           NEW n \in Nodes(tree), last < n
    PROVE  tree.parent[n] # Innermost.group
<1>1. Len(calls) \in DOMAIN calls
  BY DEF Walked
<1>2. AtCall(tree, calls, Len(calls), last)
  BY <1>1 DEF Walked
<1> QED
  BY <1>2 DEF AtCall, Innermost, SubGroups

LEMMA ReturnWalks ==
    ASSUME NEW size, IsTree(tree, size), NEW last \in 1..size,
           calls \in Seq(Frames), Walked(tree, calls, last), Len(calls) > 1,
           Return
    PROVE  calls' \in Seq(Frames) /\ Len(calls') < Len(calls) /\ Walked(tree, calls', last)
<1>1. /\ size \in Nat \ {0} /\ Nodes(tree) = 1..size
      /\ tree.parent \in [1..size -> 0..(size - 1)] /\ tree.buildings \subseteq 1..size
  BY DEF IsTree
<1> DEFINE top == Len(calls)
           under == top - 1
           longer == [calls[under] EXCEPT !.list = @ \o calls[top].list]
<1>2. /\ top \in DOMAIN calls /\ under \in DOMAIN calls /\ DOMAIN calls = 1..top
      /\ top \in Nat \ {0} /\ under \in 1..under /\ under \in Nat \ {0} /\ top = under + 1
  BY DEF Walked
<1>3. calls[top] \in Frames /\ calls[under] \in Frames
  BY <1>2
<1>4. calls[top].list \in Seq(Nodes(tree))
  BY <1>3 DEF Frames
<1>5. /\ longer \in Frames /\ longer.group = calls[under].group
      /\ longer.owner = calls[under].owner /\ longer.left = calls[under].left
      /\ longer.list = calls[under].list \o calls[top].list
  BY <1>3, <1>4, FrameLonger
<1> HIDE DEF longer
<1>6. /\ calls' \in Seq(Frames) /\ Len(calls') = under /\ DOMAIN calls' = 1..under
      /\ \A k \in 1..(under - 1) : calls'[k] = calls[k]
      /\ calls'[under] = longer
  <2> DEFINE m == [Front(calls) EXCEPT ![under] = longer]
  <2>1. /\ m \in Seq(Frames) /\ Len(m) = top - 1 /\ DOMAIN m = 1..(top - 1)
        /\ \A k \in 1..(top - 2) : m[k] = calls[k]
        /\ m[top - 1] = longer /\ Front(calls)[top - 1] = calls[top - 1]
    BY ONLY <1>5, calls \in Seq(Frames), Len(calls) > 1, Popped
  <2>2. calls' = m
    BY <2>1 DEF Return, Innermost, longer
  <2>3. top - 2 = under - 1
    BY <1>2
  <2> HIDE DEF m, top
  <2> QED BY <2>1, <2>2, <2>3
<1>7. \A k \in 1..under : AtCall(tree, calls, k, last) /\ calls[k].group \in 1..last
  <2>1. \A k \in 1..under : k \in DOMAIN calls
    BY <1>2
  <2> QED BY <2>1 DEF Walked, AtCall
<1>8. AtCall(tree, calls, top, last) /\ calls[top].group \in 1..last
  BY <1>2 DEF Walked, AtCall
<1>9. \A k \in 1..under : calls'[k].group = calls[k].group
  BY <1>2, <1>5, <1>6
<1>10. ASSUME NEW k \in 1..under PROVE AtCall(tree, calls', k, last)
  <2>1. CASE k < under
    <3>1. k \in 1..(under - 1) /\ k + 1 \in 1..under
      BY <1>2, <2>1
    <3>2. Until(calls', k, last) = Until(calls, k, last)
      <4>1. calls'[k + 1].group = calls[k + 1].group
        BY <1>9, <3>1
      <4>2. k # Len(calls) /\ k # Len(calls')
        <5>1. k # top /\ k # under
          <6> HIDE DEF top, under
          <6> QED BY <1>2, <2>1
        <5> QED BY <1>6, <5>1
      <4> QED BY <4>1, <4>2 DEF Until
    <3>3. calls'[k] = calls[k]
      BY <1>6, <3>1
    <3> QED BY <1>7, <3>2, <3>3 DEF AtCall
  <2>2. CASE k = under
    <3> DEFINE g == calls[under].group
               h == calls[top].group
    <3>1. Until(calls', k, last) = last
      BY <1>6, <2>2 DEF Until
    <3>2. /\ Listed(tree, calls[under].list, tree.buildings \cap g..(h - 1))
          /\ Listed(tree, calls[top].list, tree.buildings \cap h..last)
      <4>1. Until(calls, under, last) = h - 1 /\ Until(calls, top, last) = last
        <5>1. under # top /\ under + 1 = top
          <6> HIDE DEF under, top
          <6> QED BY <1>2
        <5> QED BY <5>1 DEF Until
      <4>2. AtCall(tree, calls, under, last)
        BY <1>2, <1>7
      <4> QED BY <1>8, <4>1, <4>2 DEF AtCall
    <3>3. g < h /\ g \in 1..last /\ h \in 1..last
      <4>1. under \in DOMAIN calls /\ top \in DOMAIN calls /\ under < top
        BY <1>2
      <4>2. g < h
        <5>1. \A i, j \in DOMAIN calls : i < j => calls[i].group < calls[j].group
          BY DEF Walked
        <5> HIDE DEF under, top
        <5> QED BY ONLY <4>1, <5>1 DEF g, h
      <4>3. g \in 1..last
        <5>1. under \in 1..under
          BY <1>2
        <5> HIDE DEF under
        <5> QED BY ONLY <1>7, <5>1 DEF g
      <4>4. h \in 1..last
        BY ONLY <1>8 DEF h
      <4> QED BY ONLY <4>2, <4>3, <4>4
    <3> HIDE DEF g, h
    <3>4. /\ (tree.buildings \cap g..(h - 1)) \cup (tree.buildings \cap h..last)
               = tree.buildings \cap g..last
          /\ \A s \in tree.buildings \cap g..(h - 1) :
               \A t \in tree.buildings \cap h..last : s < t
          /\ Nodes(tree) \subseteq Int
      BY <1>1, <3>3
    <3>5. Listed(tree, longer.list, tree.buildings \cap g..last)
      BY <1>5, <3>2, <3>4, ListedBoth
    <3>6. AtCall(tree, calls, under, last)
      BY <1>2, <1>7
    <3>7. calls'[k] = longer /\ g \in 1..last
      BY <1>6, <2>2, <3>3
    <3> HIDE DEF under
    <3> QED BY <1>5, <2>2, <3>1, <3>5, <3>6, <3>7 DEF AtCall, g
  <2> HIDE DEF under, top
  <2> QED BY <1>2, <2>1, <2>2
<1>11. \A j, k \in 1..under : j < k => calls'[j].group < calls'[k].group
  BY <1>2, <1>9 DEF Walked
<1>12. ASSUME NEW m \in Nodes(tree), last < m, tree.parent[m] <= last
       PROVE  \E k \in DOMAIN calls' : calls'[k].group = tree.parent[m]
  <2>1. PICK k \in DOMAIN calls : calls[k].group = tree.parent[m]
    BY <1>12 DEF Walked
  <2>2. k # top
    BY <1>12, <2>1, CallOver DEF Return, Innermost
  <2>3. k \in 1..under
    BY <1>2, <2>1, <2>2
  <2> QED BY <1>6, <1>9, <2>1, <2>3
<1>13. calls' # <<>> /\ calls'[1].group = 1
  BY <1>2, <1>6, <1>9 DEF Walked
<1> QED
  BY SMTT(30), <1>2, <1>6, <1>10, <1>11, <1>12, <1>13 DEF Walked

\* When the walk is over every group was visited.
LEMMA WalkOver ==
    ASSUME NEW size, IsTree(tree, size), NEW last \in 1..size,
           calls \in Seq(Frames), Walked(tree, calls, last), Len(calls) = 1,
           Innermost.left = {}
    PROVE  last = size /\ Listed(tree, Innermost.list, tree.buildings)
<1>1. /\ size \in Nat \ {0} /\ Nodes(tree) = 1..size
      /\ tree.parent \in [1..size -> 0..(size - 1)] /\ tree.buildings \subseteq 1..size
      /\ \A n \in 1..size : tree.parent[n] < n
  BY DEF IsTree
<1>2. DOMAIN calls = {1}
  OBVIOUS
<1>3. AtCall(tree, calls, 1, last) /\ calls[1].group = 1
  BY <1>2 DEF Walked
<1>4. ~(last < size)
  <2> SUFFICES ASSUME last < size PROVE FALSE
    OBVIOUS
  <2>1. last + 1 \in Nodes(tree) /\ last < last + 1 /\ tree.parent[last + 1] <= last
    BY <1>1
  <2>2. PICK k \in DOMAIN calls : calls[k].group = tree.parent[last + 1]
    BY <2>1 DEF Walked
  <2>3. calls[k] = Innermost
    BY <1>2 DEF Innermost
  <2> QED BY <2>1, <2>2, <2>3, CallOver
<1>5. last = size
  BY <1>1, <1>4
<1>6. tree.buildings \cap 1..last = tree.buildings
  BY <1>1, <1>5
<1>7. Until(calls, 1, last) = last
  BY DEF Until
<1> QED
  BY <1>3, <1>5, <1>6, <1>7 DEF AtCall, Innermost

\* The first call of a walk.
LEMMA ReadWalks ==
    ASSUME NEW size, IsTree(tree, size), ReadTree
    PROVE  /\ calls' \in Seq(Frames) /\ Len(calls') = 1
           /\ Walked(tree, calls', 1) /\ LookedUp(tree, index', 1)
<1>1. /\ size \in Nat \ {0} /\ Nodes(tree) = 1..size /\ 1 \in 1..size
      /\ tree.parent \in [1..size -> 0..(size - 1)] /\ tree.buildings \subseteq 1..size
      /\ \A n \in 1..size : tree.parent[n] < n /\ (tree.parent[n] = 0 <=> n = 1)
  BY DEF IsTree
<1> DEFINE own == Owner(1, 0)
           list == IF 1 \in tree.buildings THEN <<1>> ELSE <<>>
           mine == [group |-> 1, owner |-> own, list |-> list, left |-> SubGroups(tree, 1)]
<1>2. LookedUp(tree, NoProjects, 0)
  BY <1>1 DEF LookedUp, NoProjects
<1>3. LookedUp(tree, index', 1)
  BY <1>1, <1>2, CallIndexes DEF ReadTree, Call
<1>4. Nearest(tree, own, 1)
  BY <1>1, OwnerIsNearest
<1>5. own \in 1..size \cup {0}
  BY <1>1 DEF Owner
<1>6. list \in Seq(Nodes(tree)) /\ Listed(tree, list, tree.buildings \cap 1..1)
  <2>1. 1..1 = {1}
    OBVIOUS
  <2>2. CASE 1 \in tree.buildings
    BY <1>1, <2>1, <2>2, ListedOne DEF Listed
  <2>3. CASE 1 \notin tree.buildings
    BY <2>1, <2>3, ListedNone DEF Listed
  <2> QED BY <2>2, <2>3
<1> HIDE DEF own, list
<1>7. mine \in Frames
  BY <1>1, <1>5, <1>6 DEF Frames, SubGroups
<1>8. calls' = <<mine>>
  BY DEF ReadTree, Call, own, list
<1>9. SubGroups(tree, 1) = {c \in SubGroups(tree, 1) : 1 < c}
  BY <1>1 DEF SubGroups
<1>10. AtCall(tree, calls', 1, 1)
  <2>1. Until(calls', 1, 1) = 1 /\ calls'[1] = mine /\ 1 \in 1..1 /\ 1 <= 1
    BY <1>8 DEF Until
  <2>2. /\ mine.group = 1 /\ mine.owner = own /\ mine.list = list
        /\ mine.left = SubGroups(tree, 1)
    BY DEF mine
  <2> HIDE DEF mine
  <2> QED BY <1>4, <1>6, <1>9, <2>1, <2>2 DEF AtCall
<1>11. ASSUME NEW n \in Nodes(tree), 1 < n, tree.parent[n] <= 1 PROVE tree.parent[n] = 1
  BY <1>1, <1>11
<1>12. calls' \in Seq(Frames) /\ Len(calls') = 1 /\ DOMAIN calls' = {1} /\ calls'[1].group = 1
  <2> HIDE DEF mine
  <2>1. mine.group = 1
    BY DEF mine
  <2> QED BY <1>7, <1>8, <2>1
<1>13. \A j, k \in DOMAIN calls' : ~(j < k)
  BY <1>12
<1>14. calls' # <<>>
  BY <1>8
<1> HIDE DEF mine
<1>15. \A n \in Nodes(tree) : 1 < n /\ tree.parent[n] <= 1 =>
         \E k \in DOMAIN calls' : calls'[k].group = tree.parent[n]
  BY <1>11, <1>12
<1>16. \A k \in DOMAIN calls' : AtCall(tree, calls', k, 1)
  BY <1>10, <1>12
<1> QED
  BY <1>3, <1>12, <1>13, <1>14, <1>15, <1>16 DEF Walked

\* Each step of the walk keeps all that.
LEMMA TreeSteps ==
    ASSUME TreeInv, [TreeNext]_treeVars
    PROVE  TreeInv'
<1>1. CASE UNCHANGED treeVars
  BY <1>1 DEF TreeInv, TreeTypeOK, RootNotGuessed, treeVars
<1>2. TreeTypeOK /\ RootNotGuessed
  BY DEF TreeInv
<1>3. PICK size \in 1..MaxNodes : IsTree(tree, size)
  BY <1>2, TreeShape DEF TreeTypeOK
<1>4. /\ size \in Nat \ {0} /\ Nodes(tree) = 1..size /\ Cardinality(Nodes(tree)) = size
      /\ tree \in Trees /\ calls \in Seq(Frames)
  BY <1>2, <1>3 DEF IsTree, TreeTypeOK, Frames
<1>5. ASSUME UNCHANGED tree
      PROVE  Nodes(tree') = Nodes(tree) /\ Frames' = Frames
  BY <1>5 DEF Frames
<1>6. CASE ReadTree
  <2>1. /\ calls' \in Seq(Frames) /\ Len(calls') = 1
        /\ Walked(tree, calls', 1) /\ LookedUp(tree, index', 1)
    BY <1>3, <1>6, ReadWalks
  <2>2. /\ tree' = tree /\ projects' = <<>> /\ answered' = FALSE
        /\ rootId' \in GroupIds \cup {NoId} /\ RootNotGuessed'
    BY <1>3, <1>6, RootResolved DEF ReadTree
  <2>3. index' \in [GroupIds -> Nodes(tree) \cup {0}]
    BY <2>1 DEF LookedUp
  <2>4. TreeTypeOK'
    <3>1. Nodes(tree') = Nodes(tree) /\ calls' \in Seq(Frames)' /\ Len(calls') <= size
      BY <1>4, <1>5, <2>1, <2>2
    <3>2. projects' \in Seq(Nodes(tree)) /\ answered' \in BOOLEAN
      <4>1. <<>> \in Seq(Nodes(tree))
        OBVIOUS
      <4> QED BY <2>2, <4>1
    <3> QED BY <1>4, <2>2, <2>3, <3>1, <3>2 DEF TreeTypeOK, Frames
  <2>5. 1 \in Nodes(tree)
    BY <1>4
  <2> QED BY <2>1, <2>2, <2>4, <2>5 DEF TreeInv
<1>7. ASSUME calls # <<>>
      PROVE  /\ ~answered
             /\ \E last \in 1..size : Walked(tree, calls, last) /\ LookedUp(tree, index, last)
  BY <1>4, <1>7 DEF TreeInv
\* Each call under way is for a group of its own.
<1>8. ASSUME NEW last \in 1..size, calls' \in Seq(Frames), Walked(tree, calls', last)
      PROVE  Len(calls') <= size
  <2>1. Len(calls') \in DOMAIN calls' /\ Len(calls') \in Nat
    BY <1>8 DEF Walked
  <2>2. AtCall(tree, calls', Len(calls'), last)
    BY <1>8, <2>1 DEF Walked
  <2>3. Len(calls') <= calls'[Len(calls')].group /\ calls'[Len(calls')].group \in 1..last
    BY <2>2 DEF AtCall
  <2> QED BY <1>4, <2>1, <2>3
<1>9. CASE Descend
  <2>1. PICK last \in 1..size : Walked(tree, calls, last) /\ LookedUp(tree, index, last)
    BY <1>7, <1>9 DEF Descend
  <2>2. /\ last + 1 \in 1..size /\ calls' \in Seq(Frames) /\ Len(calls') = Len(calls) + 1
        /\ Walked(tree, calls', last + 1) /\ LookedUp(tree, index', last + 1)
    BY <1>3, <1>4, <1>9, <2>1, DescendWalks
  <2>3. UNCHANGED <<tree, answered, projects, rootId>> /\ ~answered
    BY <1>7, <1>9 DEF Descend
  <2>4. index' \in [GroupIds -> Nodes(tree) \cup {0}]
    BY <2>2 DEF LookedUp
  <2>5. Len(calls') <= size
    BY <1>8, <2>2
  <2>6. TreeTypeOK'
    BY <1>2, <1>4, <1>5, <2>2, <2>3, <2>4, <2>5 DEF TreeTypeOK, Frames
  <2>7. RootNotGuessed'
    BY <1>2, <2>3 DEF RootNotGuessed
  <2> QED BY <1>4, <2>2, <2>3, <2>6, <2>7 DEF TreeInv
<1>10. CASE Return
  <2>1. PICK last \in 1..size : Walked(tree, calls, last) /\ LookedUp(tree, index, last)
    BY <1>7, <1>10 DEF Return
  <2>2. UNCHANGED <<tree, rootId, index>> /\ Innermost.left = {} /\ ~answered
    BY <1>7, <1>10 DEF Return
  <2>3. RootNotGuessed'
    BY <1>2, <2>2 DEF RootNotGuessed
  <2>4. CASE Len(calls) > 1
    <3>1. /\ calls' \in Seq(Frames) /\ Len(calls') < Len(calls) /\ Walked(tree, calls', last)
      BY <1>3, <1>4, <1>10, <2>1, <2>4, ReturnWalks
    <3>2. Len(calls') <= size
      BY <1>8, <3>1
    <3>3. UNCHANGED <<projects, answered>>
      <4>1. Len(calls) # 1
        <5>1. calls \in Seq(Frames)
          BY <1>4
        <5>2. Len(calls) \in Nat
          BY <5>1
        <5>3. \A n \in Nat : n > 1 => n # 1
          OBVIOUS
        <5> QED BY ONLY <2>4, <5>2, <5>3, Zenon
      <4> QED BY <1>10, <4>1 DEF Return
    <3>4. TreeTypeOK'
      BY <1>2, <1>4, <1>5, <2>2, <3>1, <3>2, <3>3 DEF TreeTypeOK, Frames
    <3> QED BY <1>4, <2>1, <2>2, <2>3, <3>1, <3>3, <3>4 DEF TreeInv
  <2>5. CASE Len(calls) = 1
    <3>1. last = size /\ Listed(tree, Innermost.list, tree.buildings)
      BY <1>3, <1>4, <2>1, <2>2, <2>5, WalkOver
    <3>2. calls' = <<>> /\ projects' = Innermost.list /\ answered' = TRUE
      BY <1>10, <2>5 DEF Return
    <3>3. projects' \in Seq(Nodes(tree)) /\ calls' \in Seq(Frames) /\ Len(calls') = 0
      BY <3>1, <3>2 DEF Listed
    <3>4. TreeTypeOK'
      BY <1>2, <1>4, <1>5, <2>2, <3>2, <3>3 DEF TreeTypeOK, Frames
    <3> QED BY <1>4, <2>1, <2>2, <2>3, <3>1, <3>2, <3>4 DEF TreeInv
  <2>6. Len(calls) = 1 \/ Len(calls) > 1
    BY <1>10 DEF Return
  <2> QED BY <2>4, <2>5, <2>6
<1> QED
  BY <1>1, <1>6, <1>9, <1>10 DEF TreeNext

LEMMA TreeStarts == ASSUME TreeInit PROVE TreeInv
<1>1. PICK size \in 1..MaxNodes : IsTree(tree, size)
  BY TreeShape DEF TreeInit
<1>2. Cardinality(Nodes(tree)) = size /\ size \in Nat
  BY <1>1 DEF IsTree
<1>3. TreeTypeOK
  <2>1. Len(calls) = 0 /\ 0 <= size /\ projects \in Seq(Nodes(tree)) /\ calls \in Seq(Frames)
    <3>1. <<>> \in Seq(Nodes(tree)) /\ <<>> \in Seq(Frames)
      OBVIOUS
    <3> QED BY <1>2, <3>1 DEF TreeInit
  <2> QED BY <1>2, <2>1 DEF TreeInit, TreeTypeOK, NoProjects, Frames
<1> QED
  BY <1>3 DEF TreeInit, TreeInv, RootNotGuessed

LEMMA TreeInvHolds == TreeSpec => []TreeInv
<1>1. TreeInit => TreeInv
  BY TreeStarts
<1>2. TreeInv /\ [TreeNext]_treeVars => TreeInv'
  BY TreeSteps
<1> QED
  BY <1>1, <1>2, PTL DEF TreeSpec

LEMMA TreeIsRead == ASSUME TreeInv PROVE HierarchyRead
<1>1. PICK size \in 1..MaxNodes : IsTree(tree, size)
  BY TreeShape DEF TreeInv, TreeTypeOK
<1>2. Nodes(tree) = 1..size /\ Cardinality(Nodes(tree)) = size
  BY <1>1 DEF IsTree
<1>3. RootNotGuessed
  BY DEF TreeInv
<1>4. ProjectsListed
  BY DEF TreeInv, ProjectsListed, Listed
<1>5. IndexNearest
  <2> SUFFICES ASSUME answered, NEW i \in GroupIds
      PROVE  LET owned == {n \in Nodes(tree) : tree.id[n] = i /\ Above(tree, n) # {}}
             IN  IF owned = {} THEN index[i] = 0
                 ELSE \E n \in owned : \E b \in Above(tree, n) :
                         /\ index[i] = b
                         /\ \A m \in owned : m <= n
                         /\ \A c \in Above(tree, n) : c <= b
    BY DEF IndexNearest
  <2>1. LookedUp(tree, index, size)
    BY <1>2 DEF TreeInv
  <2> DEFINE owned == {n \in Nodes(tree) : tree.id[n] = i /\ Above(tree, n) # {}}
  <2>2. IF owned = {} THEN index[i] = 0
        ELSE \E n \in owned : Nearest(tree, index[i], n) /\ \A m \in owned : m <= n
    BY <1>2, <2>1 DEF LookedUp
  <2>3. \A n \in owned : Nearest(tree, index[i], n) =>
           index[i] \in Above(tree, n) /\ \A c \in Above(tree, n) : c <= index[i]
    BY DEF Nearest
  <2> HIDE DEF owned
  <2>4. CASE owned # {}
    <3>1. PICK n \in owned : Nearest(tree, index[i], n) /\ \A m \in owned : m <= n
      BY <2>2, <2>4
    <3> QED BY <2>3, <2>4, <3>1 DEF owned
  <2>5. CASE owned = {}
    BY <2>2, <2>5 DEF owned
  <2> QED BY <2>4, <2>5
<1> QED
  BY <1>3, <1>4, <1>5 DEF HierarchyRead

\* The projects, the root and the project of every group are read right from
\* every tree (client.py 978-1041).
THEOREM HierarchiesAreRead == TreeSpec => []HierarchyRead
<1>1. TreeInv => HierarchyRead
  BY TreeIsRead
<1> QED
  BY <1>1, TreeInvHolds, PTL

\* Every variable of the walk keeps its type, and it never goes deeper than there are
\* groups (client.py 978-986).
THEOREM TreeTyped == TreeSpec => []TreeTypeOK
<1>1. TreeInv => TreeTypeOK
  BY DEF TreeInv
<1> QED
  BY <1>1, TreeInvHolds, PTL

-----------------------------------------------------------------------------
(* All reads together. *)

\* A collection and a listing page through the same account: each invariant holds
\* while its own read runs, and the account and the other's variables keep theirs.
ReadsInv ==
    /\ AccountInv /\ ClientTyped /\ agreed \in BOOLEAN /\ ListTypeOK
    /\ command = "fleet" => FleetInv
    /\ command = "list" => ListInv
    /\ EvidenceInv /\ DdnsInv /\ TreeInv /\ ScanInv

\* The tree that stands still is one.
LEMMA RootStandsAlone == RootAlone \in Trees
<1>1. 1 \in 1..MaxNodes /\ 1..1 = {1}
  BY TreeAssumption
<1>2. RootAlone.parent \in [1..1 -> 0..0] /\ RootAlone.id \in [1..1 -> GroupIds \cup {NoId}]
  BY <1>1 DEF RootAlone
<1>3. RootAlone.parent \in Shapes(1)
  <2>1. \A n \in 1..1 : RootAlone.parent[n] = 0 /\ n = 1
    BY <1>1 DEF RootAlone
  <2> QED BY <1>2, <2>1 DEF Shapes
<1>4. RootAlone \in TreesOf(1)
  BY <1>2, <1>3 DEF RootAlone, TreesOf
<1> QED
  BY <1>1, <1>4 DEF Trees

LEMMA ReadsStart == ASSUME MCInit PROVE ReadsInv
<1>1. FleetInv /\ ListInv /\ EvidenceInv /\ DdnsInv /\ ScanInv
  BY FleetInitInv, ListInitInv, EvidenceInitInv, DdnsInitInv, ScanInitInv DEF MCInit
<1>2. TreeInv
  BY RootStandsAlone, TreeStarts DEF MCInit, TreeInit
<1> QED
  BY <1>1, <1>2 DEF ReadsInv, FleetInv, ListInv

\* The types of a listing that stands still follow the account's.
LEMMA ListStill ==
    ASSUME ListTypeOK, CloudTypeOK', UNCHANGED listClient
    PROVE  ListTypeOK'
BY DEF ListTypeOK, listClient

\* A step of one of the reads keeps all.
LEMMA ReadsStep == ASSUME ReadsInv, [MCNext]_everything PROVE ReadsInv'
<1>1. /\ FleetInv /\ [Next]_vars => FleetInv'
      /\ EvidenceInv /\ [EvidenceNext]_evidenceVars => EvidenceInv'
      /\ DdnsInv /\ [DdnsNext]_ddnsVars => DdnsInv'
      /\ TreeInv /\ [TreeNext]_treeVars => TreeInv'
      /\ ScanInv /\ [ScanNext]_scanVars => ScanInv'
      /\ ListInv /\ [ListNext]_listVars => ListInv'
  BY FleetStepKeeps, EvidenceStepKeeps, DdnsStepKeeps, TreeSteps, ScanStepKeeps, ListStepKeeps
<1>2. UNCHANGED <<cloud, client>> => UNCHANGED vars
  BY DEF vars
<1>3. UNCHANGED <<cloud, listClient>> => UNCHANGED listVars
  BY DEF listVars
<1>4. /\ [EvidenceNext]_evidenceVars /\ [DdnsNext]_ddnsVars /\ [TreeNext]_treeVars
      /\ [ScanNext]_scanVars
  BY DEF MCNext, everything, ScanNext
<1>5. command' = command
  BY DEF MCNext, everything
<1>6. CASE [Next]_vars /\ command = "fleet" /\ UNCHANGED listClient
  <2>1. FleetInv'
    BY <1>1, <1>6 DEF ReadsInv
  <2>2. ListTypeOK'
    BY <1>6, <2>1, ListStill DEF ReadsInv, FleetInv, AccountInv
  <2> QED
    BY <1>1, <1>4, <1>5, <1>6, <2>1, <2>2 DEF ReadsInv, FleetInv
<1>7. CASE [ListNext]_listVars /\ command = "list" /\ UNCHANGED client
  <2>1. ListInv'
    BY <1>1, <1>7 DEF ReadsInv
  <2>2. ClientTyped' /\ agreed' \in BOOLEAN
    BY <1>7, ClientStill DEF ReadsInv, client
  <2> QED
    BY <1>1, <1>4, <1>5, <1>7, <2>1, <2>2 DEF ReadsInv, ListInv
<1>8. CASE UNCHANGED <<cloud, client, listClient>>
  <2>1. AccountInv' /\ ClientTyped' /\ agreed' \in BOOLEAN
    BY <1>8, CloudStill, ClientStill DEF ReadsInv, client
  <2>2. ListTypeOK'
    BY <1>8, <2>1, ListStill DEF ReadsInv, AccountInv
  <2> QED
    BY <1>1, <1>2, <1>3, <1>4, <1>5, <1>8, <2>1, <2>2 DEF ReadsInv
<1> QED
  BY <1>6, <1>7, <1>8 DEF MCNext, everything

\* Whichever read runs, every variable of every read keeps its type: no listing
\* passes its page limit, no record is told twice (client.py 556-616, 670, 724, 953).
THEOREM ReadsTyped == MCSpec => []ReadsTypeOK
<1>1. MCInit => ReadsInv
  BY ReadsStart
<1>2. ReadsInv /\ [MCNext]_everything => ReadsInv'
  BY ReadsStep
<1>3. ReadsInv => ReadsTypeOK
  <2> SUFFICES ASSUME ReadsInv PROVE ReadsTypeOK
    OBVIOUS
  <2>1. TypeOK
    BY DEF ReadsInv, AccountInv, ClientTyped, TypeOK
  <2>2. EvidenceTypeOK /\ DdnsTypeOK /\ TreeTypeOK /\ ScanTypeOK
    BY DEF ReadsInv, TreeInv, DdnsInv, EvidenceInv, EvidenceTyped, ScanInv, ScanTypeOK,
           CatalogInv, Clocked, CountsKept, JudgedWhole, Queued
  <2> QED
    BY <2>1, <2>2 DEF ReadsInv, ReadsTypeOK
<1> QED
  BY <1>1, <1>2, <1>3, PTL DEF MCSpec
=============================================================================
