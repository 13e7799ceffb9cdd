--------------------------- MODULE PolicyEditProofs ---------------------------
(***************************************************************************)
(* Proofs about the editors of one shared policy: CloudRoutes, the routes  *)
(* of the WireGuard policies of the cloud; WanPrimary, the master line of  *)
(* a gateway; SiteControl, the applications of an application-control     *)
(* policy.  Each reads, compares and writes back the whole, while others  *)
(* edit it; the proofs hold for any number of policies, lines, saves under *)
(* way and other editors.  At the end, the types of all changes together.  *)
(***************************************************************************)
EXTENDS MCChanges, HubPolicyProofs, SitePoliciesProofs, TLAPS

-----------------------------------------------------------------------------
(* The routes of policies. *)

\* A post whose row has been left alone since it was read changes the routes
\* of one row, or hides its preshared key, and no other row has its identity.
Current(p, rs) ==
    p.kind = "update" /\ p.clean =>
        \E r \in rs : /\ p.row = Rerouted(r, p.row) /\ p.row.psk \in {r.psk, "masked"}
                      /\ \A s \in rs : s.uuid = p.row.uuid => s = r

\* What holds of a post wherever it waits.
PostKept(p, rs) == p \in Post /\ p.row.key = "full" /\ Current(p, rs)

\* What waits to be sent or applied, and the rows themselves.
PostsKept ==
    /\ rows \subseteq Row /\ KeyMaterialSurvives
    /\ posted \in Seq(Post) /\ \A i \in DOMAIN posted : PostKept(posted[i], rows)
    /\ outgoing # NoCall => PostKept(outgoing, rows)

\* What the control states need.
RoutesTyped ==
    /\ job \in Job \cup {NoCall}
    /\ snapshot \subseteq Dto
    /\ at \in {"raw", "post"} => job # NoCall
    /\ at = "post" => outgoing # NoCall

RoutesInv == PostsKept /\ RoutesTyped

-----------------------------------------------------------------------------
(* Posts. *)

LEMMA RowRoutes ==
    ASSUME NEW r \in Row, NEW nets \in SUBSET Nets
    PROVE  /\ [r EXCEPT !.routes = nets] \in Row
           /\ [r EXCEPT !.routes = nets].uuid = r.uuid
           /\ [r EXCEPT !.routes = nets].key = r.key
           /\ [r EXCEPT !.routes = nets].routes = nets
BY DEF Row

LEMMA SameIdentity ==
    ASSUME NEW r \in Row, NEW q \in Row, q = Rerouted(r, q)
    PROVE  r.uuid = q.uuid
<1>1. Rerouted(r, q).uuid = r.uuid
  BY DEF Row, Rerouted
<1> QED
  BY <1>1

LEMMA SpoilKeeps ==
    ASSUME NEW p \in Post, NEW u
    PROVE  /\ Spoil(p, u) \in Post
           /\ Spoil(p, u).row = p.row /\ Spoil(p, u).kind = p.kind
           /\ p.row.uuid = u => ~Spoil(p, u).clean
           /\ p.row.uuid # u => Spoil(p, u) = p
BY DEF Spoil, Post

\* Rows of other identities are as they were, so a post that is still clean
\* is still current.
LEMMA SpoiledCurrent ==
    ASSUME NEW rs \in SUBSET Row, NEW next, NEW u, NEW p, PostKept(p, rs),
           \A r : r.uuid # u => (r \in rs <=> r \in next)
    PROVE  PostKept(Spoil(p, u), next)
<1>1. p \in Post /\ p.row.key = "full" /\ Current(p, rs) /\ p.row \in Row
  BY DEF PostKept, Post
<1>2. /\ Spoil(p, u) \in Post /\ Spoil(p, u).row = p.row /\ Spoil(p, u).kind = p.kind
      /\ p.row.uuid = u => ~Spoil(p, u).clean
      /\ p.row.uuid # u => Spoil(p, u) = p
  BY <1>1, SpoilKeeps
<1>3. CASE p.row.uuid = u
  BY <1>1, <1>2, <1>3 DEF PostKept, Current
<1>4. CASE p.row.uuid # u
  <2>1. ASSUME p.kind = "update", p.clean
        PROVE  \E r \in next : /\ p.row = Rerouted(r, p.row) /\ p.row.psk \in {r.psk, "masked"}
                               /\ \A s \in next : s.uuid = p.row.uuid => s = r
    <3>1. PICK r \in rs : /\ p.row = Rerouted(r, p.row) /\ p.row.psk \in {r.psk, "masked"}
                          /\ \A s \in rs : s.uuid = p.row.uuid => s = r
      BY <1>1, <2>1 DEF Current
    <3>2. r.uuid = p.row.uuid
      BY <1>1, <3>1, SameIdentity
    <3> QED
      BY <1>4, <3>1, <3>2
  <2> QED
    BY <1>1, <1>2, <1>4, <2>1 DEF PostKept, Current
<1> QED
  BY <1>3, <1>4

\* Posts and the row on its way out survive a change of the rows of one identity.
LEMMA ChangedKeeps ==
    ASSUME PostsKept, NEW u, NEW rest \in Seq(Post), \A i \in DOMAIN rest : PostKept(rest[i], rows),
           Changed(rest, u),
           \A r : r.uuid # u => (r \in rows <=> r \in rows')
    PROVE  /\ posted' \in Seq(Post) /\ \A i \in DOMAIN posted' : PostKept(posted'[i], rows')
           /\ outgoing' # NoCall => PostKept(outgoing', rows')
           /\ outgoing' # NoCall <=> outgoing # NoCall
<1>1. rows \in SUBSET Row
  BY DEF PostsKept
<1>2. \A i \in DOMAIN rest : Spoil(rest[i], u) \in Post
  BY SpoilKeeps DEF PostKept
<1>3. posted' = [i \in DOMAIN rest |-> Spoil(rest[i], u)]
  BY DEF Changed
<1>4. posted' \in Seq(Post) /\ DOMAIN posted' = DOMAIN rest
  <2>1. DOMAIN rest = 1..Len(rest) /\ Len(rest) \in Nat
    OBVIOUS
  <2> QED
    BY <1>2, <1>3, <2>1
<1>5. ASSUME NEW i \in DOMAIN rest PROVE PostKept(posted'[i], rows')
  <2>1. PostKept(Spoil(rest[i], u), rows')
    BY <1>1, SpoiledCurrent
  <2> QED
    BY <1>3, <2>1
<1>6. CASE outgoing = NoCall
  BY <1>4, <1>5, <1>6 DEF Changed
<1>7. CASE outgoing # NoCall
  <2>1. outgoing' = Spoil(outgoing, u) /\ PostKept(outgoing, rows)
    BY <1>7 DEF Changed, PostsKept
  <2>2. PostKept(Spoil(outgoing, u), rows') /\ Spoil(outgoing, u) \in Post
    BY <1>1, <2>1, SpoiledCurrent DEF PostKept
  <2> QED
    BY <1>4, <1>5, <1>7, <2>1, <2>2, RoutesAssumption
<1> QED
  BY <1>6, <1>7

\* Nothing waits that did not, and the rows are the same.
LEMMA QuietKeeps ==
    ASSUME PostsKept, rows' = rows, posted' = posted, outgoing' \in {outgoing, NoCall}
    PROVE  PostsKept'
BY DEF PostsKept, KeyMaterialSurvives

-----------------------------------------------------------------------------
(* The routes of policies: the steps. *)

LEMMA RoutesInitInv == RoutesInit => RoutesInv
BY RoutesAssumption DEF RoutesInit, RoutesInv, PostsKept, RoutesTyped, KeyMaterialSurvives

LEMMA EndsKeepRoutes ==
    ASSUME RoutesInv, NEW how, Ends(how), snapshot' \subseteq Dto
    PROVE  RoutesInv'
<1>1. PostsKept'
  BY QuietKeeps DEF Ends, RoutesInv
<1> QED
  BY <1>1 DEF Ends, RoutesInv, RoutesTyped

LEMMA RaisesKeepsRoutes ==
    ASSUME RoutesInv, Raises
    PROVE  RoutesInv'
BY EndsKeepRoutes DEF Raises, RoutesInv, RoutesTyped

LEMMA GoesKeepsRoutes ==
    ASSUME RoutesInv, NEW s \in {"info", "raw"}, Goes(s), s = "raw" => job # NoCall
    PROVE  RoutesInv'
<1>1. PostsKept'
  BY QuietKeeps DEF Goes, RoutesInv
<1> QED
  BY <1>1 DEF Goes, RoutesInv, RoutesTyped

LEMMA CallsKeepRoutes ==
    ASSUME RoutesInv,
           \/ Refresh
           \/ \E e \in snapshot, nets \in SUBSET Nets : Update(e, nets)
    PROVE  RoutesInv'
<1>1. CASE Refresh
  <2>1. PostsKept'
    BY <1>1, QuietKeeps DEF Refresh, RoutesInv
  <2> QED
    BY <1>1, <2>1 DEF Refresh, RoutesInv, RoutesTyped
<1>2. ASSUME NEW e \in snapshot, NEW nets \in SUBSET Nets, Update(e, nets)
      PROVE  RoutesInv'
  <2>1. CASE Raises
    BY <2>1, RaisesKeepsRoutes
  <2>2. CASE /\ at' = "devices" /\ job' = [expected |-> e, routes |-> nets]
             /\ UNCHANGED <<rows, posted, snapshot, outgoing>>
    <3>1. PostsKept'
      BY <2>2, QuietKeeps DEF RoutesInv
    <3>2. job' \in Job
      BY <2>2 DEF RoutesInv, RoutesTyped, Job
    <3> QED
      BY <2>2, <3>1, <3>2 DEF RoutesInv, RoutesTyped
  <2> QED
    BY <1>2, <2>1, <2>2 DEF Update
<1> QED
  BY <1>1, <1>2

LEMMA ReadsKeepRoutes ==
    ASSUME RoutesInv,
           \/ RoutesReadFails
           \/ \E asked \in SUBSET Gateways : CheckGateway(asked)
    PROVE  RoutesInv'
<1>1. CASE RoutesReadFails
  BY <1>1, RaisesKeepsRoutes DEF RoutesReadFails
<1>2. ASSUME NEW asked \in SUBSET Gateways, CheckGateway(asked) PROVE RoutesInv'
  BY <1>2, RaisesKeepsRoutes, GoesKeepsRoutes DEF CheckGateway
<1> QED
  BY <1>1, <1>2

\* A row as it is shown is a row: its own, but for what is hidden.
LEMMA ShownTyped ==
    ASSUME NEW r \in Row, NEW hidden
    PROVE  /\ Shown(r, hidden) \in Row
           /\ Shown(r, hidden).uuid = r.uuid /\ Shown(r, hidden).conf = r.conf
           /\ Shown(r, hidden).psk \in {r.psk, "masked"}
BY DEF Row, Secret, Shown

LEMMA PoliciesKeep ==
    ASSUME RoutesInv, NEW hidden \in SUBSET {"key", "psk"}, ReadPolicies(hidden)
    PROVE  RoutesInv'
<1> DEFINE clients == {r \in rows : r.client}
           policies == {DtoOf(Shown(r, hidden)) : r \in clients}
<1>1. \/ ~Readable(clients) /\ Raises
      \/ Readable(clients) /\ job = NoCall /\ Ends("ok") /\ snapshot' = policies
      \/ job # NoCall /\ Goes("raw")
      \/ Raises
  BY DEF ReadPolicies
<1>2. Readable(clients) => policies \subseteq Dto
  <2>1. \A r \in clients : Shown(r, hidden) \in Row /\ Shown(r, hidden).conf = r.conf
    BY ShownTyped DEF RoutesInv, PostsKept
  <2>2. \A r \in Row : r.conf # Incomplete => DtoOf(r) \in Dto
    BY DEF Row, DtoOf, Dto
  <2> QED
    BY <2>1, <2>2 DEF Readable
<1> QED
  BY <1>1, <1>2, RaisesKeepsRoutes, EndsKeepRoutes, GoesKeepsRoutes

\* What an update posts of a row that is shown with its private key is that row,
\* with other routes and perhaps without its preshared key.
LEMMA PayloadUpdates ==
    ASSUME NEW r \in Row, NEW hidden, r.key = "full", Shown(r, hidden).key = "full",
           job.routes \in SUBSET Nets
    PROVE  LET sent == Payload(Shown(r, hidden))
           IN  /\ sent \in Row /\ sent.key = "full" /\ sent.uuid = r.uuid
               /\ sent = Rerouted(r, sent) /\ sent.psk \in {r.psk, "masked"}
<1> DEFINE asShown == Shown(r, hidden)
           sent == Payload(asShown)
<1>1. asShown \in Row /\ asShown.uuid = r.uuid /\ asShown.psk \in {r.psk, "masked"}
  BY ShownTyped
<1>2. asShown = [r EXCEPT !.psk = asShown.psk]
  BY DEF Row, Shown
<1> HIDE DEF asShown
<1>3. /\ sent \in Row /\ sent.key = asShown.key /\ sent.uuid = asShown.uuid
      /\ sent.routes = job.routes /\ sent.psk = asShown.psk
  BY <1>1 DEF Row, Payload
<1>4. sent = [r EXCEPT !.routes = job.routes, !.psk = asShown.psk]
  BY <1>2 DEF Row, Payload
<1>5. sent = Rerouted(r, sent)
  BY <1>3, <1>4 DEF Rerouted
<1> QED
  BY <1>1, <1>3, <1>5 DEF asShown

\* The row that an update will post is the raw row with other routes, and was
\* shown with its private key: a masked one ends the call.
LEMMA RawKeeps ==
    ASSUME RoutesInv, NEW hidden \in SUBSET {"key", "psk"}, ReadRaw(hidden)
    PROVE  RoutesInv'
<1> DEFINE matching == {r \in rows : r.uuid = job.expected.uuid}
<1>1. CASE Raises
  BY <1>1, RaisesKeepsRoutes
<1>2. CASE Ends("ok") /\ UNCHANGED snapshot
  BY <1>2, EndsKeepRoutes DEF RoutesInv, RoutesTyped
<1>3. ASSUME NEW r \in matching, matching = {r}, Usable(Shown(r, hidden)),
             outgoing' = [kind |-> "update", row |-> Payload(Shown(r, hidden)),
                          expected |-> job.expected, clean |-> TRUE],
             at' = "post", UNCHANGED <<rows, posted, job, snapshot, routesEnd>>
      PROVE  RoutesInv'
  <2> DEFINE sent == Payload(Shown(r, hidden))
  <2>1. job \in Job /\ job.routes \in SUBSET Nets /\ job.expected \in Dto
    BY DEF ReadRaw, RoutesInv, RoutesTyped, Job
  <2>2. r \in Row /\ r \in rows /\ r.key = "full" /\ Shown(r, hidden).key = "full"
    BY <1>3 DEF Usable, RoutesInv, PostsKept, KeyMaterialSurvives
  <2>3. /\ sent \in Row /\ sent.key = "full" /\ sent.uuid = r.uuid
        /\ sent = Rerouted(r, sent) /\ sent.psk \in {r.psk, "masked"}
    BY <2>1, <2>2, PayloadUpdates
  <2>4. \A s \in rows : s.uuid = sent.uuid => s = r
    BY <1>3, <2>3
  <2> HIDE DEF sent
  <2>5. outgoing' = [kind |-> "update", row |-> sent, expected |-> job.expected, clean |-> TRUE]
    BY <1>3 DEF sent
  <2>6. outgoing' \in Post /\ outgoing'.row = sent
    BY <2>1, <2>3, <2>5 DEF Post
  <2>7. PostKept(outgoing', rows)
    BY <2>2, <2>3, <2>4, <2>6 DEF PostKept, Current
  <2>8. outgoing' # NoCall
    BY <2>6, RoutesAssumption
  <2>9. PostsKept'
    BY <1>3, <2>7 DEF RoutesInv, PostsKept, KeyMaterialSurvives
  <2> QED
    BY <1>3, <2>1, <2>8, <2>9, RoutesAssumption DEF RoutesInv, RoutesTyped
<1> QED
  BY <1>1, <1>2, <1>3 DEF ReadRaw

LEMMA SendsKeepRoutes ==
    ASSUME RoutesInv, NEW post, PostKept(post, rows), Sends(post)
    PROVE  RoutesInv'
<1>1. CASE posted' = Append(posted, post)
  <2>1. posted \in Seq(Post) /\ post \in Post /\ Len(posted) \in Nat
    BY DEF RoutesInv, PostsKept, PostKept
  <2>2. /\ posted' \in Seq(Post) /\ DOMAIN posted' = 1..(Len(posted) + 1)
        /\ DOMAIN posted = 1..Len(posted)
        /\ \A i \in 1..Len(posted) : posted'[i] = posted[i]
        /\ posted'[Len(posted) + 1] = post
    BY <1>1, <2>1
  <2>3. \A i \in DOMAIN posted' : PostKept(posted'[i], rows)
    BY <2>1, <2>2 DEF RoutesInv, PostsKept
  <2>4. PostsKept'
    BY <2>2, <2>3 DEF Sends, RoutesInv, PostsKept, KeyMaterialSurvives
  <2> QED
    BY <2>4 DEF Sends, RoutesInv, RoutesTyped
<1>2. CASE UNCHANGED posted
  <2>1. PostsKept'
    BY <1>2, QuietKeeps DEF Sends, RoutesInv
  <2> QED
    BY <1>2, <2>1 DEF Sends, RoutesInv, RoutesTyped
<1> QED
  BY <1>1, <1>2 DEF Sends

LEMMA PostsKeep ==
    ASSUME RoutesInv,
           \/ PostUpdate
           \/ \E kind \in {"add", "delete"}, r \in OtherRows : PostDirectly(kind, r)
    PROVE  RoutesInv'
<1>1. CASE PostUpdate
  BY <1>1, SendsKeepRoutes DEF PostUpdate, RoutesInv, PostsKept, RoutesTyped
<1>2. ASSUME NEW kind \in {"add", "delete"}, NEW r \in OtherRows, PostDirectly(kind, r)
      PROVE  RoutesInv'
  <2> DEFINE post == [kind |-> kind, row |-> r, expected |-> NoCall, clean |-> FALSE]
  <2>1. PostKept(post, rows)
    BY RoutesAssumption DEF PostKept, Current, Post
  <2> QED
    BY <1>2, <2>1, SendsKeepRoutes DEF PostDirectly
<1> QED
  BY <1>1, <1>2

\* What a post leaves of the rows: typed, with keys, and of other identities
\* just what was there.
LEMMA AfterKeeps ==
    ASSUME PostsKept, NEW post, PostKept(post, rows)
    PROVE  /\ After(post) \subseteq Row /\ \A r \in After(post) : r.key = "full"
           /\ \A r : r.uuid # post.row.uuid => (r \in rows <=> r \in After(post))
<1>1. /\ post.row \in Row /\ post.row.key = "full" /\ post.kind \in {"update", "add", "delete"}
      /\ rows \subseteq Row /\ \A r \in rows : r.key = "full"
  BY DEF PostsKept, KeyMaterialSurvives, PostKept, Post
<1>2. CASE post.kind = "update"
  BY <1>1, <1>2 DEF After
<1>3. CASE post.kind = "add"
  BY <1>1, <1>3 DEF After
<1>4. CASE post.kind = "delete"
  BY <1>1, <1>4 DEF After
<1> QED
  BY <1>1, <1>2, <1>3, <1>4

\* The posts behind the first one.
LEMMA TailKept ==
    ASSUME PostsKept, posted # <<>>
    PROVE  /\ Head(posted) = posted[1] /\ PostKept(posted[1], rows)
           /\ Tail(posted) \in Seq(Post) /\ Len(Tail(posted)) = Len(posted) - 1
           /\ \A i \in DOMAIN Tail(posted) : PostKept(Tail(posted)[i], rows)
<1>1. posted \in Seq(Post) /\ \A i \in DOMAIN posted : PostKept(posted[i], rows)
  BY DEF PostsKept
<1>2. 1 \in DOMAIN posted /\ Head(posted) = posted[1]
  BY <1>1
<1>3. /\ Tail(posted) \in Seq(Post) /\ Len(Tail(posted)) = Len(posted) - 1
      /\ \A i \in DOMAIN Tail(posted) : i + 1 \in DOMAIN posted /\ Tail(posted)[i] = posted[i + 1]
  BY <1>1
<1> QED
  BY <1>1, <1>2, <1>3

LEMMA CloudKeeps ==
    ASSUME RoutesInv, CloudApplies \/ CloudDrops
    PROVE  RoutesInv'
<1>1. CASE CloudApplies
  <2>1. /\ posted # <<>> /\ rows' = After(Head(posted))
        /\ Changed(Tail(posted), Head(posted).row.uuid)
        /\ UNCHANGED <<at, job, snapshot, routesEnd>>
    BY <1>1 DEF CloudApplies
  <2>2. /\ rows' \subseteq Row /\ \A r \in rows' : r.key = "full"
        /\ \A r : r.uuid # Head(posted).row.uuid => (r \in rows <=> r \in rows')
    BY <2>1, TailKept, AfterKeeps DEF RoutesInv
  <2>3. /\ posted' \in Seq(Post) /\ \A i \in DOMAIN posted' : PostKept(posted'[i], rows')
        /\ outgoing' # NoCall => PostKept(outgoing', rows')
        /\ outgoing' # NoCall <=> outgoing # NoCall
    BY <2>1, <2>2, TailKept, ChangedKeeps DEF RoutesInv
  <2> QED
    BY <2>1, <2>2, <2>3 DEF RoutesInv, PostsKept, KeyMaterialSurvives, RoutesTyped
<1>2. CASE CloudDrops
  <2>1. /\ posted' = Tail(posted) /\ posted # <<>>
        /\ UNCHANGED <<rows, at, job, snapshot, outgoing, routesEnd>>
    BY <1>2 DEF CloudDrops
  <2>2. posted' \in Seq(Post) /\ \A i \in DOMAIN posted' : PostKept(posted'[i], rows)
    BY <2>1, TailKept DEF RoutesInv
  <2> QED
    BY <2>1, <2>2 DEF RoutesInv, PostsKept, KeyMaterialSurvives, RoutesTyped
<1> QED
  BY <1>1, <1>2

LEMMA OthersKeepRoutes ==
    ASSUME RoutesInv, NEW r \in OtherRows, OthersEdit(r)
    PROVE  RoutesInv'
<1>1. r \in Row /\ r.key = "full" /\ rows \subseteq Row /\ \A s \in rows : s.key = "full"
  BY RoutesAssumption DEF RoutesInv, PostsKept, KeyMaterialSurvives
<1>2. /\ rows' \subseteq Row /\ \A s \in rows' : s.key = "full"
      /\ \A s : s.uuid # r.uuid => (s \in rows <=> s \in rows')
  BY <1>1 DEF OthersEdit
<1>3. Changed(posted, r.uuid) /\ UNCHANGED <<at, job, snapshot, routesEnd>>
  BY DEF OthersEdit
<1>4. /\ posted' \in Seq(Post) /\ \A i \in DOMAIN posted' : PostKept(posted'[i], rows')
      /\ outgoing' # NoCall => PostKept(outgoing', rows')
      /\ outgoing' # NoCall <=> outgoing # NoCall
  BY <1>2, <1>3, ChangedKeeps DEF RoutesInv, PostsKept
<1> QED
  BY <1>2, <1>3, <1>4 DEF RoutesInv, PostsKept, KeyMaterialSurvives, RoutesTyped

LEMMA RoutesStepKeeps == RoutesInv /\ [RoutesNext]_routesVars => RoutesInv'
<1> SUFFICES ASSUME RoutesInv, [RoutesNext]_routesVars PROVE RoutesInv'
  OBVIOUS
<1>1. CASE UNCHANGED routesVars
  BY <1>1 DEF routesVars, RoutesInv, PostsKept, RoutesTyped, KeyMaterialSurvives
<1>2. ASSUME NEW hidden \in SUBSET {"key", "psk"}, ReadPolicies(hidden) \/ ReadRaw(hidden)
      PROVE  RoutesInv'
  BY <1>2, PoliciesKeep, RawKeeps
<1>3. ASSUME NEW r \in OtherRows, OthersEdit(r) PROVE RoutesInv'
  BY <1>3, OthersKeepRoutes
<1> QED
  BY <1>1, <1>2, <1>3, CallsKeepRoutes, ReadsKeepRoutes, PostsKeep, CloudKeeps DEF RoutesNext

LEMMA RoutesInvHolds == RoutesSpec => []RoutesInv
BY RoutesInitInv, RoutesStepKeeps, PTL DEF RoutesSpec

-----------------------------------------------------------------------------
(* The routes of policies: the theorems. *)

\* No call destroys a private key: rows are written with the private key they
\* were read with, or not at all (client.py 870-872).
THEOREM KeysSurvive == RoutesSpec => []KeyMaterialSurvives
<1>1. RoutesInv => KeyMaterialSurvives
  BY DEF RoutesInv, PostsKept
<1> QED
  BY <1>1, RoutesInvHolds, PTL

\* The steps that shorten the posts and change the rows apply the first post.
LEMMA OnlyApplied ==
    ASSUME RoutesInv, RoutesNext, rows' # rows, Len(posted') < Len(posted)
    PROVE  CloudApplies
<1>1. posted \in Seq(Post) /\ Len(posted) \in Nat /\ DOMAIN posted = 1..Len(posted)
  BY DEF RoutesInv, PostsKept
<1>2. ASSUME NEW r \in OtherRows, OthersEdit(r) PROVE FALSE
  <2>1. posted' = [i \in DOMAIN posted |-> Spoil(posted[i], r.uuid)]
    BY <1>2 DEF OthersEdit, Changed
  <2>2. Len(posted') = Len(posted)
    BY <1>1, <2>1
  <2> QED
    BY <1>1, <2>2
<1> QED
  BY <1>2
     DEF RoutesNext, Refresh, Update, RoutesReadFails, PostUpdate, CheckGateway, ReadPolicies,
         ReadRaw, PostDirectly, Sends, CloudDrops, Raises, Ends, Goes

LEMMA UpdateUndisturbed ==
    ASSUME RoutesInv, [RoutesNext]_routesVars, NEW p \in {posted[i] : i \in DOMAIN posted \cap {1}},
           p.kind = "update", p.clean, rows' # rows, Len(posted') < Len(posted)
    PROVE  \E r \in rows : /\ rows' = (rows \ {r}) \cup {Rerouted(r, p.row)}
                           /\ p.row.psk \in {r.psk, "masked"}
<1>1. CloudApplies
  BY OnlyApplied DEF routesVars
<1>2. p = posted[1] /\ posted # <<>> /\ p = Head(posted) /\ PostKept(p, rows)
  BY <1>1, TailKept DEF CloudApplies, RoutesInv
<1>3. PICK r \in rows : /\ p.row = Rerouted(r, p.row) /\ p.row.psk \in {r.psk, "masked"}
                        /\ \A s \in rows : s.uuid = p.row.uuid => s = r
  BY <1>2 DEF PostKept, Current
<1>4. r.uuid = p.row.uuid
  <2>1. r \in Row /\ p.row \in Row
    BY <1>2 DEF RoutesInv, PostsKept, PostKept, Post
  <2> QED
    BY <1>3, <2>1, SameIdentity
<1>5. {s \in rows : s.uuid # p.row.uuid} = rows \ {r}
  BY <1>3, <1>4
<1>6. rows' = (rows \ {r}) \cup {p.row}
  BY <1>1, <1>2, <1>5 DEF CloudApplies, After
<1> QED
  BY <1>3, <1>6

\* An update of a row that was left alone since it was read changes its routes
\* and nothing else, but for a preshared key that the read hid, whatever waited
\* before it (client.py 849-850).
THEOREM UpdatesChangeRoutesOnly == RoutesSpec => UndisturbedUpdates
<1>1. RoutesInv /\ [RoutesNext]_routesVars =>
        [\A p \in {posted[i] : i \in DOMAIN posted \cap {1}} :
           p.kind = "update" /\ p.clean /\ posted' # posted /\ rows' # rows
             /\ Len(posted') < Len(posted)
           => \E r \in rows : /\ rows' = (rows \ {r}) \cup {Rerouted(r, p.row)}
                              /\ p.row.psk \in {r.psk, "masked"}
        ]_routesVars
  BY UpdateUndisturbed
<1> QED
  BY <1>1, RoutesInvHolds, PTL DEF RoutesSpec, UndisturbedUpdates

-----------------------------------------------------------------------------
(* The routes of policies: types.  Apart from what RoutesInv says. *)

\* The posts are as many as the cloud takes, and a row is on its way out in
\* the last step of an update only.
Waiting ==
    /\ Len(posted) <= MaxPosted
    /\ at \in {"idle", "devices", "info", "raw", "post"}
    /\ IF at = "post" THEN outgoing \in Post /\ outgoing.kind = "update" ELSE outgoing = NoCall
    /\ routesEnd \in {"none", "ok", "error"}

\* A change of rows elsewhere marks what waits and moves nothing.
LEMMA ChangedWaits ==
    ASSUME Waiting, NEW u, NEW rest \in Seq(Post), Len(rest) <= MaxPosted, Changed(rest, u),
           UNCHANGED <<at, routesEnd>>
    PROVE  Waiting'
<1>1. DOMAIN rest = 1..Len(rest) /\ Len(rest) \in Nat
  OBVIOUS
<1>2. Len(posted') = Len(rest)
  BY <1>1 DEF Changed
<1>3. at = "post" => outgoing' \in Post /\ outgoing'.kind = "update"
  BY SpoilKeeps, RoutesAssumption DEF Changed, Waiting
<1>4. at # "post" => outgoing' = NoCall
  BY DEF Changed, Waiting
<1> QED
  BY <1>2, <1>3, <1>4 DEF Waiting

LEMMA WaitingStep == RoutesInv /\ Waiting /\ [RoutesNext]_routesVars => Waiting'
<1> SUFFICES ASSUME RoutesInv, Waiting, [RoutesNext]_routesVars PROVE Waiting'
  OBVIOUS
<1>1. posted \in Seq(Post) /\ Len(posted) \in Nat /\ MaxPosted \in Nat
  BY RoutesAssumption DEF RoutesInv, PostsKept
<1>2. ASSUME NEW post, Sends(post) PROVE Waiting'
  <2>1. Len(posted) < MaxPosted /\ posted' = Append(posted, post) => Len(posted') <= MaxPosted
    BY <1>1
  <2> QED
    BY <1>2, <2>1 DEF Sends, Waiting
<1>3. ASSUME NEW hidden \in SUBSET {"key", "psk"}, ReadRaw(hidden) PROVE Waiting'
  <2>1. RoutesInv'
    BY <1>3, RawKeeps
  <2>2. \/ Raises \/ Ends("ok")
        \/ /\ outgoing'.kind = "update" /\ at' = "post"
           /\ UNCHANGED <<posted, routesEnd>>
    BY <1>3 DEF ReadRaw
  <2> QED
    BY <2>1, <2>2 DEF Raises, Ends, Waiting, RoutesInv, PostsKept, RoutesTyped, PostKept
<1>4. ASSUME NEW hidden \in SUBSET {"key", "psk"}, ReadPolicies(hidden) PROVE Waiting'
  <2>1. Raises \/ Ends("ok") \/ Goes("raw")
    BY <1>4 DEF ReadPolicies
  <2> QED
    BY <1>4, <2>1 DEF ReadPolicies, Raises, Ends, Goes, Waiting
<1>5. CASE CloudApplies \/ CloudDrops
  <2>1. posted # <<>> /\ Tail(posted) \in Seq(Post) /\ Len(Tail(posted)) <= MaxPosted
    BY <1>1, <1>5 DEF CloudApplies, CloudDrops, Waiting
  <2>2. CASE CloudApplies
    BY <2>1, <2>2, ChangedWaits DEF CloudApplies
  <2>3. CASE CloudDrops
    BY <2>1, <2>3 DEF CloudDrops, Waiting
  <2> QED
    BY <1>5, <2>2, <2>3
<1>6. ASSUME NEW r \in OtherRows, OthersEdit(r) PROVE Waiting'
  BY <1>1, <1>6, ChangedWaits DEF OthersEdit, Waiting
<1>7. ASSUME NEW kind \in {"add", "delete"}, NEW r \in OtherRows, PostDirectly(kind, r)
      PROVE  Waiting'
  BY <1>2, <1>7 DEF PostDirectly
<1>8. CASE Refresh \/ RoutesReadFails \/ \E asked \in SUBSET Gateways : CheckGateway(asked)
  BY <1>8 DEF Refresh, RoutesReadFails, CheckGateway, Raises, Ends, Goes, Waiting
<1>9. ASSUME NEW e \in snapshot, NEW nets \in SUBSET Nets, Update(e, nets) PROVE Waiting'
  BY <1>9 DEF Update, Raises, Ends, Waiting
<1>10. CASE UNCHANGED routesVars
  BY <1>10 DEF routesVars, Waiting
<1> QED
  BY <1>2, <1>3, <1>4, <1>5, <1>6, <1>7, <1>8, <1>9, <1>10 DEF RoutesNext, PostUpdate

\* Every variable of the routes keeps its type: in particular a row is on its
\* way out only between its second read and its post (client.py 861-877).
THEOREM RoutesTypesKept == RoutesSpec => []RoutesTypeOK
<1>1. RoutesInit => Waiting
  BY RoutesAssumption DEF RoutesInit, Waiting
<1>2. RoutesInv /\ Waiting => RoutesTypeOK
  BY DEF RoutesInv, PostsKept, RoutesTyped, Waiting, RoutesTypeOK
<1> QED
  BY <1>1, <1>2, RoutesInvHolds, WaitingStep, PTL DEF RoutesSpec

-----------------------------------------------------------------------------
(* The master line.  One master is kept because every copy of the policy has
   one: the gateway's, those it is yet to save, the payload. *)

\* The saves that were taken, the one to send and the policy in force each
\* have one master.
MasterCopies ==
    /\ OneMaster(wan)
    /\ \A i \in DOMAIN pushed : OneMaster(pushed[i])
    /\ payload # NoWan => OneMaster(payload)

\* What the gateway has during a call was noted.
Noted == wanStep # "idle" => wan \in shown

WanInv == WanTypeOK /\ MasterCopies /\ Noted /\ MasterWasSeen

-----------------------------------------------------------------------------
(* The swap. *)

LEMMA SwapTyped ==
    ASSUME NEW w \in Wan, NEW line \in Lines
    PROVE  Swap(w, line) \in Wan
<1>1. \A l \in Line : [l EXCEPT !.m = l.ifname = line] \in Line
  BY DEF Line
<1>2. {[l EXCEPT !.m = l.ifname = line] : l \in w.list} \in SUBSET Line
  BY <1>1 DEF Wan
<1> QED
  BY <1>2 DEF Swap, Wan

\* A swap to a line of the policy moves the master: names are unique, so the
\* line that gets the bit is one, and the others lose it.
LEMMA SwapKeepsOneMaster ==
    ASSUME NEW w \in Wan, OneMaster(w), NEW line \in Lines, Known(w, line)
    PROVE  OneMaster(Swap(w, line))
<1> DEFINE Moved(l) == [l EXCEPT !.m = l.ifname = line]
<1>1. Swap(w, line).list = {Moved(l) : l \in w.list} /\ w.list \subseteq Line
  BY DEF Swap, Wan
<1>2. \A l \in w.list : Moved(l).ifname = l.ifname /\ Moved(l).m = (l.ifname = line)
  BY <1>1 DEF Line
<1>3. \A k, l \in w.list : k.ifname = l.ifname => k = l
  BY DEF OneMaster
<1>4. PICK t \in w.list : t.ifname = line
  BY DEF Known
<1> HIDE DEF Moved
<1>5. Masters(Swap(w, line)) = {Moved(t)}
  <2>1. \A l \in w.list : Moved(l).m <=> l = t
    BY <1>2, <1>3, <1>4
  <2> QED
    BY <1>1, <1>4, <2>1 DEF Masters
<1>6. \A k, l \in Swap(w, line).list : k.ifname = l.ifname => k = l
  BY <1>1, <1>2, <1>3
<1> QED
  BY <1>1, <1>4, <1>5, <1>6 DEF OneMaster

\* A read that timed out shows a policy that has no line and no master.
LEMMA BlankIsBare ==
    ASSUME WanTypeOK
    PROVE  /\ Blank \in Wan /\ Masters(Blank) = {}
           /\ \A line \in Lines : ~HasMaster(Blank, line) /\ ~Known(Blank, line)
<1>1. wan.settings \in Settings
  BY DEF WanTypeOK, Wan
<1>2. Blank \in Wan
  BY <1>1 DEF Blank, Wan
<1> QED
  BY <1>2 DEF Blank, Masters, HasMaster, Known

-----------------------------------------------------------------------------
(* The master line: the steps. *)

LEMMA WanInitInv == WanInit => WanInv
BY WanAssumption DEF WanInit, WanInv, WanTypeOK, MasterCopies, Noted, MasterWasSeen

LEMMA WanCallKeeps ==
    ASSUME WanInv, NEW s \in {"read", "confirm"}, NEW line \in Lines, WanCall(s, line)
    PROVE  WanInv'
BY DEF WanCall, WanInv, WanTypeOK, MasterCopies, Noted, MasterWasSeen

\* The payload is built of the policy in force: a blank one names no line.
LEMMA MasterReadKeeps ==
    ASSUME WanInv, ReadMaster
    PROVE  WanInv'
<1>1. wan \in Wan /\ wan \in shown /\ primary \in Lines /\ OneMaster(wan)
  BY DEF ReadMaster, WanInv, WanTypeOK, MasterCopies, Noted
<1>2. /\ Blank \in Wan /\ Masters(Blank) = {} /\ ~Known(Blank, primary)
  BY <1>1, BlankIsBare DEF WanInv
<1>3. PICK current \in Answers :
         \/ HasMaster(current, primary) /\ WanEnds("ok", current)
         \/ ~HasMaster(current, primary) /\ ~Known(current, primary) /\ WanEnds("error", NoWan)
         \/ /\ ~HasMaster(current, primary) /\ Known(current, primary)
            /\ payload' = Swap(current, primary)
            /\ wanStep' = "write" /\ UNCHANGED <<wanEnd, wanResult>>
  BY DEF ReadMaster
<1>4. UNCHANGED <<wan, pushed, primary, shown>>
  BY DEF ReadMaster
<1>5. current \in Wan /\ (current = wan \/ current = Blank)
  BY <1>1, <1>2, <1>3 DEF Answers
<1>6. CASE WanEnds("ok", current)
  BY <1>1, <1>2, <1>4, <1>5, <1>6 DEF WanEnds, WanInv, WanTypeOK, MasterCopies, Noted, MasterWasSeen
<1>7. CASE WanEnds("error", NoWan)
  BY <1>4, <1>7 DEF WanEnds, WanInv, WanTypeOK, MasterCopies, Noted, MasterWasSeen
<1>8. CASE /\ Known(current, primary) /\ payload' = Swap(current, primary)
           /\ wanStep' = "write" /\ UNCHANGED <<wanEnd, wanResult>>
  <2>1. current = wan
    BY <1>2, <1>5, <1>8
  <2>2. payload' \in Wan /\ OneMaster(payload') /\ payload' # NoWan
    BY <1>1, <1>8, <2>1, SwapTyped, SwapKeepsOneMaster, WanAssumption
  <2> QED
    BY <1>1, <1>4, <1>8, <2>2 DEF WanInv, WanTypeOK, MasterCopies, Noted, MasterWasSeen
<1> QED
  BY <1>3, <1>6, <1>7, <1>8

LEMMA WanReadFailsKeeps ==
    ASSUME WanInv, WanReadFails
    PROVE  WanInv'
BY DEF WanReadFails, WanEnds, WanInv, WanTypeOK, MasterCopies, Noted, MasterWasSeen

LEMMA WanWriteKeeps ==
    ASSUME WanInv, WritePolicy
    PROVE  WanInv'
<1>1. /\ payload \in Wan /\ OneMaster(payload) /\ pushed \in Seq(Wan)
      /\ Len(pushed) <= MaxPushed /\ \A i \in DOMAIN pushed : OneMaster(pushed[i])
  BY DEF WritePolicy, WanInv, WanTypeOK, MasterCopies
<1>2. CASE Len(pushed) < MaxPushed /\ pushed' = Append(pushed, payload)
  <2>1. /\ pushed' \in Seq(Wan) /\ Len(pushed') = Len(pushed) + 1
        /\ \A i \in 1..Len(pushed) : pushed'[i] = pushed[i]
        /\ pushed'[Len(pushed) + 1] = payload
    BY <1>1, <1>2
  <2> QED
    BY <1>1, <1>2, <2>1, WanAssumption
       DEF WritePolicy, WanEnds, WanInv, WanTypeOK, MasterCopies, Noted, MasterWasSeen
<1>3. CASE UNCHANGED pushed
  BY <1>3 DEF WritePolicy, WanEnds, WanInv, WanTypeOK, MasterCopies, Noted, MasterWasSeen
<1> QED
  BY <1>2, <1>3 DEF WritePolicy

LEMMA WanConfirmKeeps ==
    ASSUME WanInv, ConfirmPolicy
    PROVE  WanInv'
<1>1. Blank \in Wan /\ Masters(Blank) = {} /\ wan \in Wan /\ wan \in shown
  BY BlankIsBare DEF ConfirmPolicy, WanInv, WanTypeOK, Noted
<1>2. PICK answer \in {wan, Blank} : WanEnds("ok", answer)
  BY DEF ConfirmPolicy, Confirmed, Answers
<1> QED
  BY <1>1, <1>2 DEF ConfirmPolicy, WanEnds, WanInv, WanTypeOK, MasterCopies, Noted, MasterWasSeen

LEMMA WanSavedKeeps ==
    ASSUME WanInv, NEW w \in Wan, OneMaster(w), Saved(w),
           pushed' \in Seq(Wan), Len(pushed') <= Len(pushed),
           \A i \in DOMAIN pushed' : OneMaster(pushed'[i])
    PROVE  WanInv'
<1>1. Len(pushed') \in Nat /\ Len(pushed) \in Nat /\ Len(pushed) <= MaxPushed /\ MaxPushed \in Nat
  BY WanAssumption DEF WanInv, WanTypeOK
<1>2. Len(pushed') <= MaxPushed
  BY <1>1
<1> QED
  BY <1>2 DEF Saved, WanInv, WanTypeOK, MasterCopies, Noted, MasterWasSeen

LEMMA GatewaySaveKeeps ==
    ASSUME WanInv, GatewaySaves
    PROVE  WanInv'
<1>1. pushed \in Seq(Wan) /\ pushed # <<>> /\ \A i \in DOMAIN pushed : OneMaster(pushed[i])
  BY DEF GatewaySaves, WanInv, WanTypeOK, MasterCopies
<1>2. Head(pushed) \in Wan /\ OneMaster(Head(pushed))
  BY <1>1
<1>3. /\ Tail(pushed) \in Seq(Wan) /\ Len(Tail(pushed)) = Len(pushed) - 1
      /\ \A i \in DOMAIN Tail(pushed) : Tail(pushed)[i] = pushed[i + 1] /\ i + 1 \in DOMAIN pushed
  BY <1>1
<1>4. Saved(Head(pushed)) /\ pushed' = Tail(pushed)
  BY DEF GatewaySaves
<1> QED
  BY <1>1, <1>2, <1>3, <1>4, WanSavedKeeps

LEMMA OthersKeepWan ==
    ASSUME WanInv, NEW w \in OtherWans, OthersSave(w)
    PROVE  WanInv'
<1>1. w \in Wan /\ OneMaster(w)
  BY WanAssumption
<1>2. pushed' = pushed /\ Saved(w) /\ pushed \in Seq(Wan) /\ Len(pushed) \in Nat
  BY DEF OthersSave, WanInv, WanTypeOK
<1> QED
  BY <1>1, <1>2, WanSavedKeeps DEF WanInv, MasterCopies

LEMMA WanStepKeeps == WanInv /\ [WanNext]_wanVars => WanInv'
<1> SUFFICES ASSUME WanInv, [WanNext]_wanVars PROVE WanInv'
  OBVIOUS
<1>1. ASSUME NEW s \in {"read", "confirm"}, NEW line \in Lines, WanCall(s, line)
      PROVE  WanInv'
  BY <1>1, WanCallKeeps
<1>2. ASSUME NEW w \in OtherWans, OthersSave(w) PROVE WanInv'
  BY <1>2, OthersKeepWan
<1>3. CASE UNCHANGED wanVars
  BY <1>3 DEF wanVars, WanInv, WanTypeOK, MasterCopies, Noted, MasterWasSeen
<1> QED
  BY <1>1, <1>2, <1>3, MasterReadKeeps, WanReadFailsKeeps, WanWriteKeeps, WanConfirmKeeps,
     GatewaySaveKeeps DEF WanNext

LEMMA WanInvHolds == WanSpec => []WanInv
BY WanInitInv, WanStepKeeps, PTL DEF WanSpec

-----------------------------------------------------------------------------
(* The master line: the theorems. *)

\* The gateway always has one master, whatever is read as blank, saved late or
\* saved by others meanwhile (wan_loadbalance.py 110-124).
THEOREM OneMasterStays == WanSpec => []AlwaysOneMaster
<1>1. WanInv => AlwaysOneMaster
  BY DEF WanInv, MasterCopies, AlwaysOneMaster
<1> QED
  BY <1>1, WanInvHolds, PTL

\* A policy that is returned with a master was in force during the call
\* (wan_loadbalance.py 135-146).
THEOREM ReturnedWasInForce == WanSpec => []MasterWasSeen
<1>1. WanInv => MasterWasSeen
  BY DEF WanInv
<1> QED
  BY <1>1, WanInvHolds, PTL

\* Every variable of the WAN policy keeps its type, the payload that is sent
\* included (wan_loadbalance.py 110-124).
THEOREM WanTyped == WanSpec => []WanTypeOK
<1>1. WanInv => WanTypeOK
  BY DEF WanInv
<1> QED
  BY <1>1, WanInvHolds, PTL

-----------------------------------------------------------------------------
(* Application control. *)

\* A plan takes something from the applications of the policy it was made of.
PlanMade ==
    plan # NoPlan => /\ plan.before = plan.rows[plan.id]
                     /\ plan.after.apps # plan.before.apps

\* The preview with the plan executed.
PlanDone == [plan.rows EXCEPT ![plan.id] = plan.after]

\* Past the first comparison apply holds the policies of the preview; past the
\* second, what the gateway had of the policy, in a plan that changes only its
\* applications.  The cloud is at the preview, unless the plan's own write came
\* late.
Compared ==
    /\ stage \in {"native", "write", "reread", "verify"} => read = plan.rows
    /\ stage \in {"native", "write"} /\ ~moved => cloud \in {plan.rows, PlanDone}
    /\ stage \in {"write", "reread", "verify"} => AppsOnly

OwnUnderWay == underway = PatchOf(plan)

\* As long as nobody else edits, the cloud has the preview, or the preview with
\* the plan executed.  Only the first gets past the comparison: apply is there
\* after an execution, or with its own write under way, only if that write was
\* under way at the comparison already.
Unwritten ==
    /\ written = 0 /\ cloud = plan.rows
    /\ stage \in {"idle", "drift", "native", "write"}
    /\ verdict.how # "report"
    /\ stage \in {"native", "write"} /\ OwnUnderWay => replayed

Executed ==
    /\ written \in {1, 2} /\ cloud = PlanDone
    /\ stage = "verify" => cloudOk
    /\ stage \in {"native", "write"} \/ written = 2 \/ OwnUnderWay => replayed

Accounted == alone /\ plan # NoPlan => Unwritten \/ Executed

\* What a report says stays so: the gateway has the policy as the cloud has it,
\* and there is nothing to deliver.
ReportHolds ==
    alone /\ verdict.how = "report" =>
        /\ stage = "idle" /\ plan # NoPlan /\ verdict.cloud
        /\ verdict.gateway =>
             /\ Delivered(plan.after, native[plan.id])
             /\ native[plan.id] = [before[plan.id] EXCEPT !.apps = plan.after.apps]

\* Without a plan nothing was written and nothing runs.
Fresh == plan = NoPlan => stage = "idle" /\ written = 0 /\ verdict.how = "none"

ControlInv ==
    ControlTypeOK /\ PlanMade /\ Compared /\ Accounted /\ ReportHolds /\ Fresh

-----------------------------------------------------------------------------
(* What the session and the rest leave alone. *)

LEMMA WebTyped ==
    ASSUME ControlTypeOK, LoginReturns \/ LoginRaises \/ SessionEnds \/ UNCHANGED webVars
    PROVE  authed' \in BOOLEAN /\ session' \in {"none", "live", "dead"}
BY DEF ControlTypeOK, LoginReturns, LoginRaises, SessionEnds, webVars

LEMMA VerdictFields ==
    ASSUME NEW how \in {"none", "error", "report"}, NEW c \in BOOLEAN, NEW g \in BOOLEAN
    PROVE  /\ Verdict(how, c, g)
                \in [how: {"none", "error", "report"}, cloud: BOOLEAN, gateway: BOOLEAN]
           /\ Verdict(how, c, g).how = how
           /\ Verdict(how, c, g).cloud = c /\ Verdict(how, c, g).gateway = g
BY DEF Verdict

LEMMA NothingTyped ==
    Nothing \in [Ids -> Policy \cup {Gone}] /\ Nothing \in [Ids -> Native \cup {Gone}]
BY DEF Nothing

LEMMA RefusesKeeps ==
    ASSUME ControlInv, Refuses, Stays, authed' \in BOOLEAN, session' \in {"none", "live", "dead"},
           plan # NoPlan
    PROVE  ControlInv'
<1>1. /\ verdict' \in [how: {"none", "error", "report"}, cloud: BOOLEAN, gateway: BOOLEAN]
      /\ verdict'.how = "error"
  BY VerdictFields DEF Refuses
<1>2. /\ UNCHANGED <<cloud, stamp, native, underway, plan, written, alone, replayed>>
      /\ stage' = "idle"
  BY DEF Refuses, Stays, world, past
<1>3. tries' \in 0..2 /\ written' \in 0..2
  BY <1>2 DEF ControlInv, ControlTypeOK, Refuses
<1>4. ControlTypeOK'
  BY <1>1, <1>2, <1>3, NothingTyped DEF ControlInv, ControlTypeOK, Refuses
<1>5. Accounted'
  BY <1>1, <1>2 DEF ControlInv, Accounted, Unwritten, Executed, PlanDone, OwnUnderWay, PatchOf
<1> QED
  BY <1>1, <1>2, <1>4, <1>5 DEF ControlInv, PlanMade, Compared, ReportHolds, Fresh

LEMMA ControlInitInv == ControlInit => ControlInv
<1> SUFFICES ASSUME ControlInit PROVE ControlInv
  OBVIOUS
<1>1. /\ verdict \in [how: {"none", "error", "report"}, cloud: BOOLEAN, gateway: BOOLEAN]
      /\ verdict.how = "none"
  BY VerdictFields DEF ControlInit
<1>5. tries \in 0..2 /\ written \in 0..2
  BY DEF ControlInit
<1>2. ControlTypeOK
  BY <1>1, <1>5, NothingTyped DEF ControlInit, WebInit, ControlTypeOK
<1> QED
  BY <1>1, <1>2
     DEF ControlInit, ControlInv, PlanMade, Compared, Accounted, Unwritten,
         Executed, PlanDone, OwnUnderWay, ReportHolds, Fresh

LEMMA PreviewKeeps ==
    ASSUME ControlInv, NEW i \in Ids, NEW keep \in SUBSET Apps, Preview(i, keep)
    PROVE  ControlInv'
<1>1. PICK scope \in Scopes :
        plan' = [rows |-> cloud, id |-> i, before |-> cloud[i],
                 after |-> [apps |-> keep, scope |-> scope]]
  BY DEF Preview, Policy, ControlInv, ControlTypeOK
<1>2. cloud[i] \in Policy /\ cloud \in [Ids -> Policy \cup {Gone}]
  BY DEF Preview, ControlInv, ControlTypeOK
<1>3. plan' \in Plan /\ plan' # NoPlan
  BY <1>1, <1>2, ControlAssumption DEF Plan, Policy
<1>4. /\ UNCHANGED <<cloud, stamp, native, underway, stage, read, readStamp, tries, cloudOk, moved>>
      /\ stage = "idle" /\ written' = 0 /\ alone' = TRUE /\ replayed' = FALSE
      /\ before' = Nothing
  BY DEF Preview, world
<1>5. /\ verdict' \in [how: {"none", "error", "report"}, cloud: BOOLEAN, gateway: BOOLEAN]
      /\ verdict'.how = "none"
  BY VerdictFields DEF Preview
<1>6. authed' \in BOOLEAN /\ session' \in {"none", "live", "dead"}
  BY WebTyped DEF Preview, WebAnswers, ControlInv
<1>7. tries' \in 0..2 /\ written' \in 0..2
  BY <1>4 DEF ControlInv, ControlTypeOK
<1>8. ControlTypeOK'
  BY <1>3, <1>4, <1>5, <1>6, <1>7, NothingTyped DEF ControlInv, ControlTypeOK
<1>9. PlanMade'
  BY <1>1 DEF Preview, PlanMade
<1>10. Accounted'
  BY <1>1, <1>4, <1>5 DEF Accounted, Unwritten
<1> QED
  BY <1>3, <1>4, <1>5, <1>8, <1>9, <1>10 DEF ControlInv, Compared, ReportHolds, Fresh

\* The steps of apply that keep the world and raise, or go on.
LEMMA ReadsKeepControl ==
    ASSUME ControlInv, PreviewFails \/ ControlReadFails \/ WriteFails
    PROVE  ControlInv'
<1>1. authed' \in BOOLEAN /\ session' \in {"none", "live", "dead"}
  BY WebTyped DEF ControlInv, PreviewFails, ControlReadFails, WriteFails, WebRaises
<1>2. CASE PreviewFails
  <2>1. UNCHANGED <<cloud, stamp, native, underway, plan, stage, read, readStamp, before, tries,
                    cloudOk, verdict, written, alone, moved, replayed>>
    BY <1>2 DEF PreviewFails, world, past, locals
  <2>2. ControlTypeOK'
    BY <1>1, <2>1 DEF ControlInv, ControlTypeOK
  <2> QED
    BY <2>1, <2>2 DEF ControlInv, PlanMade, Compared, Accounted, Unwritten,
         Executed, PlanDone, OwnUnderWay, ReportHolds, Fresh, AppsOnly
<1>3. CASE ControlReadFails \/ WriteFails
  <2>1. plan # NoPlan /\ Refuses /\ Stays
    BY <1>3 DEF ControlInv, ControlTypeOK, ControlReadFails, WriteFails
  <2> QED
    BY <1>1, <2>1, RefusesKeeps
<1> QED
  BY <1>2, <1>3

LEMMA ApplyKeeps ==
    ASSUME ControlInv, Apply
    PROVE  ControlInv'
<1>1. /\ verdict' \in [how: {"none", "error", "report"}, cloud: BOOLEAN, gateway: BOOLEAN]
      /\ verdict'.how = "none"
  BY VerdictFields DEF Apply
<1>2. /\ UNCHANGED <<cloud, stamp, native, underway, authed, session, plan, read, readStamp, before,
                     tries, cloudOk, written, alone, moved, replayed>>
      /\ stage = "idle" /\ stage' = "drift" /\ plan # NoPlan
  BY DEF Apply, Stays, world, past, webVars, locals
<1>3. tries' \in 0..2 /\ written' \in 0..2
  BY <1>2 DEF ControlInv, ControlTypeOK
<1>4. ControlTypeOK'
  BY <1>1, <1>2, <1>3 DEF ControlInv, ControlTypeOK
<1> QED
  BY <1>1, <1>2, <1>4
     DEF ControlInv, PlanMade, Compared, Accounted, Unwritten,
         Executed, PlanDone, OwnUnderWay, ReportHolds, Fresh, AppsOnly

\* Nobody else edited: a plan that was executed is not in sync again.
LEMMA RevisionKeeps ==
    ASSUME ControlInv, CheckRevision
    PROVE  ControlInv'
<1>1. authed' \in BOOLEAN /\ session' \in {"none", "live", "dead"}
  BY WebTyped DEF ControlInv, CheckRevision, WebAnswers
<1>2. /\ stage = "drift" /\ plan # NoPlan /\ plan \in Plan
      /\ UNCHANGED <<cloud, stamp, native, underway, plan, written, alone>>
  BY DEF ControlInv, ControlTypeOK, CheckRevision, world
<1>3. CASE Refuses /\ UNCHANGED replayed
  <2>1. Stays
    BY <1>2, <1>3 DEF Stays, world, past
  <2> QED
    BY <1>1, <1>2, <1>3, <2>1, RefusesKeeps
<1>4. CASE /\ InSync /\ read' = cloud /\ readStamp' = stamp /\ moved' = FALSE
           /\ replayed' = (replayed \/ OwnUnderWay)
           /\ Moves("native") /\ UNCHANGED <<before, tries, cloudOk>>
  <2>1. /\ UNCHANGED <<before, tries, cloudOk, verdict>>
        /\ stage' = "native" /\ cloud = plan.rows /\ read' = cloud /\ readStamp' = stamp
        /\ moved' = FALSE
    BY <1>4 DEF Moves, InSync, Revision
  <2>2. tries' \in 0..2 /\ written' \in 0..2 /\ replayed' \in BOOLEAN
    BY <1>2, <1>4, <2>1 DEF ControlInv, ControlTypeOK
  <2>3. ControlTypeOK'
    BY <1>1, <1>2, <2>1, <2>2 DEF ControlInv, ControlTypeOK
  <2>4. alone => Unwritten
    <3>1. PlanDone # plan.rows
      BY <1>2 DEF ControlInv, PlanMade, Plan, PlanDone
    <3> QED
      BY <1>2, <2>1, <3>1 DEF ControlInv, Accounted, Executed
  <2>5. Accounted'
    BY <1>2, <1>4, <2>1, <2>4 DEF Accounted, Unwritten, OwnUnderWay, PatchOf
  <2> QED
    BY <1>2, <2>1, <2>3, <2>4, <2>5
       DEF ControlInv, PlanMade, Compared, Unwritten, ReportHolds, Fresh
<1> QED
  BY <1>3, <1>4 DEF CheckRevision, OwnUnderWay

LEMMA NativeKeeps ==
    ASSUME ControlInv, NEW rightSerial \in BOOLEAN, CheckNative(rightSerial)
    PROVE  ControlInv'
<1>1. /\ stage = "native" /\ plan # NoPlan /\ Stays
      /\ authed' \in BOOLEAN /\ session' \in {"none", "live", "dead"}
  BY DEF ControlInv, ControlTypeOK, CheckNative, webVars
<1>2. CASE Refuses
  BY <1>1, <1>2, RefusesKeeps
<1>3. CASE AppsOnly /\ before' = native /\ Moves("write")
           /\ UNCHANGED <<read, readStamp, tries, cloudOk, moved>>
  <2>1. /\ UNCHANGED <<cloud, stamp, native, underway, plan, read, readStamp, tries, cloudOk, moved,
                       verdict, written, alone, replayed>>
        /\ stage' = "write" /\ AppsOnly /\ before' = native
    BY <1>1, <1>3 DEF Stays, Moves, world, past
  <2>2. tries' \in 0..2 /\ written' \in 0..2
    BY <2>1 DEF ControlInv, ControlTypeOK
  <2>3. ControlTypeOK'
    BY <1>1, <2>1, <2>2 DEF ControlInv, ControlTypeOK
  <2> QED
    BY <1>1, <2>1, <2>3
       DEF ControlInv, PlanMade, Compared, Accounted, Unwritten,
         Executed, PlanDone, OwnUnderWay, ReportHolds, Fresh, AppsOnly
<1> QED
  BY <1>2, <1>3 DEF CheckNative

\* An execution of the plan: one more, and another one than the first only if
\* its write was under way at a comparison.
LEMMA ExecutedOnceMore ==
    ASSUME ControlInv, alone, plan # NoPlan, written' = WrittenMore,
           UNCHANGED <<plan, alone, replayed>>, cloud' = [cloud EXCEPT ![plan.id] = plan.after],
           stage = "write" \/ OwnUnderWay
    PROVE  /\ cloud' = PlanDone' /\ written' \in {1, 2}
           /\ written' = 2 => replayed
           /\ stage \in {"native", "write"} /\ OwnUnderWay => replayed
<1>1. Unwritten \/ Executed
  BY DEF ControlInv, Accounted
<1>2. CASE Unwritten
  BY <1>2 DEF Unwritten, PlanDone, WrittenMore
<1>3. CASE Executed
  <2>1. plan.rows \in [Ids -> Policy \cup {Gone}] /\ plan.id \in Ids
    BY DEF ControlInv, ControlTypeOK, Plan
  <2>2. cloud' = PlanDone
    BY <1>3, <2>1 DEF Executed, PlanDone
  <2> QED
    BY <1>3, <2>2 DEF Executed, PlanDone, WrittenMore
<1> QED
  BY <1>1, <1>2, <1>3

LEMMA WrittenMoreTyped ==
    ASSUME ControlTypeOK
    PROVE  WrittenMore \in 0..2 /\ WrittenMore # 0
<1>1. written \in {0, 1, 2}
  BY DEF ControlTypeOK
<1> QED
  BY <1>1 DEF WrittenMore

LEMMA WriteKeepsControl ==
    ASSUME ControlInv, Write
    PROVE  ControlInv'
<1>1. /\ stage = "write" /\ plan # NoPlan /\ plan \in Plan
      /\ cloud' = [cloud EXCEPT ![plan.id] = plan.after] /\ stamp' = ~stamp
      /\ written' = WrittenMore
      /\ UNCHANGED <<native, underway, authed, session, plan, alone, replayed>>
  BY DEF ControlInv, ControlTypeOK, Write, Executes, PatchOf, webVars
<1>2. cloud' \in [Ids -> Policy \cup {Gone}] /\ stamp' \in BOOLEAN /\ written' \in 0..2
  BY <1>1, WrittenMoreTyped DEF ControlInv, ControlTypeOK, Plan
<1>3. alone => /\ cloud' = PlanDone' /\ written' \in {1, 2}
               /\ written' = 2 \/ OwnUnderWay => replayed
  BY <1>1, ExecutedOnceMore
<1>4. /\ verdict' \in [how: {"none", "error", "report"}, cloud: BOOLEAN, gateway: BOOLEAN]
      /\ tries' \in 0..2 /\ cloudOk' \in BOOLEAN /\ moved' \in BOOLEAN /\ readStamp' \in BOOLEAN
      /\ read' \in [Ids -> Policy \cup {Gone}] /\ before' \in [Ids -> Native \cup {Gone}]
      /\ stage' \in {"idle", "reread"} /\ (verdict'.how = "report" => verdict' = verdict)
      /\ stage' = "reread" => read' = plan.rows /\ AppsOnly
  <2>1. CASE Refuses
    <3>1. /\ verdict' \in [how: {"none", "error", "report"}, cloud: BOOLEAN, gateway: BOOLEAN]
          /\ verdict'.how = "error"
      BY <2>1, VerdictFields DEF Refuses
    <3>2. /\ stage' = "idle" /\ read' = Nothing /\ readStamp' = FALSE /\ before' = Nothing
          /\ tries' = 0 /\ cloudOk' = FALSE /\ moved' = FALSE
      BY <2>1 DEF Refuses
    <3>3. tries' \in 0..2
      BY <3>2
    <3>4. read' \in [Ids -> Policy \cup {Gone}] /\ before' \in [Ids -> Native \cup {Gone}]
      BY <3>2, NothingTyped
    <3> QED
      BY <3>1, <3>2, <3>3, <3>4, Zenon
  <2>2. CASE Moves("reread") /\ UNCHANGED <<locals, moved>>
    <3>1. /\ UNCHANGED <<verdict, read, readStamp, before, tries, cloudOk, moved>>
          /\ stage' = "reread"
      BY <2>2 DEF Moves, locals
    <3>2. tries' \in 0..2
      BY <3>1 DEF ControlInv, ControlTypeOK
    <3>3. read' = plan.rows /\ AppsOnly
      BY <1>1, <3>1 DEF ControlInv, Compared
    <3> QED
      BY <3>1, <3>2, <3>3 DEF ControlInv, ControlTypeOK
  <2> QED
    BY <2>1, <2>2 DEF Write
<1>5. ControlTypeOK'
  BY <1>1, <1>2, <1>4 DEF ControlInv, ControlTypeOK
<1>6. Accounted'
  BY <1>1, <1>3, <1>4 DEF Accounted, Executed, OwnUnderWay, PatchOf
<1>7. Compared'
  BY <1>1, <1>4 DEF Compared, AppsOnly
<1>8. ReportHolds'
  BY <1>1, <1>4 DEF ControlInv, ReportHolds
<1> QED
  BY <1>1, <1>5, <1>6, <1>7, <1>8 DEF ControlInv, PlanMade, Fresh

LEMMA WriteTimesOutKeeps ==
    ASSUME ControlInv, WriteTimesOut
    PROVE  ControlInv'
<1>1. /\ stage = "write" /\ plan # NoPlan /\ plan \in Plan /\ underway' = PatchOf(plan)
      /\ UNCHANGED <<cloud, stamp, native, authed, session, plan, written, alone, replayed>>
      /\ stage' = "idle"
  BY DEF ControlInv, ControlTypeOK, WriteTimesOut, Refuses, webVars, past
<1>2. underway' \in Patch
  BY <1>1 DEF Plan, Patch, PatchOf
<1>3. /\ verdict' \in [how: {"none", "error", "report"}, cloud: BOOLEAN, gateway: BOOLEAN]
      /\ verdict'.how = "error"
  BY VerdictFields DEF WriteTimesOut, Refuses
<1>4. tries' \in 0..2 /\ written' \in 0..2
  BY <1>1 DEF ControlInv, ControlTypeOK, WriteTimesOut, Refuses
<1>5. ControlTypeOK'
  BY <1>1, <1>2, <1>3, <1>4, NothingTyped
     DEF ControlInv, ControlTypeOK, WriteTimesOut, Refuses
<1>6. Accounted'
  BY <1>1, <1>3 DEF ControlInv, Accounted, Unwritten, Executed, PlanDone
<1> QED
  BY <1>1, <1>3, <1>5, <1>6 DEF ControlInv, PlanMade, Compared, ReportHolds, Fresh

LEMMA RereadKeeps ==
    ASSUME ControlInv, Reread
    PROVE  ControlInv'
<1>1. authed' \in BOOLEAN /\ session' \in {"none", "live", "dead"}
  BY WebTyped DEF ControlInv, Reread, WebAnswers
<1>2. /\ stage = "reread" /\ plan # NoPlan /\ stage' = "verify" /\ tries' = 0
      /\ UNCHANGED <<cloud, stamp, native, underway, plan, read, readStamp, before, verdict,
                     written, alone, moved, replayed>>
  BY DEF ControlInv, ControlTypeOK, Reread, Moves, Stays, world, past
<1>3. cloudOk' \in BOOLEAN /\ (cloud = [read EXCEPT ![plan.id] = plan.after] => cloudOk')
  BY DEF Reread, Revision
<1>4. tries' \in 0..2 /\ written' \in 0..2
  BY <1>2 DEF ControlInv, ControlTypeOK
<1>5. ControlTypeOK'
  BY <1>1, <1>2, <1>3, <1>4 DEF ControlInv, ControlTypeOK
<1>6. alone => Executed /\ cloud = [read EXCEPT ![plan.id] = plan.after]
  BY <1>2 DEF ControlInv, Accounted, Unwritten, Executed, PlanDone, Compared
<1>7. alone => cloudOk'
  BY <1>3, <1>6
<1> QED
  BY <1>2, <1>5, <1>6, <1>7
     DEF ControlInv, PlanMade, Compared, Accounted, Unwritten,
         Executed, PlanDone, OwnUnderWay, ReportHolds, Fresh, AppsOnly

LEMMA VerifyKeeps ==
    ASSUME ControlInv, Verify
    PROVE  ControlInv'
<1>1. /\ stage = "verify" /\ plan # NoPlan /\ plan \in Plan
      /\ UNCHANGED <<cloud, stamp, native, underway, authed, session, plan, before, written, alone,
                     replayed>>
  BY DEF ControlInv, ControlTypeOK, Verify, Stays, world, past, webVars
<1>2. CASE /\ verdict' = Conclude(native) /\ stage' = "idle"
           /\ read' = Nothing /\ readStamp' = FALSE /\ tries' = 0 /\ cloudOk' = FALSE
           /\ moved' = FALSE
  <2>1. GatewayVerified(native) \in BOOLEAN
    BY DEF GatewayVerified, Delivered
  <2>2. cloudOk \in BOOLEAN
    BY DEF ControlInv, ControlTypeOK
  <2>3. /\ verdict' \in [how: {"none", "error", "report"}, cloud: BOOLEAN, gateway: BOOLEAN]
        /\ verdict'.how = "report" /\ verdict'.cloud = cloudOk
        /\ verdict'.gateway = GatewayVerified(native)
    BY <1>2, <2>1, <2>2, VerdictFields DEF Conclude
  <2>4. tries' \in 0..2 /\ written' \in 0..2
    BY <1>1, <1>2 DEF ControlInv, ControlTypeOK
  <2>5. ControlTypeOK'
    BY <1>1, <1>2, <2>3, <2>4, NothingTyped DEF ControlInv, ControlTypeOK
  <2>6. ReportHolds'
    BY <1>1, <1>2, <2>3
       DEF ControlInv, Accounted, Unwritten, Executed, ReportHolds, GatewayVerified, Delivered
  <2>7. Accounted'
    BY <1>1, <1>2
       DEF ControlInv, Accounted, Unwritten, Executed, PlanDone, OwnUnderWay, PatchOf
  <2> QED
    BY <1>1, <1>2, <2>5, <2>6, <2>7 DEF ControlInv, PlanMade, Compared, Fresh
<1>3. CASE /\ ~LastTry /\ tries' = tries + 1 /\ Moves("verify")
           /\ UNCHANGED <<read, readStamp, cloudOk, moved>>
  <2>1. stage' = "verify" /\ UNCHANGED <<read, readStamp, cloudOk, moved, verdict>>
    BY <1>3 DEF Moves
  <2>2. tries' \in 0..2 /\ written' \in 0..2
    BY <1>1, <1>3 DEF ControlInv, ControlTypeOK, LastTry
  <2>3. ControlTypeOK'
    BY <1>1, <2>1, <2>2 DEF ControlInv, ControlTypeOK
  <2> QED
    BY <1>1, <2>1, <2>3
       DEF ControlInv, PlanMade, Compared, Accounted, Unwritten,
         Executed, PlanDone, OwnUnderWay, ReportHolds, Fresh, AppsOnly
<1> QED
  BY <1>2, <1>3 DEF Verify

\* What others do, and what comes of a write under way, leaves apply where it is.
\* An edit or the late write of an earlier plan is the end of "alone", a
\* delivery brings the policy of the cloud, and a report of the gateway leaves
\* nothing to deliver of its policy.
LEMMA OthersKeepControl ==
    ASSUME ControlInv, UNCHANGED <<plan, stage, locals, verdict, written, replayed>>,
           underway' \in {underway, NoPatch},
           stamp' \in BOOLEAN, alone' \in BOOLEAN, moved' \in BOOLEAN,
           authed' \in BOOLEAN, session' \in {"none", "live", "dead"},
           cloud' \in [Ids -> Policy \cup {Gone}], native' \in [Ids -> Native \cup {Gone}],
           alone' = alone \/ alone' = FALSE,
           cloud' # cloud => alone' = FALSE /\ (stage = "idle" \/ moved' = TRUE),
           stage = "idle" \/ moved' = TRUE \/ moved' = moved,
           \A i \in Ids : native'[i] # native[i] =>
               alone' = FALSE \/ cloud[i] = Gone \/ ~Delivered(cloud[i], native[i])
    PROVE  ControlInv'
<1>1. UNCHANGED <<plan, stage, read, readStamp, before, tries, cloudOk, verdict, written, replayed>>
  BY DEF locals
<1>2. tries' \in 0..2 /\ written' \in 0..2
  BY <1>1 DEF ControlInv, ControlTypeOK
<1>3. ControlTypeOK'
  BY <1>1, <1>2 DEF ControlInv, ControlTypeOK
<1>4. PlanMade' /\ Fresh'
  BY <1>1 DEF ControlInv, PlanMade, Fresh
<1>5. Compared'
  BY <1>1 DEF ControlInv, Compared, PlanDone, AppsOnly
<1>6. Accounted'
  <2>1. plan # NoPlan => PatchOf(plan) # NoPatch
    BY ControlAssumption DEF ControlInv, ControlTypeOK, Plan, Patch, PatchOf
  <2>2. plan' # NoPlan /\ OwnUnderWay' => OwnUnderWay
    BY <1>1, <2>1 DEF OwnUnderWay, PatchOf
  <2>3. alone' => alone /\ cloud' = cloud
    OBVIOUS
  <2>4. alone /\ plan # NoPlan => Unwritten \/ Executed
    BY DEF ControlInv, Accounted
  <2>5. ASSUME alone', plan' # NoPlan, Unwritten PROVE Unwritten'
    BY <1>1, <2>2, <2>3, <2>5 DEF Unwritten
  <2>6. ASSUME alone', plan' # NoPlan, Executed PROVE Executed'
    BY <1>1, <2>2, <2>3, <2>6 DEF Executed, PlanDone
  <2> QED
    BY <1>1, <2>3, <2>4, <2>5, <2>6 DEF Accounted
<1>7. ReportHolds'
  <2> SUFFICES ASSUME alone', verdict.how = "report", verdict.gateway
               PROVE  native'[plan.id] = native[plan.id]
    BY <1>1 DEF ControlInv, ReportHolds
  <2>1. alone /\ plan # NoPlan /\ plan \in Plan /\ Delivered(plan.after, native[plan.id])
    BY DEF ControlInv, ControlTypeOK, ReportHolds
  <2>2. cloud[plan.id] = plan.after /\ plan.after # Gone /\ plan.id \in Ids
    BY <2>1, ControlAssumption
       DEF ControlInv, ControlTypeOK, Accounted, Unwritten, Executed, PlanDone, Plan
  <2> QED
    BY <2>1, <2>2
<1> QED
  BY <1>3, <1>4, <1>5, <1>6, <1>7 DEF ControlInv

LEMMA EditsKeep ==
    ASSUME ControlInv,
           \/ \E i \in Ids : EditCloud(i) \/ Deliver(i) \/ EditNative(i)
           \/ Restamp \/ ConsoleLogsOut
    PROVE  ControlInv'
<1>1. /\ stamp \in BOOLEAN /\ alone \in BOOLEAN /\ moved \in BOOLEAN /\ authed \in BOOLEAN
      /\ session \in {"none", "live", "dead"}
      /\ cloud \in [Ids -> Policy \cup {Gone}] /\ native \in [Ids -> Native \cup {Gone}]
  BY DEF ControlInv, ControlTypeOK
<1>2. ASSUME NEW i \in Ids, EditCloud(i) PROVE ControlInv'
  <2>1. cloud' \in [Ids -> Policy \cup {Gone}]
    BY <1>1, <1>2, ControlAssumption DEF EditCloud
  <2>2. moved' \in BOOLEAN /\ (stage = "idle" \/ moved' = TRUE) /\ cloud' # cloud
    BY <1>1, <1>2, ControlAssumption DEF EditCloud
  <2>3. stamp' \in BOOLEAN /\ alone' = FALSE /\ UNCHANGED <<native, authed, session>>
    BY <1>2 DEF EditCloud, webVars
  <2> QED
    BY <1>1, <1>2, <2>1, <2>2, <2>3, OthersKeepControl DEF EditCloud, OthersLeave
<1>3. ASSUME NEW i \in Ids, Deliver(i) PROVE ControlInv'
  <2>1. UNCHANGED <<cloud, stamp, authed, session, alone, moved>> /\ OthersLeave
    BY <1>3 DEF Deliver, webVars
  <2>2. \A j \in Ids : native'[j] # native[j] =>
          cloud[j] = Gone \/ ~Delivered(cloud[j], native[j])
    BY <1>1, <1>3 DEF Deliver
  <2>3. native' \in [Ids -> Native \cup {Gone}]
    <3>1. cloud[i] # Gone => \A e \in Effects :
            [apps |-> cloud[i].apps, scope |-> cloud[i].scope, effect |-> e] \in Native
      BY <1>1 DEF Policy, Native
    <3> QED
      BY <1>1, <1>3, <3>1 DEF Deliver
  <2> QED
    BY <1>1, <2>1, <2>2, <2>3, OthersKeepControl DEF OthersLeave
<1>4. ASSUME NEW i \in Ids, EditNative(i) PROVE ControlInv'
  <2>1. UNCHANGED <<cloud, stamp, authed, session, moved>> /\ OthersLeave /\ alone' = FALSE
    BY <1>4 DEF EditNative, webVars
  <2>2. native' \in [Ids -> Native \cup {Gone}]
    <3>1. PICK e \in Effects : native' = [native EXCEPT ![i].effect = e]
      BY <1>4 DEF EditNative
    <3>2. native[i] \in Native /\ [native[i] EXCEPT !.effect = e] \in Native
      BY <1>1, <1>4 DEF EditNative, Native
    <3> QED
      BY <1>1, <3>1, <3>2
  <2> QED
    BY <1>1, <2>1, <2>2, OthersKeepControl DEF OthersLeave
<1>5. CASE Restamp
  <2>1. /\ UNCHANGED <<cloud, native, authed, session, alone, moved>> /\ OthersLeave
        /\ stamp' \in BOOLEAN
    BY <1>5 DEF Restamp, webVars
  <2> QED
    BY <1>1, <2>1, OthersKeepControl DEF OthersLeave
<1>6. CASE ConsoleLogsOut
  <2>1. /\ UNCHANGED <<cloud, stamp, native, alone, moved>> /\ OthersLeave
        /\ authed' \in BOOLEAN /\ session' \in {"none", "live", "dead"}
    BY <1>1, <1>6 DEF ConsoleLogsOut, SessionEnds, OthersLeave, world, past
  <2> QED
    BY <1>1, <2>1, OthersKeepControl DEF OthersLeave
<1> QED
  BY <1>2, <1>3, <1>4, <1>5, <1>6

\* The plan's own write comes late: wherever apply is, that is an execution.
LEMMA OwnLateWriteKeeps ==
    ASSUME ControlInv, LateWrite, OwnUnderWay
    PROVE  ControlInv'
<1>1. /\ plan # NoPlan /\ plan \in Plan /\ underway' = NoPatch /\ NoPatch # PatchOf(plan)
      /\ cloud' = [cloud EXCEPT ![plan.id] = plan.after] /\ stamp' = ~stamp
      /\ written' = WrittenMore
      /\ UNCHANGED <<native, authed, session, plan, stage, read, readStamp, before, tries, cloudOk,
                     verdict, alone, moved, replayed>>
  BY ControlAssumption
     DEF ControlInv, ControlTypeOK, LateWrite, OwnUnderWay, Executes, Plan, Patch, PatchOf, webVars,
         locals
<1>2. cloud' \in [Ids -> Policy \cup {Gone}] /\ stamp' \in BOOLEAN /\ written' \in 0..2
  BY <1>1, WrittenMoreTyped DEF ControlInv, ControlTypeOK, Plan
<1>3. tries' \in 0..2
  BY <1>1 DEF ControlInv, ControlTypeOK
<1>4. ControlTypeOK'
  BY <1>1, <1>2, <1>3 DEF ControlInv, ControlTypeOK
<1>5. alone => /\ cloud' = PlanDone' /\ written' \in {1, 2}
               /\ stage \in {"native", "write"} \/ written' = 2 => replayed
  BY <1>1, ExecutedOnceMore
<1>6. alone /\ stage = "verify" => cloudOk
  BY <1>1 DEF ControlInv, Accounted, Unwritten, Executed
<1>7. Accounted'
  BY <1>1, <1>5, <1>6 DEF Accounted, Executed, OwnUnderWay, PatchOf
<1>8. Compared'
  <2>1. plan.rows \in [Ids -> Policy \cup {Gone}] /\ plan.id \in Ids
    BY <1>1 DEF Plan
  <2>2. cloud \in {plan.rows, PlanDone} => cloud' = PlanDone
    BY <1>1, <2>1 DEF PlanDone
  <2> QED
    BY <1>1, <2>2 DEF ControlInv, Compared, PlanDone, AppsOnly
<1> QED
  BY <1>1, <1>4, <1>7, <1>8 DEF ControlInv, PlanMade, ReportHolds, Fresh

LEMMA LateWritesKeep ==
    ASSUME ControlInv, LateWrite \/ LateWriteDropped
    PROVE  ControlInv'
<1>1. /\ stamp \in BOOLEAN /\ alone \in BOOLEAN /\ moved \in BOOLEAN /\ authed \in BOOLEAN
      /\ session \in {"none", "live", "dead"}
      /\ cloud \in [Ids -> Policy \cup {Gone}] /\ native \in [Ids -> Native \cup {Gone}]
  BY DEF ControlInv, ControlTypeOK
<1>2. CASE LateWriteDropped
  <2>1. /\ UNCHANGED <<cloud, stamp, native, authed, session, alone, moved>>
        /\ UNCHANGED <<plan, stage, locals, verdict, written, replayed>> /\ underway' = NoPatch
    BY <1>2 DEF LateWriteDropped, webVars, past
  <2> QED
    BY <1>1, <2>1, OthersKeepControl
<1>3. CASE LateWrite /\ ~OwnUnderWay
  <2>1. /\ UNCHANGED <<native, authed, session, plan, stage, locals, verdict, written, replayed>>
        /\ underway' = NoPatch /\ alone' = FALSE /\ moved' = (stage # "idle")
        /\ stamp' = ~stamp /\ underway \in Patch
        /\ cloud' = [cloud EXCEPT ![underway.id] = underway.after]
    BY <1>3 DEF LateWrite, OwnUnderWay, Executes, webVars, ControlInv, ControlTypeOK
  <2>2. cloud' \in [Ids -> Policy \cup {Gone}]
    BY <1>1, <2>1 DEF Patch
  <2>3. moved' \in BOOLEAN /\ stamp' \in BOOLEAN /\ (stage = "idle" \/ moved' = TRUE)
    BY <1>1, <2>1
  <2> QED
    BY <1>1, <2>1, <2>2, <2>3, OthersKeepControl
<1> QED
  BY <1>2, <1>3, OwnLateWriteKeeps

LEMMA ControlStepKeeps == ControlInv /\ [ControlNext]_controlVars => ControlInv'
<1> SUFFICES ASSUME ControlInv, [ControlNext]_controlVars PROVE ControlInv'
  OBVIOUS
<1>1. ASSUME NEW i \in Ids, NEW keep \in SUBSET Apps, Preview(i, keep) PROVE ControlInv'
  BY <1>1, PreviewKeeps
<1>2. ASSUME NEW rightSerial \in BOOLEAN, CheckNative(rightSerial) PROVE ControlInv'
  BY <1>2, NativeKeeps
<1>3. CASE UNCHANGED controlVars
  <2>1. UNCHANGED <<cloud, stamp, native, underway, authed, session, plan, stage, read, readStamp,
                    before, tries, cloudOk, verdict, written, alone, moved, replayed>>
    BY <1>3 DEF controlVars, world, past, webVars, locals
  <2>2. tries' \in 0..2 /\ written' \in 0..2
    BY <2>1 DEF ControlInv, ControlTypeOK
  <2>3. ControlTypeOK'
    BY <2>1, <2>2 DEF ControlInv, ControlTypeOK
  <2> QED
    BY <2>1, <2>3 DEF ControlInv, PlanMade, Compared, Accounted, Unwritten,
         Executed, PlanDone, OwnUnderWay, ReportHolds, Fresh, AppsOnly
<1> QED
  BY <1>1, <1>2, <1>3, ReadsKeepControl, ApplyKeeps, RevisionKeeps, WriteKeepsControl,
     WriteTimesOutKeeps, LateWritesKeep, RereadKeeps, VerifyKeeps, EditsKeep
     DEF ControlNext

LEMMA ControlInvHolds == ControlSpec => []ControlInv
BY ControlInitInv, ControlStepKeeps, PTL DEF ControlSpec

-----------------------------------------------------------------------------
(* Site control: the theorems. *)

\* Every variable of site control keeps its type: a report is of a plan, and
\* apply never runs without one (site_control.py 182-194).
THEOREM ControlTyped == ControlSpec => []ControlTypeOK
<1>1. ControlInv => ControlTypeOK
  BY DEF ControlInv
<1> QED
  BY <1>1, ControlInvHolds, PTL

\* However often a plan is applied, after writes whose answers were lost or that
\* came late too, the cloud executes it once as long as nobody else edits, unless
\* the plan passed the revision check while an earlier write of it was under way:
\* the replay that callers are warned of (site_control.py 5-6, README.md 380-382).
THEOREM PlanWrittenOnce == ControlSpec => []WrittenOnce
<1>1. ControlInv => WrittenOnce
  BY DEF ControlInv, WrittenOnce, Accounted, Unwritten, Executed, Fresh
<1> QED
  BY <1>1, ControlInvHolds, PTL

\* What a report says of the cloud and of the gateway is so, and stays so until
\* somebody edits (site_control.py 218-257).
THEOREM ReportsStayTrue == ControlSpec => []ReportsInForce
<1>1. ControlInv => ReportsInForce
  BY DEF ControlInv, ReportHolds, ReportsInForce
<1> QED
  BY <1>1, ControlInvHolds, PTL

LEMMA WriteIsPreviewed ==
    ASSUME ControlInv, [ControlNext]_controlVars, cloud' # cloud, stage = "write",
           stage' # "write", ~moved
    PROVE  /\ cloud = plan.rows
           /\ cloud' = [cloud EXCEPT ![plan.id].apps = plan.after.apps]
<1>1. Write
  BY DEF ControlNext, controlVars, world, Preview, PreviewFails, Apply, CheckRevision, WriteFails,
         WriteTimesOut, LateWrite, LateWriteDropped, Reread, Verify, ControlReadFails, CheckNative,
         EditCloud, Deliver, EditNative, Restamp, ConsoleLogsOut, OthersLeave, Stays
<1>2. /\ cloud' = [cloud EXCEPT ![plan.id] = plan.after] /\ cloud \in {plan.rows, PlanDone}
      /\ AppsOnly
      /\ plan.before = plan.rows[plan.id] /\ plan \in Plan
  BY <1>1 DEF Write, Executes, PatchOf, ControlInv, ControlTypeOK, Compared, PlanMade
<1>3. cloud = plan.rows
  BY <1>2 DEF PlanDone, Plan
<1>4. plan.after = [cloud[plan.id] EXCEPT !.apps = plan.after.apps]
  BY <1>2, <1>3 DEF AppsOnly, Plan, Policy
<1> QED
  BY <1>2, <1>3, <1>4

\* A write finds the policies of the preview and changes the applications of
\* one, whatever plan a caller made up and whoever edited before apply read
\* them (site_control.py 183-194).
THEOREM PreviewedWrites == ControlSpec => WritesAsPreviewed
<1>1. ControlInv /\ [ControlNext]_controlVars =>
        [cloud' # cloud /\ stage = "write" /\ stage' # "write" /\ ~moved
           => /\ cloud = plan.rows
              /\ cloud' = [cloud EXCEPT ![plan.id].apps = plan.after.apps]]_controlVars
  BY WriteIsPreviewed
<1> QED
  BY <1>1, ControlInvHolds, PTL DEF ControlSpec, WritesAsPreviewed

-----------------------------------------------------------------------------
(* All changes together. *)

\* One of them runs and the rest stands still: that is a behaviour of each.
LEMMA EachChangeRuns ==
    MCSpec => HubSpec /\ SitesSpec /\ RoutesSpec /\ ControlSpec /\ WanSpec
<1>1. MCInit => HubInit /\ SitesInit /\ RoutesInit /\ ControlInit /\ WanInit
  BY DEF MCInit
<1>2. [MCNext]_<<allVars, command>> =>
        /\ [HubNext]_hubVars /\ [SitesNext]_sitesVars /\ [RoutesNext]_routesVars
        /\ [ControlNext]_controlVars /\ [WanNext]_wanVars
  BY DEF MCNext, allVars
<1> QED
  BY <1>1, <1>2, PTL DEF MCSpec, HubSpec, SitesSpec, RoutesSpec, ControlSpec, WanSpec

\* Whichever change runs, every variable of every change keeps its type (wireguard.py
\* 208-417 and 739-889, client.py 811-913, site_control.py 121-257, wan_loadbalance.py
\* 127-146).
THEOREM ChangesTyped == MCSpec => []ChangesTypeOK
<1>1. HubTypeOK /\ SitesTypeOK /\ RoutesTypeOK /\ ControlTypeOK /\ WanTypeOK => ChangesTypeOK
  BY DEF ChangesTypeOK
<1> QED
  BY <1>1, EachChangeRuns, HubTyped, TypesKept, RoutesTypesKept, ControlTyped, WanTyped, PTL
==============================================================================
