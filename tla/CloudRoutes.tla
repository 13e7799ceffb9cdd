----------------------------- MODULE CloudRoutes -----------------------------
(***************************************************************************)
(* The WireGuard client policies that the cloud keeps for one project, and *)
(* the calls of RuijieClient that read and change them (client.py 811-913).*)
(* A route update reads the gateway and the policies, compares them with a *)
(* snapshot the caller got earlier, reads the raw row, compares again and  *)
(* posts the whole row back.  The cloud has no version to compare; it      *)
(* queues what is posted, and others edit the same rows at any time.       *)
(***************************************************************************)
EXTENDS Naturals, Sequences, FiniteSets

CONSTANTS
    Policies,      \* uuids
    Confs,         \* what else the client DTO holds: name, addresses, endpoint
    Incomplete,    \* such a content that from_cloud refuses
    Nets,          \* networks, in canonical form
    Extras,        \* fields that only the cloud knows: strictPriority, ...
    Gateways,      \* serial numbers
    Mine,          \* the gateway that the caller names
    OtherRows,     \* the rows that others may write
    NoCall,        \* no call, no row to post
    MaxPosted      \* bounds the posts that the cloud has not applied yet

\* A secret, whole or with asterisks; key is the private key, psk the preshared.
Secret == {"full", "masked"}
Row == [uuid: Policies, client: BOOLEAN, conf: Confs \cup {Incomplete},
        key: Secret, psk: Secret, routes: SUBSET Nets, extra: Extras]
\* WireGuardClientPolicy, as to_gateway compares it.
Dto == [uuid: Policies, conf: Confs, key: Secret, psk: Secret, routes: SUBSET Nets]

\* A post; "clean" is history: the row is still as it was read.
Post == [kind: {"update", "add", "delete"}, row: Row,
         expected: Dto \cup {NoCall}, clean: BOOLEAN]
Job == [expected: Dto, routes: SUBSET Nets]

ASSUME RoutesAssumption ==
    /\ Incomplete \notin Confs
    /\ Mine \in Gateways
    /\ OtherRows \subseteq Row /\ \A r \in OtherRows : r.key = "full" /\ r.psk = "full"
    /\ NoCall \notin Post /\ NoCall \notin Job
    /\ MaxPosted \in Nat \ {0}

VARIABLES
    rows,        \* the project's policies in the cloud
    posted,      \* what the cloud has accepted and not applied yet
    at,          \* control state
    job,         \* the call: update or refresh
    snapshot,    \* the policies that the caller got from the last refresh
    outgoing,    \* the row to post, with where it comes from
    routesEnd    \* how the last call ended

routesVars == <<rows, posted, at, job, snapshot, outgoing, routesEnd>>

DtoOf(r) == [uuid |-> r.uuid, conf |-> r.conf, key |-> r.key, psk |-> r.psk,
             routes |-> r.routes]

\* What get_wireguard_vpn_info shows of a row: it may hide either secret.
Shown(r, hidden) ==
    [r EXCEPT !.key = IF "key" \in hidden THEN "masked" ELSE @,
              !.psk = IF "psk" \in hidden THEN "masked" ELSE @]

RoutesInit ==
    /\ rows \in {{r} : r \in OtherRows}
    /\ posted = <<>>
    /\ at = "idle" /\ job = NoCall /\ snapshot = {} /\ outgoing = NoCall
    /\ routesEnd = "none"

-----------------------------------------------------------------------------
(* The calls. *)

Ends(how) ==
    /\ at' = "idle" /\ job' = NoCall /\ outgoing' = NoCall /\ routesEnd' = how
    /\ UNCHANGED <<rows, posted>>
Raises == Ends("error") /\ UNCHANGED snapshot
Goes(s) ==
    /\ at' = s
    /\ UNCHANGED <<rows, posted, job, snapshot, outgoing, routesEnd>>

\* get_existing_wireguard_clients, called to look at the policies.
Refresh ==
    /\ at = "idle"
    /\ at' = "devices" /\ job' = NoCall /\ routesEnd' = "none"
    /\ UNCHANGED <<rows, posted, snapshot, outgoing>>

\* update_existing_wireguard_client_routes; an empty list is refused at once.
Update(e, nets) ==
    /\ at = "idle" /\ e \in snapshot
    /\ \/ nets = {} /\ Raises
       \/ /\ nets # {}
          /\ at' = "devices" /\ job' = [expected |-> e, routes |-> nets]
          /\ routesEnd' = "none"
          /\ UNCHANGED <<rows, posted, snapshot, outgoing>>

\* The project must have one gateway, the one named.
CheckGateway(gateways) ==
    /\ at = "devices"
    /\ \/ gateways = {Mine} /\ Goes("info")
       \/ gateways # {Mine} /\ Raises

\* Every client policy can be parsed, and no two have one identity.
Readable(clients) == /\ \A r \in clients : r.conf # Incomplete
                     /\ \A r, s \in clients : r.uuid = s.uuid => r = s

\* get_existing_wireguard_clients: one bad or ambiguous client policy spoils
\* the answer.  A refresh returns the policies, an update compares.
ReadPolicies(hidden) ==
    /\ at = "info"
    /\ LET clients == {r \in rows : r.client}
           policies == {DtoOf(Shown(r, hidden)) : r \in clients}
       IN  \/ ~Readable(clients) /\ Raises
           \/ Readable(clients) /\ job = NoCall /\ Ends("ok") /\ snapshot' = policies
           \/ /\ Readable(clients) /\ job # NoCall
              /\ \/ job.expected \in policies /\ Goes("raw")
                 \/ job.expected \notin policies /\ Raises

\* Mutant: a masked key is taken for a key.
UsableMasked(r) ==
    /\ r.client /\ r.conf # Incomplete
    /\ DtoOf(r) = job.expected

\* The raw row is a complete client policy, as the caller saw it, with its
\* private key; the preshared key is not looked at.
Usable(r) ==
    /\ r.client /\ r.conf # Incomplete
    /\ DtoOf(r) = job.expected
    /\ r.key = "full"

\* Mutant: the payload is built from the fields of the DTO.
PayloadFromDto(r) ==
    [r EXCEPT !.routes = job.routes, !.extra = CHOOSE x \in Extras : TRUE]

\* The whole row with the new routes.
Payload(r) == [r EXCEPT !.routes = job.routes]

\* The second read, of the raw rows: whatever has the uuid must be one row.
ReadRaw(hidden) ==
    /\ at = "raw"
    /\ LET matching == {r \in rows : r.uuid = job.expected.uuid} IN
       \/ /\ \A r \in matching : matching # {r} \/ ~Usable(Shown(r, hidden))
          /\ Raises
       \/ \E r \in matching :
            /\ matching = {r} /\ Usable(Shown(r, hidden))
            /\ \/ r.routes = job.routes /\ Ends("ok") /\ UNCHANGED snapshot
               \/ /\ r.routes # job.routes
                  /\ outgoing' = [kind |-> "update", row |-> Payload(Shown(r, hidden)),
                                  expected |-> job.expected, clean |-> TRUE]
                  /\ at' = "post"
                  /\ UNCHANGED <<rows, posted, job, snapshot, routesEnd>>

\* A read fails: transport, deadline, an error of the cloud, not a list.
RoutesReadFails == at \in {"devices", "info", "raw"} /\ Raises

\* _post, which is never replayed: the cloud takes the call or not, and if it
\* does its answer may be lost.
Sends(post) ==
    /\ at' = "idle" /\ job' = NoCall /\ outgoing' = NoCall
    /\ \/ /\ Len(posted) < MaxPosted
          /\ posted' = Append(posted, post)
          /\ routesEnd' \in {"ok", "error"}
       \/ routesEnd' = "error" /\ UNCHANGED posted
    /\ UNCHANGED <<rows, snapshot>>

\* update_wireguard_policy at the end of the update.
PostUpdate == at = "post" /\ Sends(outgoing)

\* add_wireguard_policy and delete_wireguard_policy: posts without a read.
PostDirectly(kind, r) ==
    /\ at = "idle" /\ kind \in {"add", "delete"}
    /\ Sends([kind |-> kind, row |-> r, expected |-> NoCall, clean |-> FALSE])

-----------------------------------------------------------------------------
(* The cloud and its other users. *)

\* Rows with uuid u were changed: nothing read before is up to date.
Spoil(post, u) == IF post.row.uuid = u THEN [post EXCEPT !.clean = FALSE] ELSE post
Changed(rest, u) ==
    /\ posted' = [i \in DOMAIN rest |-> Spoil(rest[i], u)]
    /\ outgoing' = IF outgoing = NoCall THEN NoCall ELSE Spoil(outgoing, u)

\* What a post does to the rows; an update of a row that is gone does nothing.
After(post) ==
    LET others == {r \in rows : r.uuid # post.row.uuid}
    IN  CASE post.kind = "update" -> IF others = rows THEN rows ELSE others \cup {post.row}
          [] post.kind = "add" -> rows \cup {post.row}
          [] post.kind = "delete" -> others

\* The cloud applies the oldest post.
CloudApplies ==
    /\ posted # <<>>
    /\ rows' = After(Head(posted))
    /\ Changed(Tail(posted), Head(posted).row.uuid)
    /\ UNCHANGED <<at, job, snapshot, routesEnd>>

\* It drops a post that it had accepted.
CloudDrops ==
    /\ posted # <<>>
    /\ posted' = Tail(posted)
    /\ UNCHANGED <<rows, at, job, snapshot, outgoing, routesEnd>>

\* Someone writes, replaces or removes a row.
OthersEdit(r) ==
    /\ \/ rows' = {s \in rows : s.uuid # r.uuid} \cup {r}
       \/ rows' = rows \cup {r} /\ Cardinality(rows) < 2
       \/ rows' = {s \in rows : s.uuid # r.uuid}
    /\ rows' # rows
    /\ Changed(posted, r.uuid)
    /\ UNCHANGED <<at, job, snapshot, routesEnd>>

RoutesNext ==
    \/ Refresh \/ RoutesReadFails \/ PostUpdate
    \/ \E gateways \in SUBSET Gateways : CheckGateway(gateways)
    \/ \E hidden \in SUBSET {"key", "psk"} : ReadPolicies(hidden) \/ ReadRaw(hidden)
    \/ \E e \in snapshot, nets \in SUBSET Nets : Update(e, nets)
    \/ \E kind \in {"add", "delete"}, r \in OtherRows : PostDirectly(kind, r)
    \/ CloudApplies \/ CloudDrops
    \/ \E r \in OtherRows : OthersEdit(r)

RoutesSpec == RoutesInit /\ [][RoutesNext]_routesVars

-----------------------------------------------------------------------------
(* Properties. *)

PostOK(p) == /\ p \in Post
             /\ p.kind = "update" => p.expected \in Dto

\* Every variable keeps its type, and a row to post is there only on its way out.
RoutesTypeOK ==
    /\ rows \subseteq Row
    /\ posted \in Seq(Post) /\ Len(posted) <= MaxPosted
    /\ at \in {"idle", "devices", "info", "raw", "post"}
    /\ job \in Job \cup {NoCall}
    /\ at \in {"raw", "post"} => job # NoCall
    /\ snapshot \subseteq Dto
    /\ IF at = "post" THEN outgoing \in Post /\ outgoing.kind = "update" ELSE outgoing = NoCall
    /\ routesEnd \in {"none", "ok", "error"}

\* No call ever destroys the private key of a policy, although the reads may
\* show it masked and a write replaces the whole row (client.py 870-872).
KeyMaterialSurvives == \A r \in rows : r.key = "full"

\* What an update makes of a row.
Rerouted(r, row) == [r EXCEPT !.routes = row.routes, !.psk = row.psk]

\* An update that reaches the row as it was last read changes its routes and
\* nothing else, fields unknown to pyruijie included (client.py 849-850), unless
\* that read hid the preshared key, which then goes back masked: what it may
\* undo of the rest is only what others did after that read.
UndisturbedUpdates ==
    [][\A p \in {posted[i] : i \in DOMAIN posted \cap {1}} :
         p.kind = "update" /\ p.clean /\ posted' # posted /\ rows' # rows
           /\ Len(posted') < Len(posted)
         => \E r \in rows : /\ rows' = (rows \ {r}) \cup {Rerouted(r, p.row)}
                            /\ p.row.psk \in {r.psk, "masked"}
      ]_routesVars

\* "Refuse stale snapshots instead of overwriting concurrent changes"
\* (client.py 850): the policy that an update replaces is the expected one.
StaleSnapshotsRefused ==
    [][\A p \in {posted[i] : i \in DOMAIN posted \cap {1}} :
         p.kind = "update" /\ Len(posted') < Len(posted) /\ rows' # rows
         => p.expected \in {DtoOf(r) : r \in rows}
      ]_routesVars
==============================================================================
