---------------------------- MODULE SitePolicies ----------------------------
(***************************************************************************)
(* The peers of a hub and the WireGuard client policies of the sites they  *)
(* stand for, and the administrators who keep the two in step: scans for   *)
(* drift (workflows/drift.py), reconciliation of one site (wireguard.py    *)
(* 739-889) and batches that move sites to another hub endpoint            *)
(* (workflows/endpoint.py).  Every change is a read of a whole policy and  *)
(* a push of it, on the hub or on a site, and administrators interleave.   *)
(* Here a push takes effect before it is answered; HubPolicy treats the    *)
(* ones that do so later.                                                  *)
(***************************************************************************)
CONSTANTS
    Admins,
    Sites,                           \* site gateways; also the peers' uuids
    TunnelIps, PubKeys, Psks, Endpoints,
    NoPsk, NoEndpoint,
    InitialHub,      \* the peers of the hub at first
    InitialSites,    \* the client policies that the sites may have at first
    PreferHub,       \* prefer_hub
    Expected,        \* expected_endpoint, or NoEndpoint
    Old, New         \* expected_old_endpoint, or NoEndpoint, and new_endpoint

Fields == {"ip", "key", "psk", "endpoint"}
SitePeer == [uuid: Sites, ip: TunnelIps, key: PubKeys, psk: Psks \cup {NoPsk}]
ClientPolicy == [ip: TunnelIps, key: PubKeys, psk: Psks \cup {NoPsk}, endpoint: Endpoints]

\* No two peers share an identity: _validate_snapshot_entries accepts no other
\* list of peers, so the hub cannot be read without it.
ReadableList(peers) == \A p, q \in peers : p.uuid = q.uuid => p = q
OneByIp(peers) == \A p, q \in peers : p.ip = q.ip => p = q

ASSUME SiteAssumption ==
    /\ InitialHub \subseteq SitePeer /\ ReadableList(InitialHub) /\ OneByIp(InitialHub)
    /\ Sites # {} /\ \A s \in Sites : \E p \in InitialHub : p.uuid = s
    /\ InitialSites \subseteq [Sites -> ClientPolicy]
    /\ PreferHub \in BOOLEAN
    /\ NoPsk \notin Psks /\ NoEndpoint \notin Endpoints
    /\ Expected \in Endpoints \cup {NoEndpoint}
    /\ Old \in Endpoints \cup {NoEndpoint} /\ New \in Endpoints

VARIABLES
    hubPeers,    \* the peers on the hub
    site,        \* [Sites -> the client policy of the gateway]
    task,        \* [Admins -> the operation called last]
    phase,       \* [Admins -> control state]
    todo,        \* [Admins -> the sites of the batch that are left]
    atSite,      \* [Admins -> the site at hand]
    peers,       \* [Admins -> the copy of the hub's peers]
    policy,      \* [Admins -> the copy of the site's policy, if there is one]
    fixPlan,     \* [Admins -> the reconciliation plan, if there is one]
    report,      \* [Admins -> [Sites -> what became of the site]]
    first,       \* history: the policies of the sites at first
    undisturbed  \* history: [Admins -> nobody else has written since the start]

gateways == <<hubPeers, site>>
copies == <<peers, policy, fixPlan>>
adminLocals == <<todo, atSite, copies>>
history == <<first, undisturbed>>
sitesVars == <<gateways, task, phase, adminLocals, report, history>>

Statuses == {"none", "in-sync", "drift", "unreachable", "already-configured",
             "wrong-old-endpoint", "planned", "updated", "failed", "fixed"}
NoReport == [s \in Sites |-> "none"]
Home == CHOOSE s \in Sites : TRUE

SitesInit ==
    /\ hubPeers = InitialHub
    /\ site \in InitialSites
    /\ task = [a \in Admins |-> "none"]
    /\ phase = [a \in Admins |-> "idle"]
    /\ todo = [a \in Admins |-> {}]
    /\ atSite = [a \in Admins |-> Home]
    /\ peers = [a \in Admins |-> {}]
    /\ policy = [a \in Admins |-> {}]
    /\ fixPlan = [a \in Admins |-> {}]
    /\ report = [a \in Admins |-> NoReport]
    /\ first = site
    /\ undisturbed = [a \in Admins |-> TRUE]

-----------------------------------------------------------------------------
(* Drift and plans. *)

PeersOf(s, list) == {p \in list : p.uuid = s}

\* detect_drift: the fields in which a peer and a policy differ.
Drifts(p, c) ==
    {f \in {"ip", "key"} : p[f] # c[f]}
      \cup {f \in {"psk"} : p[f] # c[f] /\ NoPsk \notin {p[f], c[f]}}
      \cup {f \in {"endpoint"} : Expected # NoEndpoint /\ c[f] # Expected}

\* Mutant: the other way round.
HubSideSwapped == IF PreferHub THEN {"ip", "psk"} ELSE {"key"}
\* The fields that are corrected on the hub.
HubSide == IF PreferHub THEN {"key"} ELSE {"ip", "psk"}

\* Mutant: a site is told to keep the values that it has.
PlannedActual(p, c) ==
    [ip |-> p.ip,
     hub |-> [f \in Drifts(p, c) \cap HubSide |-> c[f]],
     site |-> [f \in Drifts(p, c) \ HubSide |-> c[f]]]

\* generate_reconciliation_plan.  The hub gets the site's values and the site
\* the hub's, but a key that is corrected on the site is the site's own
\* ("expected" of a peer_pubkey drift is the site's key).
Planned(p, c) ==
    LET expected == [f \in Fields |-> CASE f = "endpoint" -> Expected
                                        [] f = "key" -> c[f]
                                        [] f \in {"ip", "psk"} -> p[f]]
    IN  [ip |-> p.ip,
         hub |-> [f \in Drifts(p, c) \cap HubSide |-> c[f]],
         site |-> [f \in Drifts(p, c) \ HubSide |-> expected[f]]]

\* r with the values of some of its fields replaced.
Updated(r, values) ==
    [f \in DOMAIN r |-> IF f \in DOMAIN values THEN values[f] ELSE r[f]]

-----------------------------------------------------------------------------
(* Control flow shared by the steps. *)

At(a, operation, s) == task[a] = operation /\ phase[a] = s
GoTo(a, s) == phase' = [phase EXCEPT ![a] = s] /\ UNCHANGED task
Reported(a, status) == report' = [report EXCEPT ![a][atSite[a]] = status]

\* The locals of an operation are gone when it ends.
Leave(a) ==
    /\ todo' = [todo EXCEPT ![a] = {}]
    /\ atSite' = [atSite EXCEPT ![a] = Home]
    /\ peers' = [peers EXCEPT ![a] = {}]
    /\ policy' = [policy EXCEPT ![a] = {}]
    /\ fixPlan' = [fixPlan EXCEPT ![a] = {}]

Return(a) == GoTo(a, "done") /\ Leave(a)

\* An exception ends the operation, and its report is lost.
Raise(a) ==
    /\ GoTo(a, "raised") /\ Leave(a)
    /\ report' = [report EXCEPT ![a] = NoReport]

\* The site at hand is done with; the batch goes on.
NextSite(a, status) ==
    /\ Reported(a, status)
    /\ GoTo(a, "pick")
    /\ todo' = [todo EXCEPT ![a] = @ \ {atSite[a]}]
    /\ policy' = [policy EXCEPT ![a] = {}]
    /\ UNCHANGED <<atSite, peers, fixPlan>>

Pick(a) ==
    /\ phase[a] = "pick"
    /\ \/ todo[a] = {} /\ Return(a)
       \/ \E s \in todo[a] :
            /\ atSite' = [atSite EXCEPT ![a] = s] /\ GoTo(a, "site")
            /\ UNCHANGED <<todo, copies>>
    /\ UNCHANGED <<gateways, report, history>>

\* A write makes what others have read out of date.
Wrote(a) == undisturbed' = [b \in Admins |-> b = a /\ undisturbed[b]] /\ UNCHANGED first

\* An operation starts; the report of the one before is gone.
Begin(a, operation, s) ==
    /\ phase[a] \in {"idle", "done", "raised"}
    /\ task' = [task EXCEPT ![a] = operation]
    /\ phase' = [phase EXCEPT ![a] = s]
    /\ report' = [report EXCEPT ![a] = NoReport]
    /\ undisturbed' = [undisturbed EXCEPT ![a] = TRUE]
    /\ UNCHANGED <<gateways, copies, first>>

-----------------------------------------------------------------------------
(* detect_hub_drift: one snapshot of the hub, then every site in turn. *)

Scan(a) == Begin(a, "scan", "hub") /\ UNCHANGED <<todo, atSite>>

\* get_server_policy, and peer_filter.
ScanHub(a) ==
    /\ At(a, "scan", "hub")
    /\ \/ /\ ReadableList(hubPeers)
          /\ peers' = [peers EXCEPT ![a] = hubPeers]
          /\ \E wanted \in SUBSET Sites : todo' = [todo EXCEPT ![a] = wanted]
          /\ GoTo(a, "pick")
          /\ UNCHANGED <<atSite, policy, fixPlan, report>>
       \/ Raise(a)
    /\ UNCHANGED <<gateways, history>>

\* Mutant: a site that cannot be asked counts as in step.
ScanSiteLenient(a) ==
    /\ At(a, "scan", "site")
    /\ \/ \E p \in PeersOf(atSite[a], peers[a]) :
            NextSite(a, IF Drifts(p, site[atSite[a]]) = {} THEN "in-sync" ELSE "drift")
       \/ NextSite(a, "in-sync")
    /\ UNCHANGED <<gateways, history>>

ScanSite(a) ==
    /\ At(a, "scan", "site")
    /\ \/ \E p \in PeersOf(atSite[a], peers[a]) :
            NextSite(a, IF Drifts(p, site[atSite[a]]) = {} THEN "in-sync" ELSE "drift")
       \/ NextSite(a, "unreachable")
       \/ Raise(a)
    /\ UNCHANGED <<gateways, history>>

-----------------------------------------------------------------------------
(* Reconciliation of a site: what detect_drift finds is planned and applied. *)

Reconcile(a) ==
    /\ Begin(a, "fix", "hub")
    /\ \E s \in Sites : atSite' = [atSite EXCEPT ![a] = s]
    /\ UNCHANGED todo

ReadPeer(a) ==
    /\ At(a, "fix", "hub") /\ ReadableList(hubPeers)
    /\ peers' = [peers EXCEPT ![a] = PeersOf(atSite[a], hubPeers)]
    /\ GoTo(a, "site")
    /\ UNCHANGED <<gateways, todo, atSite, policy, fixPlan, report, history>>

\* get_client_policy, detect_drift and generate_reconciliation_plan.
MakePlan(a) ==
    /\ At(a, "fix", "site")
    /\ \E p \in peers[a] :
         LET new == Planned(p, site[atSite[a]])
             Then(s) == /\ GoTo(a, s)
                        /\ fixPlan' = [fixPlan EXCEPT ![a] = {new}]
                        /\ peers' = [peers EXCEPT ![a] = {}]
                        /\ UNCHANGED <<todo, atSite, policy, report>>
         IN  \/ DOMAIN new.hub # {} /\ Then("find")
             \/ DOMAIN new.hub = {} /\ DOMAIN new.site # {} /\ Then("reread")
             \/ /\ DOMAIN new.hub = {} /\ DOMAIN new.site = {}
                /\ Reported(a, "fixed") /\ Return(a)
    /\ UNCHANGED <<gateways, history>>

\* get_peer by the planned address; the copy of the peer is updated.
FindPeer(a) ==
    /\ At(a, "fix", "find") /\ ReadableList(hubPeers)
    /\ \E x \in fixPlan[a], p \in hubPeers :
         /\ p.ip = x.ip
         /\ peers' = [peers EXCEPT ![a] = {Updated(p, x.hub)}]
    /\ GoTo(a, "edit")
    /\ UNCHANGED <<gateways, todo, atSite, policy, fixPlan, report, history>>

\* update_peer(match_by="ip"): the peer that has the address of the updated
\* copy is replaced by that copy.
EditPeers(a) ==
    /\ At(a, "fix", "edit") /\ ReadableList(hubPeers)
    /\ \E new \in peers[a], p \in hubPeers :
         /\ p.ip = new.ip
         /\ peers' = [peers EXCEPT ![a] = (hubPeers \ {p}) \cup {new}]
    /\ GoTo(a, "pushHub")
    /\ UNCHANGED <<gateways, todo, atSite, policy, fixPlan, report, history>>

\* A read fails, or finds a list that is not ReadableList, or no peer that has the
\* address.
FixFails(a) ==
    /\ task[a] = "fix" /\ phase[a] \in {"hub", "site", "find", "edit", "reread"}
    /\ Raise(a)
    /\ UNCHANGED <<gateways, history>>

\* The site's part of the plan comes next, if there is one.
PushHub(a) ==
    /\ At(a, "fix", "pushHub")
    /\ hubPeers' = peers[a]
    /\ \E x \in fixPlan[a] :
         \/ /\ DOMAIN x.site # {} /\ GoTo(a, "reread")
            /\ peers' = [peers EXCEPT ![a] = {}]
            /\ UNCHANGED <<todo, atSite, policy, fixPlan, report>>
         \/ DOMAIN x.site = {} /\ Reported(a, "fixed") /\ Return(a)
         \/ Raise(a)                                     \* the answer is lost
    /\ Wrote(a)
    /\ UNCHANGED site

\* The site's policy is read again, and its copy updated.
ReadSiteAgain(a) ==
    /\ At(a, "fix", "reread")
    /\ \E x \in fixPlan[a] :
         policy' = [policy EXCEPT ![a] = {Updated(site[atSite[a]], x.site)}]
    /\ GoTo(a, "pushSite")
    /\ UNCHANGED <<gateways, todo, atSite, peers, fixPlan, report, history>>

PushSite(a) ==
    /\ At(a, "fix", "pushSite")
    /\ \E c \in policy[a] : site' = [site EXCEPT ![atSite[a]] = c]
    /\ (Reported(a, "fixed") /\ Return(a)) \/ Raise(a)
    /\ Wrote(a)
    /\ UNCHANGED hubPeers

\* A push is refused, or never arrives; or there is no site_client.
FixPushFails(a) ==
    /\ task[a] = "fix" /\ phase[a] \in {"pushHub", "pushSite"}
    /\ Raise(a)
    /\ UNCHANGED <<gateways, history>>

-----------------------------------------------------------------------------
(* update_site_endpoints. *)

Switch(a) ==
    /\ Begin(a, "switch", "pick")
    /\ \E targets \in SUBSET Sites : todo' = [todo EXCEPT ![a] = targets]
    /\ UNCHANGED atSite

\* Mutant: what the endpoint should have been is not checked.
UnexpectedNever(c) == FALSE

\* The site has neither the new endpoint nor the one it should have.
Unexpected(c) == c.endpoint # New /\ Old # NoEndpoint /\ c.endpoint # Old

\* get_client_policy and the checks; dry runs stop at "planned".
CheckSite(a) ==
    /\ At(a, "switch", "site")
    /\ LET c == site[atSite[a]]
       IN  \/ c.endpoint = New /\ NextSite(a, "already-configured")
           \/ Unexpected(c) /\ NextSite(a, "wrong-old-endpoint")
           \/ /\ c.endpoint # New /\ ~Unexpected(c)
              /\ \/ NextSite(a, "planned")
                 \/ GoTo(a, "reread") /\ UNCHANGED <<adminLocals, report>>
    /\ UNCHANGED <<gateways, history>>

\* The site cannot be reached; or the error is one that is not caught.
SiteUnreachable(a) ==
    /\ At(a, "switch", "site")
    /\ NextSite(a, "unreachable") \/ Raise(a)
    /\ UNCHANGED <<gateways, history>>

\* update_client_endpoint reads the policy again.
ReadForUpdate(a) ==
    /\ At(a, "switch", "reread")
    /\ policy' = [policy EXCEPT ![a] = {[site[atSite[a]] EXCEPT !.endpoint = New]}]
    /\ GoTo(a, "pushSite")
    /\ UNCHANGED <<gateways, todo, atSite, peers, fixPlan, report, history>>

PushEndpoint(a) ==
    /\ At(a, "switch", "pushSite")
    /\ \E c \in policy[a] : site' = [site EXCEPT ![atSite[a]] = c]
    /\ NextSite(a, "updated") \/ Raise(a)
    /\ Wrote(a)
    /\ UNCHANGED hubPeers

\* update_client_endpoint fails, with an error that is caught or not.
UpdateFails(a) ==
    /\ task[a] = "switch" /\ phase[a] \in {"reread", "pushSite"}
    /\ NextSite(a, "failed") \/ Raise(a)
    /\ UNCHANGED <<gateways, history>>

-----------------------------------------------------------------------------
SitesNext ==
    \E a \in Admins :
        \/ Scan(a) \/ ScanHub(a) \/ Pick(a) \/ ScanSite(a)
        \/ Reconcile(a) \/ FixFails(a) \/ ReadPeer(a) \/ MakePlan(a) \/ FindPeer(a)
        \/ EditPeers(a) \/ PushHub(a) \/ ReadSiteAgain(a) \/ PushSite(a) \/ FixPushFails(a)
        \/ Switch(a) \/ CheckSite(a) \/ SiteUnreachable(a) \/ ReadForUpdate(a)
        \/ PushEndpoint(a) \/ UpdateFails(a)

SitesSpec == SitesInit /\ [][SitesNext]_sitesVars

-----------------------------------------------------------------------------
(* Properties. *)

\* Every variable keeps its type; a plan names fields of the record it changes.
SitesTypeOK ==
    /\ hubPeers \subseteq SitePeer
    /\ site \in [Sites -> ClientPolicy]
    /\ task \in [Admins -> {"none", "scan", "fix", "switch"}]
    /\ phase \in [Admins -> {"idle", "done", "raised", "hub", "pick", "site", "find",
                          "edit", "pushHub", "reread", "pushSite"}]
    /\ todo \in [Admins -> SUBSET Sites] /\ atSite \in [Admins -> Sites]
    /\ peers \in [Admins -> SUBSET SitePeer]
    /\ policy \in [Admins -> SUBSET ClientPolicy]
    /\ \A a \in Admins : \A x \in fixPlan[a] :
         /\ x.ip \in TunnelIps
         /\ DOMAIN x.hub \subseteq Fields \ {"endpoint"} /\ DOMAIN x.site \subseteq Fields
    /\ report \in [Admins -> [Sites -> Statuses]]
    /\ first \in [Sites -> ClientPolicy] /\ undisturbed \in [Admins -> BOOLEAN]

InStep(s) == \E p \in hubPeers : p.uuid = s /\ Drifts(p, site[s]) = {}

\* "Generate a plan to fix detected drift" (wireguard.py 811): a
\* reconciliation that returned has fixed the drift, if nobody else wrote.
ReconcileFixes ==
    \A a \in Admins, s \in Sites :
        phase[a] = "done" /\ report[a][s] = "fixed" /\ undisturbed[a] => InStep(s)

\* Whatever overlaps, reconciling sites keeps one peer of each site on the
\* hub, at its address, with its own preshared key and a key that is its own
\* or the site's; and a site keeps its key, and an address and a preshared key
\* of its own or its peer's.
IdentitiesKept ==
    \A p \in InitialHub :
        LET s == p.uuid
        IN  /\ \E q \in hubPeers : /\ PeersOf(s, hubPeers) = {q}
                                   /\ q.ip = p.ip /\ q.psk = p.psk
                                   /\ q.key \in {p.key, first[s].key}
            /\ site[s].key = first[s].key
            /\ site[s].ip \in {first[s].ip, p.ip}
            /\ site[s].psk \in {first[s].psk, p.psk}

\* update_peer "replaces the matching peer" (wireguard.py 333), and a list with
\* a duplicate identity is no valid snapshot (48-49): reconciling one site
\* leaves the others their peers, and the hub a list that can be read.
PeersSurvive == ReadableList(hubPeers) /\ \A p \in InitialHub : PeersOf(p.uuid, hubPeers) # {}

\* "sites whose current endpoint does not match are reported as
\* wrong-old-endpoint and NOT modified" (endpoint.py 93-97), if nobody else
\* writes between the check and the update: the docstring makes no such
\* exception, but the update edits a second read that nothing compares.
OtherHubsSpared ==
    [][\A a \in Admins, s \in Sites :
         undisturbed[a] /\ report[a][s] # "updated" /\ report'[a][s] = "updated"
           => site[s].endpoint = Old /\ site'[s].endpoint = New]_sitesVars

\* A scan that nobody disturbed says of the sites it reached what is so: it
\* compares one snapshot of the hub with policies that it reads much later.
ScanExact ==
    \A a \in Admins, s \in Sites :
        phase[a] = "done" /\ undisturbed[a] =>
            /\ report[a][s] = "in-sync" => InStep(s)
            /\ report[a][s] = "drift" => ~InStep(s)
=============================================================================
