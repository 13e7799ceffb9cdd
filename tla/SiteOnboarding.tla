--------------------------- MODULE SiteOnboarding ---------------------------
(***************************************************************************)
(* The workflow onboard_site (workflows/site_onboarding.py 81-337), which  *)
(* managers run as well as add_hub_peers: it reads the hub twice, picks an *)
(* address, adds the site's peer on the hub and then configures the        *)
(* WireGuard client of the site's own gateway, which nothing ties to the   *)
(* hub.                                                                    *)
(***************************************************************************)
EXTENDS AddHubPeers

CONSTANTS
    Pool,      \* Seq(Addresses): site_network without .1, in order
    Jobs,      \* the calls of onboard_site
    NewUuid,   \* a uuid4: nothing here compares it
    NoIp       \* no address

\* A site is known by its public key; ip is preferred_peer_ip, or NoIp; client
\* is configure_site.
Job == [key: Keys, ip: Addresses \cup {NoIp}, client: BOOLEAN, apply: BOOLEAN]

ASSUME OnboardAssumption ==
    /\ NoIp \notin Addresses /\ NewUuid \in Uuids
    /\ Pool \in Seq(Addresses)
    /\ Jobs \subseteq Job

VARIABLES
    stage,       \* [Managers -> where onboard_site is]
    job,         \* [Managers -> the call]
    server,      \* [Managers -> peers of the first snapshot]
    peer_ip,     \* [Managers -> the address, or NoIp]
    hub_action,  \* [Managers -> what became of the hub step]
    site_action, \* [Managers -> what became of the site step]
    site         \* [Keys -> address the site's own gateway uses, or NoIp]

results == <<hub_action, site_action>>
onboarding == <<stage, job, server, peer_ip, results, site>>
allVars == <<vars, onboarding>>

\* "failed": returned with an error; "raised": an exception went through.
Ended == {"idle", "done", "failed", "raised"}

OnboardInit ==
    /\ Init
    /\ stage = [m \in Managers |-> "idle"]
    /\ job \in [Managers -> Jobs]
    /\ server = [m \in Managers |-> {}]
    /\ peer_ip = [m \in Managers |-> NoIp]
    /\ hub_action = [m \in Managers |-> "pending"]
    /\ site_action = [m \in Managers |-> "skipped"]
    /\ site = [k \in Keys |-> NoIp]

-----------------------------------------------------------------------------
(* Allocation of an address. *)

\* Mutant: the addresses in use are not looked at.
AllocatedBlindly(used, preferred) == {Pool[1]}

\* allocate_interface_ip: the preferred address if it is free and in the
\* network, else the first free one; nothing stands for the validation error.
Allocated(used, preferred) ==
    LET free == {i \in DOMAIN Pool : Pool[i] \notin used}
        first == {i \in free : \A j \in free : i <= j}
    IN  IF \E i \in free : Pool[i] = preferred
        THEN {preferred} ELSE {Pool[i] : i \in first}

-----------------------------------------------------------------------------
(* The workflow. *)

GoTo(m, s) == stage' = [stage EXCEPT ![m] = s]
SiteNeeded(m) == IF job[m].client THEN "site" ELSE "done"

OnboardSite(m) ==
    /\ stage[m] \in Ended /\ phase[m] \in {"idle", "done", "raised"}
    /\ Hasty \/ queue = <<>>
    /\ \E j \in Jobs : job' = [job EXCEPT ![m] = j]
    /\ server' = [server EXCEPT ![m] = {}]
    /\ peer_ip' = [peer_ip EXCEPT ![m] = NoIp]
    /\ hub_action' = [hub_action EXCEPT ![m] = "pending"]
    /\ site_action' = [site_action EXCEPT ![m] = "skipped"]
    /\ GoTo(m, "scope")
    /\ UNCHANGED <<vars, site>>

\* get_server_policy; a pinned address that a peer has already is kept.
Snapshot(m) ==
    /\ stage[m] = "scope"
    /\ server' = [server EXCEPT ![m] = hub]
    /\ IF job[m].ip \in AddressesOf(hub)
       THEN peer_ip' = [peer_ip EXCEPT ![m] = job[m].ip] /\ GoTo(m, "hub")
       ELSE GoTo(m, "allocate") /\ UNCHANGED peer_ip
    /\ UNCHANGED <<vars, job, results, site>>

\* allocate_next_peer_ip, which reads the policy again.
AllocateNextPeerIp(m) ==
    /\ stage[m] = "allocate"
    /\ LET ips == Allocated(AddressesOf(hub), job[m].ip)
       IN  \/ \E ip \in ips : peer_ip' = [peer_ip EXCEPT ![m] = ip] /\ GoTo(m, "hub")
           \/ ips = {} /\ GoTo(m, "failed") /\ UNCHANGED peer_ip
    /\ UNCHANGED <<vars, job, server, results, site>>

\* Either read fails; only a RuijieWireGuardError is turned into a result.
HubUnreadable(m) ==
    /\ stage[m] \in {"scope", "allocate"}
    /\ \E end \in {"failed", "raised"} : GoTo(m, end)
    /\ UNCHANGED <<vars, job, server, peer_ip, results, site>>

HubActed(m, action) == hub_action' = [hub_action EXCEPT ![m] = action]

\* The first snapshot has a peer with that address; or this is a dry run.
HubStepSkipped(m) ==
    /\ stage[m] = "hub"
    /\ \/ peer_ip[m] \in AddressesOf(server[m]) /\ HubActed(m, "already-exists")
       \/ /\ peer_ip[m] \notin AddressesOf(server[m]) /\ ~job[m].apply
          /\ HubActed(m, "planned")
    /\ GoTo(m, SiteNeeded(m))
    /\ UNCHANGED <<vars, job, server, peer_ip, site_action, site>>

SitePeer(m) == [uuid |-> NewUuid, ip |-> peer_ip[m], key |-> job[m].key]

\* Mutant: the peer is added to the first snapshot, without another read.
AddToSnapshot(m) ==
    /\ stage[m] = "hub" /\ job[m].apply
    /\ peer_ip[m] \notin AddressesOf(server[m])
    /\ op' = [op EXCEPT ![m] = AddOf(SitePeer(m))]
    /\ draft' = [draft EXCEPT ![m] = server[m] \cup {SitePeer(m)}]
    /\ pc' = [pc EXCEPT ![m] = "push"]
    /\ outcome' = [outcome EXCEPT ![m] = "none"]
    /\ GoTo(m, "adding")
    /\ UNCHANGED <<hub, queue, meddled, flow, job, server, peer_ip, results, site>>

\* add_site_peer is called.
AddSitePeer(m) ==
    /\ stage[m] = "hub" /\ job[m].apply
    /\ peer_ip[m] \notin AddressesOf(server[m])
    /\ Call(m, AddOf(SitePeer(m)))
    /\ GoTo(m, "adding")
    /\ UNCHANGED <<flow, job, server, peer_ip, results, site>>

\* add_site_peer is over.
SitePeerAdded(m) ==
    /\ stage[m] = "adding" /\ pc[m] = "idle"
    /\ \/ outcome[m] = "api" /\ GoTo(m, "raised") /\ UNCHANGED hub_action
       \/ outcome[m] = "wireguard" /\ GoTo(m, "failed") /\ HubActed(m, "failed")
       \/ /\ outcome[m] \in {"ok", "conflict"}
          /\ HubActed(m, Status(outcome[m]))
          /\ GoTo(m, SiteNeeded(m))
    /\ UNCHANGED <<vars, job, server, peer_ip, site_action, site>>

SiteActed(m, action) == site_action' = [site_action EXCEPT ![m] = action]

\* What the site's gateway may use after the policy was sent to it.
Sent(m) == {peer_ip[m], site[job[m].key]}

\* create_site_client_policy, with the address whatever the hub step came to.
CreateSiteClientPolicy(m) ==
    /\ stage[m] = "site"
    /\ \/ ~job[m].apply /\ SiteActed(m, "planned") /\ GoTo(m, "done")
          /\ UNCHANGED site
       \/ /\ job[m].apply
          /\ SiteActed(m, "configured") /\ GoTo(m, "done")
          /\ \E ip \in IF Timeouts /\ Drops THEN Sent(m) ELSE {peer_ip[m]} :
               site' = [site EXCEPT ![job[m].key] = ip]
       \/ /\ job[m].apply                    \* the login is refused
          /\ SiteActed(m, "failed") /\ GoTo(m, "failed")
          /\ UNCHANGED site
       \/ /\ job[m].apply                    \* RuijieApiError goes through
          /\ GoTo(m, "raised")
          /\ \E ip \in Sent(m) : site' = [site EXCEPT ![job[m].key] = ip]
          /\ UNCHANGED site_action
    /\ UNCHANGED <<vars, job, server, peer_ip, hub_action>>

OnboardStep(m) ==
    \/ OnboardSite(m) \/ Snapshot(m) \/ AllocateNextPeerIp(m) \/ HubUnreadable(m)
    \/ HubStepSkipped(m) \/ AddSitePeer(m) \/ SitePeerAdded(m)
    \/ CreateSiteClientPolicy(m)

OnboardNext ==
    \/ \E m \in Managers :
         \/ OnboardStep(m)
         \/ stage[m] \in Ended /\ Begin(m) /\ UNCHANGED onboarding
         \/ FlowStep(m) /\ UNCHANGED onboarding
    \/ (Gateway \/ \E m \in Managers : ManagerStep(m)) /\ UNCHANGED <<flow, onboarding>>

OnboardSpec == OnboardInit /\ [][OnboardNext]_allVars

-----------------------------------------------------------------------------
(* Properties. *)

\* Every variable keeps its type; an operation of HubPolicy belongs to one
\* workflow at a time.
OnboardTypeOK ==
    /\ TypeOK
    /\ stage \in [Managers -> Ended \cup {"scope", "allocate", "hub", "adding", "site"}]
    /\ job \in [Managers -> Jobs]
    /\ server \in [Managers -> SUBSET Peer]
    /\ peer_ip \in [Managers -> Addresses \cup {NoIp}]
    /\ hub_action \in [Managers -> Statuses \cup {"pending"}]
    /\ site_action \in [Managers -> {"skipped", "planned", "configured", "failed"}]
    /\ site \in [Keys -> Addresses \cup {NoIp}]
    /\ \A m \in Managers : phase[m] = "adding" => stage[m] \in Ended

\* Onboarding said that hub and site are done, and the hub has applied its part.
Onboarded(m) == Settled /\ stage[m] = "done" /\ site_action[m] = "configured"
Matches(m) == \E p \in hub : p.ip = peer_ip[m] /\ p.key = job[m].key

\* "do the hub add and then create the matching client policy on the site
\* gateway" (site_onboarding.py 12-13): the hub has the site's key at the
\* address that the site's gateway was given.
MatchingPolicy == \A m \in Managers : Onboarded(m) => Matches(m)

\* It is so for a site that the hub did not know and whose address is not
\* pinned, whatever failed in the attempts before.
FreshSitesMatch ==
    \A m \in Managers :
        /\ Onboarded(m) /\ job[m].ip = NoIp
        /\ \A p \in server[m] : p.key # job[m].key
        => Matches(m) /\ site[job[m].key] = peer_ip[m]
=============================================================================
