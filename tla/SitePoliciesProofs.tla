-------------------------- MODULE SitePoliciesProofs --------------------------
(***************************************************************************)
(* Proofs about SitePolicies: types, and that administrators who reconcile *)
(* sites by the hub (PreferHub) keep the identities of the sites, in       *)
(* whatever order their reads and pushes interleave.                       *)
(***************************************************************************)
EXTENDS SitePolicies, TLAPS

-----------------------------------------------------------------------------
(* Types. *)

FieldType(f) == CASE f = "ip" -> TunnelIps
                  [] f = "key" -> PubKeys
                  [] f = "psk" -> Psks \cup {NoPsk}
                  [] f = "endpoint" -> Endpoints

\* v gives some of the fields a value of their type.
ValuesFor(v, fields) ==
    DOMAIN v \subseteq fields /\ \A f \in DOMAIN v : v[f] \in FieldType(f)

PlanTyped(x) ==
    /\ x.ip \in TunnelIps
    /\ ValuesFor(x.hub, Fields \ {"endpoint"})
    /\ ValuesFor(x.site, Fields)

\* The locals of the administrators' operations.  SitesTypeOK says which fields
\* a plan has; that the copies are typed when a plan has been carried out takes
\* the types of their values, too.
LocalsTyped ==
    /\ task \in [Admins -> {"none", "scan", "fix", "switch"}]
    /\ phase \in [Admins -> {"idle", "done", "raised", "hub", "pick", "site", "find",
                          "edit", "pushHub", "reread", "pushSite"}]
    /\ todo \in [Admins -> SUBSET Sites] /\ atSite \in [Admins -> Sites]
    /\ peers \in [Admins -> SUBSET SitePeer]
    /\ policy \in [Admins -> SUBSET ClientPolicy]
    /\ fixPlan = [a \in Admins |-> fixPlan[a]]
    /\ \A a \in Admins : \A x \in fixPlan[a] : PlanTyped(x)

ReportTyped == report \in [Admins -> [Sites -> Statuses]]

GatewaysTyped ==
    /\ hubPeers \subseteq SitePeer /\ site \in [Sites -> ClientPolicy]
    /\ first \in [Sites -> ClientPolicy] /\ undisturbed \in [Admins -> BOOLEAN]

TypeInv == LocalsTyped /\ ReportTyped /\ GatewaysTyped

\* A typed peer or policy stays one when fields of it get values of their type.
LEMMA UpdatedPeer ==
    ASSUME NEW p \in SitePeer, NEW v, ValuesFor(v, Fields \ {"endpoint"})
    PROVE  Updated(p, v) \in SitePeer
BY DEF SitePeer, ValuesFor, Fields, FieldType, Updated

LEMMA UpdatedPolicy ==
    ASSUME NEW c \in ClientPolicy, NEW v, ValuesFor(v, Fields)
    PROVE  Updated(c, v) \in ClientPolicy
BY DEF ClientPolicy, ValuesFor, Fields, FieldType, Updated

\* The fields in which a peer and a policy differ are fields, and a plan made
\* for them is typed.
LEMMA PlannedTyped ==
    ASSUME NEW p \in SitePeer, NEW c \in ClientPolicy
    PROVE  PlanTyped(Planned(p, c))
<1>1. Drifts(p, c) \subseteq Fields
  BY DEF Drifts, Fields
<1>2. "endpoint" \in Drifts(p, c) => Expected \in Endpoints
  BY SiteAssumption DEF Drifts
<1>3. HubSide \subseteq Fields \ {"endpoint"}
  BY DEF HubSide, Fields
<1> DEFINE expected == [f \in Fields |-> CASE f = "endpoint" -> Expected
                                          [] f = "key" -> c[f]
                                          [] f \in {"ip", "psk"} -> p[f]]
<1>4. ASSUME NEW f \in Drifts(p, c)
      PROVE  /\ expected[f] \in FieldType(f)
             /\ f # "endpoint" => c[f] \in FieldType(f)
  BY <1>1, <1>2 DEF Fields, FieldType, SitePeer, ClientPolicy
<1>5. ValuesFor(Planned(p, c).hub, Fields \ {"endpoint"})
  BY <1>1, <1>3, <1>4 DEF Planned, ValuesFor
<1>6. ValuesFor(Planned(p, c).site, Fields)
  BY <1>1, <1>4 DEF Planned, ValuesFor
<1>7. Planned(p, c).ip \in TunnelIps
  BY DEF Planned, SitePeer
<1> QED BY <1>5, <1>6, <1>7 DEF PlanTyped

LEMMA TypeInvImplies == TypeInv => SitesTypeOK
BY DEF TypeInv, SitesTypeOK, LocalsTyped, ReportTyped, GatewaysTyped, PlanTyped, ValuesFor

LEMMA HomeType == Home \in Sites
BY SiteAssumption DEF Home

LEMMA TypeInit == SitesInit => TypeInv
<1> SUFFICES ASSUME SitesInit PROVE TypeInv
  OBVIOUS
<1>1. hubPeers \subseteq SitePeer /\ site \in [Sites -> ClientPolicy]
  BY SiteAssumption DEF SitesInit
<1>2. GatewaysTyped
  BY <1>1 DEF SitesInit, GatewaysTyped
<1>3. ReportTyped
  BY DEF SitesInit, ReportTyped, NoReport, Statuses
<1>4. LocalsTyped
  BY HomeType DEF SitesInit, LocalsTyped
<1> QED BY <1>2, <1>3, <1>4 DEF TypeInv

\* The ways an operation goes on leave its locals and its report typed.
LEMMA ReturnTyped ==
    ASSUME TypeInv, NEW a \in Admins, Return(a)
    PROVE  LocalsTyped'
BY HomeType DEF TypeInv, LocalsTyped, Return, GoTo, Leave

LEMMA ReportedTyped ==
    ASSUME TypeInv, NEW a \in Admins, NEW status \in Statuses, Reported(a, status)
    PROVE  ReportTyped'
<1>1. atSite[a] \in Sites /\ report[a] \in [Sites -> Statuses]
  BY DEF TypeInv, LocalsTyped, ReportTyped
<1>2. [report[a] EXCEPT ![atSite[a]] = status] \in [Sites -> Statuses]
  BY <1>1
<1> QED BY <1>2 DEF TypeInv, ReportTyped, Reported

LEMMA RaiseTyped ==
    ASSUME TypeInv, NEW a \in Admins, Raise(a)
    PROVE  LocalsTyped' /\ ReportTyped'
<1>1. LocalsTyped'
  BY HomeType DEF TypeInv, LocalsTyped, Raise, GoTo, Leave
<1>2. NoReport \in [Sites -> Statuses]
  BY DEF NoReport, Statuses
<1>3. ReportTyped'
  BY <1>2 DEF TypeInv, ReportTyped, Raise
<1> QED BY <1>1, <1>3

LEMMA NextSiteTyped ==
    ASSUME TypeInv, NEW a \in Admins, NEW status \in Statuses, NextSite(a, status)
    PROVE  LocalsTyped' /\ ReportTyped'
<1>1. ReportTyped'
  BY ReportedTyped DEF NextSite
<1>2. LocalsTyped'
  BY DEF TypeInv, LocalsTyped, NextSite, GoTo
<1> QED BY <1>1, <1>2

LEMMA BeginTyped ==
    ASSUME TypeInv, NEW a \in Admins, NEW operation \in {"scan", "fix", "switch"},
           NEW s \in {"hub", "pick"}, Begin(a, operation, s),
           todo' \in [Admins -> SUBSET Sites], atSite' \in [Admins -> Sites]
    PROVE  TypeInv'
<1>1. LocalsTyped'
  BY DEF TypeInv, LocalsTyped, Begin, copies
<1>2. NoReport \in [Sites -> Statuses]
  BY DEF NoReport, Statuses
<1>3. ReportTyped'
  BY <1>2 DEF TypeInv, ReportTyped, Begin
<1>4. GatewaysTyped'
  BY DEF TypeInv, GatewaysTyped, Begin, gateways
<1> QED BY <1>1, <1>3, <1>4 DEF TypeInv

LEMMA WroteTyped ==
    ASSUME TypeInv, NEW a \in Admins, Wrote(a)
    PROVE  first' \in [Sites -> ClientPolicy] /\ undisturbed' \in [Admins -> BOOLEAN]
BY DEF TypeInv, GatewaysTyped, Wrote

LEMMA NothingWritten ==
    ASSUME TypeInv, UNCHANGED <<gateways, history>>
    PROVE  GatewaysTyped'
BY DEF TypeInv, GatewaysTyped, gateways, history

\* Every step keeps the types.
LEMMA TypeStep == TypeInv /\ [SitesNext]_sitesVars => TypeInv'
<1> SUFFICES ASSUME TypeInv, [SitesNext]_sitesVars PROVE TypeInv'
  OBVIOUS
<1>1. CASE UNCHANGED sitesVars
  BY <1>1 DEF TypeInv, LocalsTyped, ReportTyped, GatewaysTyped, sitesVars, gateways, adminLocals,
              copies, history
<1>2. ASSUME NEW a \in Admins, Scan(a) PROVE TypeInv'
  BY <1>2, BeginTyped DEF Scan, TypeInv, LocalsTyped
<1>3. ASSUME NEW a \in Admins, Reconcile(a) PROVE TypeInv'
  <2>1. atSite' \in [Admins -> Sites] /\ todo' \in [Admins -> SUBSET Sites]
    BY <1>3 DEF Reconcile, TypeInv, LocalsTyped
  <2> QED BY <1>3, <2>1, BeginTyped DEF Reconcile
<1>4. ASSUME NEW a \in Admins, Switch(a) PROVE TypeInv'
  <2>1. atSite' \in [Admins -> Sites] /\ todo' \in [Admins -> SUBSET Sites]
    BY <1>4 DEF Switch, TypeInv, LocalsTyped
  <2> QED BY <1>4, <2>1, BeginTyped DEF Switch
<1>5. ASSUME NEW a \in Admins, ScanHub(a) PROVE TypeInv'
  <2>1. CASE Raise(a)
    BY <1>5, <2>1, RaiseTyped, NothingWritten DEF ScanHub, TypeInv
  <2>2. CASE ~Raise(a)
    <3>1. PICK wanted \in SUBSET Sites :
            /\ peers' = [peers EXCEPT ![a] = hubPeers]
            /\ todo' = [todo EXCEPT ![a] = wanted]
            /\ GoTo(a, "pick")
            /\ UNCHANGED <<atSite, policy, fixPlan, report>>
      BY <1>5, <2>2 DEF ScanHub
    <3>2. hubPeers \in SUBSET SitePeer
      BY DEF TypeInv, GatewaysTyped
    <3>3. LocalsTyped'
      BY <3>1, <3>2 DEF TypeInv, LocalsTyped, GoTo
    <3>4. ReportTyped'
      BY <3>1 DEF TypeInv, ReportTyped
    <3> QED BY <1>5, <3>3, <3>4, NothingWritten DEF ScanHub, TypeInv
  <2> QED BY <2>1, <2>2
<1>6. ASSUME NEW a \in Admins, Pick(a) PROVE TypeInv'
  <2>1. ReportTyped' /\ GatewaysTyped'
    BY <1>6, NothingWritten DEF Pick, TypeInv, ReportTyped
  <2>2. CASE Return(a)
    BY <2>1, <2>2, ReturnTyped DEF TypeInv
  <2>3. CASE ~Return(a)
    <3>1. LocalsTyped'
      BY <1>6, <2>3 DEF Pick, TypeInv, LocalsTyped, GoTo, copies
    <3> QED BY <2>1, <3>1 DEF TypeInv
  <2> QED BY <2>2, <2>3
<1>7. ASSUME NEW a \in Admins, ScanSite(a) PROVE TypeInv'
  <2>1. \/ Raise(a)
        \/ \E status \in {"in-sync", "drift", "unreachable"} : NextSite(a, status)
    BY <1>7 DEF ScanSite
  <2>2. LocalsTyped' /\ ReportTyped'
    BY <2>1, RaiseTyped, NextSiteTyped DEF Statuses
  <2> QED BY <1>7, <2>2, NothingWritten DEF ScanSite, TypeInv
<1>8. ASSUME NEW a \in Admins, FixFails(a) PROVE TypeInv'
  BY <1>8, RaiseTyped, NothingWritten DEF FixFails, TypeInv
<1>9. ASSUME NEW a \in Admins, ReadPeer(a) PROVE TypeInv'
  <2>1. LocalsTyped' /\ ReportTyped'
    BY <1>9 DEF ReadPeer, TypeInv, LocalsTyped, ReportTyped, GatewaysTyped, GoTo, PeersOf
  <2> QED BY <1>9, <2>1, NothingWritten DEF ReadPeer, TypeInv
<1>10. ASSUME NEW a \in Admins, MakePlan(a) PROVE TypeInv'
  <2>1. PICK p \in peers[a] :
          LET new == Planned(p, site[atSite[a]])
          IN  \/ /\ \E s \in {"find", "reread"} : GoTo(a, s)
                 /\ fixPlan' = [fixPlan EXCEPT ![a] = {new}]
                 /\ peers' = [peers EXCEPT ![a] = {}]
                 /\ UNCHANGED <<todo, atSite, policy, report>>
              \/ Reported(a, "fixed") /\ Return(a)
    BY <1>10 DEF MakePlan
  <2>2. p \in SitePeer /\ site[atSite[a]] \in ClientPolicy
    BY DEF TypeInv, LocalsTyped, GatewaysTyped
  <2>3. CASE Reported(a, "fixed") /\ Return(a)
    BY <1>10, <2>3, ReportedTyped, ReturnTyped, NothingWritten DEF MakePlan, TypeInv, Statuses
  <2>4. CASE ~(Reported(a, "fixed") /\ Return(a))
    <3> DEFINE new == Planned(p, site[atSite[a]])
    <3>1. PlanTyped(new)
      BY <2>2, PlannedTyped
    <3>2. PICK s \in {"find", "reread"} :
            /\ GoTo(a, s)
            /\ fixPlan' = [fixPlan EXCEPT ![a] = {new}]
            /\ peers' = [peers EXCEPT ![a] = {}]
            /\ UNCHANGED <<todo, atSite, policy, report>>
      BY <2>1, <2>4
    <3> HIDE DEF new
    <3>3. LocalsTyped' /\ ReportTyped'
      BY <3>1, <3>2 DEF TypeInv, LocalsTyped, ReportTyped, GoTo
    <3> QED BY <1>10, <3>3, NothingWritten DEF MakePlan, TypeInv
  <2> QED BY <2>3, <2>4
<1>11. ASSUME NEW a \in Admins, FindPeer(a) PROVE TypeInv'
  <2>1. PICK x \in fixPlan[a], p \in hubPeers : peers' = [peers EXCEPT ![a] = {Updated(p, x.hub)}]
    BY <1>11 DEF FindPeer
  <2>2. p \in SitePeer /\ PlanTyped(x)
    BY DEF TypeInv, LocalsTyped, GatewaysTyped
  <2>3. Updated(p, x.hub) \in SitePeer
    BY <2>2, UpdatedPeer DEF PlanTyped
  <2>4. LocalsTyped' /\ ReportTyped'
    BY <1>11, <2>1, <2>3 DEF FindPeer, TypeInv, LocalsTyped, ReportTyped, GoTo
  <2> QED BY <1>11, <2>4, NothingWritten DEF FindPeer, TypeInv
<1>12. ASSUME NEW a \in Admins, EditPeers(a) PROVE TypeInv'
  <2>1. PICK new \in peers[a], p \in hubPeers :
               peers' = [peers EXCEPT ![a] = (hubPeers \ {p}) \cup {new}]
    BY <1>12 DEF EditPeers
  <2>2. (hubPeers \ {p}) \cup {new} \subseteq SitePeer
    BY DEF TypeInv, LocalsTyped, GatewaysTyped
  <2>3. LocalsTyped' /\ ReportTyped'
    BY <1>12, <2>1, <2>2 DEF EditPeers, TypeInv, LocalsTyped, ReportTyped, GoTo
  <2> QED BY <1>12, <2>3, NothingWritten DEF EditPeers, TypeInv
<1>13. ASSUME NEW a \in Admins, PushHub(a) PROVE TypeInv'
  <2>1. GatewaysTyped'
    BY <1>13, WroteTyped DEF PushHub, TypeInv, LocalsTyped, GatewaysTyped
  <2>2. CASE Raise(a)
    BY <2>1, <2>2, RaiseTyped DEF TypeInv
  <2>3. CASE Reported(a, "fixed") /\ Return(a)
    BY <2>1, <2>3, ReportedTyped, ReturnTyped DEF TypeInv, Statuses
  <2>4. CASE /\ GoTo(a, "reread")
             /\ peers' = [peers EXCEPT ![a] = {}]
             /\ UNCHANGED <<todo, atSite, policy, fixPlan, report>>
    BY <2>1, <2>4 DEF TypeInv, LocalsTyped, ReportTyped, GoTo
  <2> QED BY <1>13, <2>2, <2>3, <2>4 DEF PushHub
<1>14. ASSUME NEW a \in Admins, ReadSiteAgain(a) PROVE TypeInv'
  <2>1. PICK x \in fixPlan[a] : policy' = [policy EXCEPT ![a] = {Updated(site[atSite[a]], x.site)}]
    BY <1>14 DEF ReadSiteAgain
  <2>2. site[atSite[a]] \in ClientPolicy /\ PlanTyped(x)
    BY DEF TypeInv, LocalsTyped, GatewaysTyped
  <2>3. Updated(site[atSite[a]], x.site) \in ClientPolicy
    BY <2>2, UpdatedPolicy DEF PlanTyped
  <2>4. LocalsTyped' /\ ReportTyped'
    BY <1>14, <2>1, <2>3 DEF ReadSiteAgain, TypeInv, LocalsTyped, ReportTyped, GoTo
  <2> QED BY <1>14, <2>4, NothingWritten DEF ReadSiteAgain, TypeInv
<1>15. ASSUME NEW a \in Admins, PushSite(a) PROVE TypeInv'
  <2>1. GatewaysTyped'
    BY <1>15, WroteTyped DEF PushSite, TypeInv, LocalsTyped, GatewaysTyped
  <2>2. LocalsTyped' /\ ReportTyped'
    BY <1>15, ReportedTyped, ReturnTyped, RaiseTyped DEF PushSite, Statuses
  <2> QED BY <2>1, <2>2 DEF TypeInv
<1>16. ASSUME NEW a \in Admins, FixPushFails(a) PROVE TypeInv'
  BY <1>16, RaiseTyped, NothingWritten DEF FixPushFails, TypeInv
<1>17. ASSUME NEW a \in Admins, CheckSite(a) PROVE TypeInv'
  <2>1. CASE GoTo(a, "reread") /\ UNCHANGED <<adminLocals, report>>
    <3>1. LocalsTyped' /\ ReportTyped'
      BY <2>1 DEF TypeInv, LocalsTyped, ReportTyped, GoTo, adminLocals, copies
    <3> QED BY <1>17, <3>1, NothingWritten DEF CheckSite, TypeInv
  <2>2. CASE \E status \in {"already-configured", "wrong-old-endpoint", "planned"} :
               NextSite(a, status)
    BY <1>17, <2>2, NextSiteTyped, NothingWritten DEF CheckSite, TypeInv, Statuses
  <2> QED BY <1>17, <2>1, <2>2 DEF CheckSite
<1>18. ASSUME NEW a \in Admins, SiteUnreachable(a) PROVE TypeInv'
  BY <1>18, RaiseTyped, NextSiteTyped, NothingWritten DEF SiteUnreachable, TypeInv, Statuses
<1>19. ASSUME NEW a \in Admins, ReadForUpdate(a) PROVE TypeInv'
  <2>1. [site[atSite[a]] EXCEPT !.endpoint = New] \in ClientPolicy
    BY SMTT(30), SiteAssumption DEF TypeInv, LocalsTyped, GatewaysTyped, ClientPolicy
  <2>2. LocalsTyped' /\ ReportTyped'
    BY <1>19, <2>1 DEF ReadForUpdate, TypeInv, LocalsTyped, ReportTyped, GoTo
  <2> QED BY <1>19, <2>2, NothingWritten DEF ReadForUpdate, TypeInv
<1>20. ASSUME NEW a \in Admins, PushEndpoint(a) PROVE TypeInv'
  <2>1. GatewaysTyped'
    BY <1>20, WroteTyped DEF PushEndpoint, TypeInv, LocalsTyped, GatewaysTyped
  <2>2. LocalsTyped' /\ ReportTyped'
    BY <1>20, NextSiteTyped, RaiseTyped DEF PushEndpoint, Statuses
  <2> QED BY <2>1, <2>2 DEF TypeInv
<1>21. ASSUME NEW a \in Admins, UpdateFails(a) PROVE TypeInv'
  BY <1>21, RaiseTyped, NextSiteTyped, NothingWritten DEF UpdateFails, TypeInv, Statuses
<1> QED
  BY <1>1, <1>2, <1>3, <1>4, <1>5, <1>6, <1>7, <1>8, <1>9, <1>10, <1>11,
     <1>12, <1>13, <1>14, <1>15, <1>16, <1>17, <1>18, <1>19, <1>20, <1>21 DEF SitesNext

\* Every variable keeps its type, whichever side is preferred.
THEOREM TypesKept == SitesSpec => []SitesTypeOK
<1>1. SitesInit => TypeInv
  BY TypeInit
<1>2. TypeInv /\ [SitesNext]_sitesVars => TypeInv'
  BY TypeStep
<1>3. TypeInv => SitesTypeOK
  BY TypeInvImplies
<1> QED BY <1>1, <1>2, <1>3, PTL DEF SitesSpec

-----------------------------------------------------------------------------
(* Identities: was is the sites' policies at first. *)

\* q is a peer as reconciliation may have left it.
KeptPeer(was, q) ==
    \E p \in InitialHub :
        /\ q.uuid = p.uuid /\ q.ip = p.ip /\ q.psk = p.psk
        /\ q.key \in {p.key, was[p.uuid].key}

\* A list in which every peer is still there, once.
KeptList(was, list) ==
    /\ ReadableList(list)
    /\ \A q \in list : KeptPeer(was, q)
    /\ \A p \in InitialHub : \E q \in list : q.uuid = p.uuid

\* c is the policy of s as reconciliation may have left it.
KeptPolicy(was, s, c) ==
    \E p \in InitialHub :
        /\ p.uuid = s
        /\ c.key = was[s].key
        /\ c.ip \in {was[s].ip, p.ip}
        /\ c.psk \in {was[s].psk, p.psk}

\* A plan for s: the hub learns the site's key, the site the peer's values.
PlanFor(was, s, x) ==
    \E p \in InitialHub :
        /\ p.uuid = s /\ x.ip = p.ip
        /\ DOMAIN x.hub \subseteq {"key"}
        /\ "key" \in DOMAIN x.hub => x.hub["key"] = was[s].key
        /\ DOMAIN x.site \subseteq {"ip", "psk", "endpoint"}
        /\ "ip" \in DOMAIN x.site => x.site["ip"] = p.ip
        /\ "psk" \in DOMAIN x.site => x.site["psk"] = p.psk

Fixing(a, stages) == task[a] = "fix" /\ phase[a] \in stages

\* What an administrator may bring to a gateway is kept wherever it waits: in
\* the peer that was read, the plan, the edited peer, list and policy.
AdminKept(a) ==
    /\ phase[a] = "pick" => task[a] # "fix"
    /\ Fixing(a, {"find", "edit", "pushHub", "reread"}) =>
         \A x \in fixPlan[a] : PlanFor(first, atSite[a], x)
    /\ Fixing(a, {"site"}) => \A q \in peers[a] : q.uuid = atSite[a]
    /\ Fixing(a, {"site", "edit"}) => \A q \in peers[a] : KeptPeer(first, q)
    /\ Fixing(a, {"pushHub"}) => KeptList(first, peers[a])
    /\ phase[a] = "pushSite" => \A c \in policy[a] : KeptPolicy(first, atSite[a], c)

GatewaysKept ==
    /\ KeptList(first, hubPeers)
    /\ \A s \in Sites : KeptPolicy(first, s, site[s])

IdentityInv == GatewaysKept /\ \A a \in Admins : AdminKept(a)

\* The initial list identifies a peer by its uuid and by its address.
LEMMA InitialIdentity ==
    ASSUME NEW p \in InitialHub, NEW q \in InitialHub, p.uuid = q.uuid \/ p.ip = q.ip
    PROVE  p = q
BY SiteAssumption DEF ReadableList, OneByIp

\* A plan made from a kept peer and a kept policy is a plan for their site.
LEMMA PlannedFor ==
    ASSUME PreferHub, NEW was, NEW p \in SitePeer, KeptPeer(was, p),
           NEW c \in ClientPolicy, KeptPolicy(was, p.uuid, c)
    PROVE  PlanFor(was, p.uuid, Planned(p, c))
<1>1. HubSide = {"key"} /\ Drifts(p, c) \subseteq Fields
  BY DEF HubSide, Drifts, Fields
<1>2. PICK i \in InitialHub : p.uuid = i.uuid /\ p.ip = i.ip /\ p.psk = i.psk
  BY DEF KeptPeer
<1>3. c.key = was[p.uuid].key
  BY DEF KeptPolicy
<1>4. /\ Planned(p, c).ip = p.ip
      /\ DOMAIN Planned(p, c).hub = Drifts(p, c) \cap HubSide
      /\ DOMAIN Planned(p, c).site = Drifts(p, c) \ HubSide
      /\ \A f \in Drifts(p, c) \cap HubSide : Planned(p, c).hub[f] = c[f]
  BY DEF Planned
<1>5. /\ "ip" \in DOMAIN Planned(p, c).site => Planned(p, c).site["ip"] = p.ip
      /\ "psk" \in DOMAIN Planned(p, c).site => Planned(p, c).site["psk"] = p.psk
  BY DEF Planned, Fields
<1>6. DOMAIN Planned(p, c).site \subseteq {"ip", "psk", "endpoint"}
  BY <1>1, <1>4 DEF Fields
<1> QED BY <1>1, <1>2, <1>3, <1>4, <1>5, <1>6 DEF PlanFor

\* The peer found at the planned address is the planned one, and gets the key
\* of its own site.
LEMMA EditedPeerKept ==
    ASSUME NEW was, NEW q \in SitePeer, KeptPeer(was, q), NEW s, NEW x,
           PlanFor(was, s, x), q.ip = x.ip
    PROVE  KeptPeer(was, Updated(q, x.hub))
<1>1. PICK p \in InitialHub :
        /\ p.uuid = s /\ x.ip = p.ip
        /\ DOMAIN x.hub \subseteq {"key"}
        /\ "key" \in DOMAIN x.hub => x.hub["key"] = was[s].key
  BY DEF PlanFor
<1>2. /\ q.uuid = p.uuid /\ q.ip = p.ip /\ q.psk = p.psk
      /\ q.key \in {p.key, was[p.uuid].key}
  BY <1>1, InitialIdentity DEF KeptPeer
<1> DEFINE new == Updated(q, x.hub)
<1>3. /\ new.uuid = q.uuid /\ new.ip = q.ip /\ new.psk = q.psk
      /\ new.key \in {q.key, was[s].key}
  BY <1>1 DEF Updated, SitePeer
<1> QED BY <1>1, <1>2, <1>3 DEF KeptPeer

LEMMA EditedPolicyKept ==
    ASSUME NEW was, NEW s, NEW c \in ClientPolicy, KeptPolicy(was, s, c), NEW x,
           PlanFor(was, s, x)
    PROVE  KeptPolicy(was, s, Updated(c, x.site))
<1>1. PICK p \in InitialHub :
        /\ p.uuid = s
        /\ DOMAIN x.site \subseteq {"ip", "psk", "endpoint"}
        /\ "ip" \in DOMAIN x.site => x.site["ip"] = p.ip
        /\ "psk" \in DOMAIN x.site => x.site["psk"] = p.psk
  BY DEF PlanFor
<1>2. /\ c.key = was[s].key
      /\ c.ip \in {was[s].ip, p.ip}
      /\ c.psk \in {was[s].psk, p.psk}
  BY <1>1, InitialIdentity DEF KeptPolicy
<1> DEFINE new == Updated(c, x.site)
<1>3. new.key = c.key /\ new.ip \in {c.ip, p.ip} /\ new.psk \in {c.psk, p.psk}
  BY <1>1 DEF Updated, ClientPolicy
<1> QED BY <1>1, <1>2, <1>3 DEF KeptPolicy

\* update_peer: the peer that has the address of the new one is the same peer,
\* so the list has each still once.
LEMMA EditedListKept ==
    ASSUME NEW was, NEW list, KeptList(was, list), NEW p \in list,
           NEW new, KeptPeer(was, new), p.ip = new.ip
    PROVE  KeptList(was, (list \ {p}) \cup {new})
<1>1. p.uuid = new.uuid
  BY InitialIdentity DEF KeptList, KeptPeer
<1>2. ReadableList((list \ {p}) \cup {new})
  BY <1>1 DEF KeptList, ReadableList
<1> QED BY <1>1, <1>2 DEF KeptList

-----------------------------------------------------------------------------
(* Steps. *)

\* The locals of everybody but a stay as they are.
OthersStay(a) ==
    /\ \A b \in Admins \ {a} :
         /\ task'[b] = task[b] /\ phase'[b] = phase[b] /\ atSite'[b] = atSite[b]
         /\ peers'[b] = peers[b] /\ policy'[b] = policy[b] /\ fixPlan'[b] = fixPlan[b]
    /\ first' = first

LEMMA OthersKept ==
    ASSUME IdentityInv, NEW a \in Admins, OthersStay(a), AdminKept(a)', GatewaysKept'
    PROVE  IdentityInv'
<1>1. ASSUME NEW b \in Admins \ {a} PROVE AdminKept(b)'
  <2>1. AdminKept(b)
    BY DEF IdentityInv
  <2> QED BY <2>1 DEF AdminKept, Fixing, OthersStay
<1> QED BY <1>1 DEF IdentityInv

\* Nothing is written.
LEMMA GatewaysStay ==
    ASSUME IdentityInv, UNCHANGED <<gateways, history>>
    PROVE  GatewaysKept'
BY DEF IdentityInv, GatewaysKept, gateways, history

\* An administrator who ends up here waits to write nothing.
Quiet(a) == phase[a] \in {"hub", "done", "raised"} \/ (phase[a] = "pick" /\ task[a] # "fix")

LEMMA QuietKept ==
    ASSUME IdentityInv, NEW a \in Admins, OthersStay(a), Quiet(a)', GatewaysKept'
    PROVE  IdentityInv'
<1>1. AdminKept(a)'
  BY DEF Quiet, AdminKept, Fixing
<1> QED BY <1>1, OthersKept

LEMMA EndsQuietly ==
    ASSUME TypeInv, NEW a \in Admins, Return(a) \/ Raise(a), first' = first
    PROVE  OthersStay(a) /\ Quiet(a)'
BY DEF TypeInv, LocalsTyped, OthersStay, Quiet, Return, Raise, Leave, GoTo

LEMMA NextSiteQuietly ==
    ASSUME TypeInv, NEW a \in Admins, NEW status, NextSite(a, status), first' = first,
           task[a] # "fix"
    PROVE  OthersStay(a) /\ Quiet(a)'
BY DEF TypeInv, LocalsTyped, OthersStay, Quiet, NextSite, GoTo

LEMMA BeginsQuietly ==
    ASSUME TypeInv, IdentityInv, NEW a \in Admins, NEW operation,
           NEW s \in {"hub", "pick"}, s = "pick" => operation # "fix",
           Begin(a, operation, s), \A b \in Admins \ {a} : atSite'[b] = atSite[b]
    PROVE  IdentityInv'
<1>1. OthersStay(a) /\ Quiet(a)'
  BY DEF TypeInv, LocalsTyped, OthersStay, Quiet, Begin, copies
<1>2. GatewaysKept'
  BY DEF IdentityInv, GatewaysKept, Begin, gateways
<1> QED BY <1>1, <1>2, QuietKept

\* Steps that end an operation, or the work on a site, and write nothing.
LEMMA QuietStep ==
    ASSUME TypeInv, IdentityInv, NEW a \in Admins, UNCHANGED <<gateways, history>>,
           \/ Return(a) \/ Raise(a)
           \/ task[a] # "fix" /\ \E status : NextSite(a, status)
    PROVE  IdentityInv'
BY EndsQuietly, NextSiteQuietly, GatewaysStay, QuietKept DEF history

\* Every step keeps the identities, if the hub is preferred.
LEMMA IdentityStep ==
    ASSUME PreferHub, TypeInv, IdentityInv, [SitesNext]_sitesVars
    PROVE  IdentityInv'
<1>1. CASE UNCHANGED sitesVars
  BY <1>1 DEF IdentityInv, GatewaysKept, AdminKept, Fixing, sitesVars, gateways, adminLocals,
              copies, history
<1>2. ASSUME NEW a \in Admins, Scan(a) PROVE IdentityInv'
  BY <1>2, BeginsQuietly DEF Scan
<1>3. ASSUME NEW a \in Admins, Reconcile(a) PROVE IdentityInv'
  <2>1. \A b \in Admins \ {a} : atSite'[b] = atSite[b]
    BY <1>3 DEF Reconcile, TypeInv, LocalsTyped
  <2> QED BY <1>3, <2>1, BeginsQuietly DEF Reconcile
<1>4. ASSUME NEW a \in Admins, Switch(a) PROVE IdentityInv'
  BY <1>4, BeginsQuietly DEF Switch
<1>5. ASSUME NEW a \in Admins, ScanHub(a) PROVE IdentityInv'
  <2>1. CASE Raise(a)
    BY <1>5, <2>1, QuietStep DEF ScanHub
  <2>2. CASE ~Raise(a)
    <3>1. OthersStay(a) /\ Quiet(a)'
      BY <1>5, <2>2 DEF ScanHub, At, TypeInv, LocalsTyped, OthersStay, Quiet, GoTo, history
    <3> QED BY <1>5, <3>1, QuietKept, GatewaysStay DEF ScanHub
  <2> QED BY <2>1, <2>2
<1>6. ASSUME NEW a \in Admins, Pick(a) PROVE IdentityInv'
  <2>1. CASE Return(a)
    BY <1>6, <2>1, QuietStep DEF Pick
  <2>2. CASE ~Return(a)
    <3>1. OthersStay(a) /\ GatewaysKept'
      BY <1>6, <2>2, GatewaysStay DEF Pick, TypeInv, LocalsTyped, OthersStay, GoTo,
                                        copies, history
    <3>2. phase'[a] = "site" /\ task'[a] # "fix"
      BY <1>6, <2>2 DEF Pick, TypeInv, LocalsTyped, GoTo, IdentityInv, AdminKept
    <3>3. AdminKept(a)'
      BY <3>2 DEF AdminKept, Fixing
    <3> QED BY <3>1, <3>3, OthersKept
  <2> QED BY <2>1, <2>2
<1>7. ASSUME NEW a \in Admins, ScanSite(a) PROVE IdentityInv'
  <2>1. task[a] # "fix" /\ (Raise(a) \/ \E status : NextSite(a, status))
    BY <1>7 DEF ScanSite, At
  <2> QED BY <1>7, <2>1, QuietStep DEF ScanSite
<1>8. ASSUME NEW a \in Admins, FixFails(a) PROVE IdentityInv'
  BY <1>8, QuietStep DEF FixFails
<1>9. ASSUME NEW a \in Admins, ReadPeer(a) PROVE IdentityInv'
  <2>1. OthersStay(a) /\ GatewaysKept'
    BY <1>9, GatewaysStay DEF ReadPeer, TypeInv, LocalsTyped, OthersStay, GoTo, history
  <2>2. /\ phase'[a] = "site" /\ atSite'[a] = atSite[a]
        /\ peers'[a] = PeersOf(atSite[a], hubPeers) /\ first' = first
    BY <1>9 DEF ReadPeer, TypeInv, LocalsTyped, GoTo, history
  <2>3. \A q \in peers'[a] : q.uuid = atSite'[a] /\ KeptPeer(first, q)
    BY <2>2 DEF PeersOf, IdentityInv, GatewaysKept, KeptList
  <2>4. AdminKept(a)'
    BY <2>2, <2>3 DEF AdminKept, Fixing
  <2> QED BY <2>1, <2>4, OthersKept
<1>10. ASSUME NEW a \in Admins, MakePlan(a) PROVE IdentityInv'
  <2>1. PICK p \in peers[a] :
          LET new == Planned(p, site[atSite[a]])
          IN  \/ /\ \E s \in {"find", "reread"} : GoTo(a, s)
                 /\ fixPlan' = [fixPlan EXCEPT ![a] = {new}]
                 /\ peers' = [peers EXCEPT ![a] = {}]
                 /\ UNCHANGED <<todo, atSite, policy, report>>
              \/ Return(a)
    BY <1>10 DEF MakePlan
  <2>2. CASE Return(a)
    BY <1>10, <2>2, QuietStep DEF MakePlan
  <2>3. CASE ~Return(a)
    <3> DEFINE new == Planned(p, site[atSite[a]])
    <3>1. PICK s \in {"find", "reread"} :
            /\ GoTo(a, s)
            /\ fixPlan' = [fixPlan EXCEPT ![a] = {new}]
            /\ peers' = [peers EXCEPT ![a] = {}]
            /\ UNCHANGED <<todo, atSite, policy, report>>
      BY <2>1, <2>3
    <3>2. p \in SitePeer /\ atSite[a] \in Sites /\ site[atSite[a]] \in ClientPolicy
      BY DEF TypeInv, LocalsTyped, GatewaysTyped
    <3>3. p.uuid = atSite[a] /\ KeptPeer(first, p)
      BY <1>10 DEF MakePlan, At, IdentityInv, AdminKept, Fixing
    <3>4. KeptPolicy(first, atSite[a], site[atSite[a]])
      BY <3>2 DEF IdentityInv, GatewaysKept
    <3>5. PlanFor(first, atSite[a], new)
      BY <3>2, <3>3, <3>4, PlannedFor
    <3> HIDE DEF new
    <3>6. OthersStay(a) /\ GatewaysKept'
      BY <1>10, <3>1, GatewaysStay DEF MakePlan, TypeInv, LocalsTyped, OthersStay, GoTo, history
    <3>7. /\ phase'[a] = s /\ atSite'[a] = atSite[a] /\ fixPlan'[a] = {new} /\ peers'[a] = {}
          /\ first' = first
      BY <1>10, <3>1 DEF MakePlan, TypeInv, LocalsTyped, GoTo, history
    <3>8. AdminKept(a)'
      BY <3>5, <3>7 DEF AdminKept, Fixing
    <3> QED BY <3>6, <3>8, OthersKept
  <2> QED BY <2>2, <2>3
<1>11. ASSUME NEW a \in Admins, FindPeer(a) PROVE IdentityInv'
  <2>1. OthersStay(a) /\ GatewaysKept'
    BY <1>11, GatewaysStay DEF FindPeer, TypeInv, LocalsTyped, OthersStay, GoTo, history
  <2>2. PICK x \in fixPlan[a], q \in hubPeers :
          q.ip = x.ip /\ peers' = [peers EXCEPT ![a] = {Updated(q, x.hub)}]
    BY <1>11 DEF FindPeer
  <2>3. q \in SitePeer /\ KeptPeer(first, q) /\ PlanFor(first, atSite[a], x)
    BY <1>11 DEF FindPeer, At, TypeInv, GatewaysTyped, IdentityInv, GatewaysKept, KeptList,
                  AdminKept, Fixing
  <2>4. KeptPeer(first, Updated(q, x.hub))
    BY <2>2, <2>3, EditedPeerKept
  <2>5. /\ task[a] = "fix" /\ phase[a] = "find" /\ task'[a] = "fix" /\ phase'[a] = "edit"
        /\ atSite'[a] = atSite[a] /\ fixPlan'[a] = fixPlan[a]
        /\ peers'[a] = {Updated(q, x.hub)} /\ first' = first
    BY <1>11, <2>2 DEF FindPeer, At, TypeInv, LocalsTyped, GoTo, history
  <2>6. AdminKept(a)'
    BY <2>4, <2>5 DEF IdentityInv, AdminKept, Fixing
  <2> QED BY <2>1, <2>6, OthersKept
<1>12. ASSUME NEW a \in Admins, EditPeers(a) PROVE IdentityInv'
  <2>1. OthersStay(a) /\ GatewaysKept'
    BY <1>12, GatewaysStay DEF EditPeers, TypeInv, LocalsTyped, OthersStay, GoTo, history
  <2>2. PICK new \in peers[a], q \in hubPeers :
          q.ip = new.ip /\ peers' = [peers EXCEPT ![a] = (hubPeers \ {q}) \cup {new}]
    BY <1>12 DEF EditPeers
  <2>3. KeptList(first, hubPeers) /\ KeptPeer(first, new)
    BY <1>12 DEF EditPeers, At, IdentityInv, GatewaysKept, AdminKept, Fixing
  <2>4. KeptList(first, (hubPeers \ {q}) \cup {new})
    BY <2>2, <2>3, EditedListKept
  <2>5. /\ task[a] = "fix" /\ phase[a] = "edit" /\ task'[a] = "fix" /\ phase'[a] = "pushHub"
        /\ atSite'[a] = atSite[a] /\ fixPlan'[a] = fixPlan[a]
        /\ peers'[a] = (hubPeers \ {q}) \cup {new} /\ first' = first
    BY <1>12, <2>2 DEF EditPeers, At, TypeInv, LocalsTyped, GoTo, history
  <2>6. AdminKept(a)'
    BY <2>4, <2>5 DEF IdentityInv, AdminKept, Fixing
  <2> QED BY <2>1, <2>6, OthersKept
<1>13. ASSUME NEW a \in Admins, PushHub(a) PROVE IdentityInv'
  <2>1. hubPeers' = peers[a] /\ site' = site /\ first' = first
    BY <1>13 DEF PushHub, Wrote
  <2>2. KeptList(first, peers[a])
    BY <1>13 DEF PushHub, At, IdentityInv, AdminKept, Fixing
  <2>3. GatewaysKept'
    BY <2>1, <2>2 DEF IdentityInv, GatewaysKept
  <2>4. CASE Return(a) \/ Raise(a)
    BY <2>1, <2>3, <2>4, EndsQuietly, QuietKept
  <2>5. CASE /\ GoTo(a, "reread")
             /\ peers' = [peers EXCEPT ![a] = {}]
             /\ UNCHANGED <<todo, atSite, policy, fixPlan, report>>
    <3>1. OthersStay(a)
      BY <2>1, <2>5 DEF TypeInv, LocalsTyped, OthersStay, GoTo
    <3>2. /\ task[a] = "fix" /\ phase[a] = "pushHub" /\ phase'[a] = "reread"
          /\ atSite' = atSite /\ fixPlan' = fixPlan
      BY <1>13, <2>5 DEF PushHub, At, TypeInv, LocalsTyped, GoTo
    <3>3. AdminKept(a)'
      BY <2>1, <3>2 DEF IdentityInv, AdminKept, Fixing
    <3> QED BY <2>3, <3>1, <3>3, OthersKept
  <2> QED BY <1>13, <2>4, <2>5 DEF PushHub
<1>14. ASSUME NEW a \in Admins, ReadSiteAgain(a) PROVE IdentityInv'
  <2>1. OthersStay(a) /\ GatewaysKept'
    BY <1>14, GatewaysStay DEF ReadSiteAgain, TypeInv, LocalsTyped, OthersStay, GoTo, history
  <2>2. PICK x \in fixPlan[a] : policy' = [policy EXCEPT ![a] = {Updated(site[atSite[a]], x.site)}]
    BY <1>14 DEF ReadSiteAgain
  <2>3. /\ site[atSite[a]] \in ClientPolicy /\ KeptPolicy(first, atSite[a], site[atSite[a]])
        /\ PlanFor(first, atSite[a], x)
    BY <1>14 DEF ReadSiteAgain, At, TypeInv, LocalsTyped, GatewaysTyped, IdentityInv,
                  GatewaysKept, AdminKept, Fixing
  <2>4. KeptPolicy(first, atSite[a], Updated(site[atSite[a]], x.site))
    BY <2>3, EditedPolicyKept
  <2>5. /\ phase'[a] = "pushSite" /\ atSite'[a] = atSite[a] /\ first' = first
        /\ policy'[a] = {Updated(site[atSite[a]], x.site)}
    BY <1>14, <2>2 DEF ReadSiteAgain, TypeInv, LocalsTyped, GoTo, history
  <2>6. AdminKept(a)'
    BY <2>4, <2>5 DEF AdminKept, Fixing
  <2> QED BY <2>1, <2>6, OthersKept
<1>15. ASSUME NEW a \in Admins, PushSite(a) PROVE IdentityInv'
  <2>1. GatewaysKept'
    BY <1>15 DEF PushSite, At, Wrote, TypeInv, GatewaysTyped, IdentityInv, GatewaysKept, AdminKept
  <2>2. first' = first
    BY <1>15 DEF PushSite, Wrote
  <2> QED BY <1>15, <2>1, <2>2, EndsQuietly, QuietKept DEF PushSite
<1>16. ASSUME NEW a \in Admins, FixPushFails(a) PROVE IdentityInv'
  BY <1>16, QuietStep DEF FixPushFails
<1>17. ASSUME NEW a \in Admins, CheckSite(a) PROVE IdentityInv'
  <2>1. CASE task[a] # "fix" /\ \E status : NextSite(a, status)
    BY <1>17, <2>1, QuietStep DEF CheckSite
  <2>2. CASE GoTo(a, "reread") /\ UNCHANGED <<adminLocals, report>>
    <3>1. OthersStay(a) /\ GatewaysKept'
      BY <1>17, <2>2, GatewaysStay DEF CheckSite, TypeInv, LocalsTyped, OthersStay, GoTo,
                                        adminLocals, copies, history
    <3>2. phase'[a] = "reread" /\ task'[a] = "switch"
      BY <1>17, <2>2 DEF CheckSite, At, TypeInv, LocalsTyped, GoTo
    <3>3. AdminKept(a)'
      BY <3>2 DEF AdminKept, Fixing
    <3> QED BY <3>1, <3>3, OthersKept
  <2> QED BY <1>17, <2>1, <2>2 DEF CheckSite, At
<1>18. ASSUME NEW a \in Admins, SiteUnreachable(a) PROVE IdentityInv'
  BY <1>18, QuietStep DEF SiteUnreachable, At
<1>19. ASSUME NEW a \in Admins, ReadForUpdate(a) PROVE IdentityInv'
  <2>1. OthersStay(a) /\ GatewaysKept'
    BY <1>19, GatewaysStay DEF ReadForUpdate, TypeInv, LocalsTyped, OthersStay, GoTo, history
  <2> DEFINE c == site[atSite[a]]
             new == [c EXCEPT !.endpoint = New]
  <2>2. c \in ClientPolicy /\ KeptPolicy(first, atSite[a], c)
    BY DEF TypeInv, LocalsTyped, GatewaysTyped, IdentityInv, GatewaysKept
  <2>3. new.ip = c.ip /\ new.key = c.key /\ new.psk = c.psk
    BY <2>2 DEF ClientPolicy
  <2>4. KeptPolicy(first, atSite[a], new)
    BY <2>2, <2>3 DEF KeptPolicy
  <2>5. phase'[a] = "pushSite" /\ atSite'[a] = atSite[a] /\ first' = first /\ policy'[a] = {new}
    BY <1>19 DEF ReadForUpdate, TypeInv, LocalsTyped, GoTo, history
  <2> HIDE DEF new
  <2>6. AdminKept(a)'
    BY <2>4, <2>5 DEF AdminKept, Fixing
  <2> QED BY <2>1, <2>6, OthersKept
<1>20. ASSUME NEW a \in Admins, PushEndpoint(a) PROVE IdentityInv'
  <2>1. GatewaysKept'
    BY <1>20 DEF PushEndpoint, At, Wrote, TypeInv, GatewaysTyped, IdentityInv, GatewaysKept,
                  AdminKept
  <2>2. first' = first /\ task[a] # "fix"
    BY <1>20 DEF PushEndpoint, At, Wrote
  <2> QED BY <1>20, <2>1, <2>2, EndsQuietly, NextSiteQuietly, QuietKept DEF PushEndpoint
<1>21. ASSUME NEW a \in Admins, UpdateFails(a) PROVE IdentityInv'
  BY <1>21, QuietStep DEF UpdateFails
<1> QED
  BY <1>1, <1>2, <1>3, <1>4, <1>5, <1>6, <1>7, <1>8, <1>9, <1>10, <1>11,
     <1>12, <1>13, <1>14, <1>15, <1>16, <1>17, <1>18, <1>19, <1>20, <1>21 DEF SitesNext

LEMMA IdentityInit == SitesInit => IdentityInv
<1> SUFFICES ASSUME SitesInit PROVE IdentityInv
  OBVIOUS
<1>1. KeptList(first, hubPeers)
  BY SiteAssumption DEF SitesInit, KeptList, KeptPeer
<1>2. ASSUME NEW s \in Sites PROVE KeptPolicy(first, s, site[s])
  BY SiteAssumption DEF SitesInit, KeptPolicy
<1>3. ASSUME NEW a \in Admins PROVE AdminKept(a)
  BY DEF SitesInit, AdminKept, Fixing
<1> QED BY <1>1, <1>2, <1>3 DEF IdentityInv, GatewaysKept

LEMMA IdentityInvImplies == TypeInv /\ IdentityInv => IdentitiesKept
<1> SUFFICES ASSUME TypeInv, IdentityInv, NEW p \in InitialHub
             PROVE  LET s == p.uuid
                    IN  /\ \E q \in hubPeers : /\ PeersOf(s, hubPeers) = {q}
                                               /\ q.ip = p.ip /\ q.psk = p.psk
                                               /\ q.key \in {p.key, first[s].key}
                        /\ site[s].key = first[s].key
                        /\ site[s].ip \in {first[s].ip, p.ip}
                        /\ site[s].psk \in {first[s].psk, p.psk}
  BY DEF IdentitiesKept
<1>1. PICK q \in hubPeers : q.uuid = p.uuid
  BY DEF IdentityInv, GatewaysKept, KeptList
<1>2. q.ip = p.ip /\ q.psk = p.psk /\ q.key \in {p.key, first[p.uuid].key}
  BY <1>1, InitialIdentity DEF IdentityInv, GatewaysKept, KeptList, KeptPeer
<1>3. PeersOf(p.uuid, hubPeers) = {q}
  BY <1>1 DEF IdentityInv, GatewaysKept, KeptList, ReadableList, PeersOf
<1>4. KeptPolicy(first, p.uuid, site[p.uuid])
  BY SiteAssumption DEF IdentityInv, GatewaysKept, SitePeer
<1> QED BY <1>1, <1>2, <1>3, <1>4, InitialIdentity DEF KeptPolicy

\* Administrators who reconcile by the hub, scan and move endpoints, however
\* many and in whatever order, keep one peer of each site on the hub, at its
\* address and with its own or its site's key, and each site its own key
\* (apply_reconciliation, update_peer, update_client_endpoint).
THEOREM IdentitiesStay == PreferHub /\ SitesSpec => []IdentitiesKept
<1>1. SitesInit => TypeInv /\ IdentityInv
  BY TypeInit, IdentityInit
<1>2. PreferHub /\ TypeInv /\ IdentityInv /\ [SitesNext]_sitesVars => (TypeInv /\ IdentityInv)'
  BY TypeStep, IdentityStep
<1>3. TypeInv /\ IdentityInv => IdentitiesKept
  BY IdentityInvImplies
<1> QED
  <2>1. CASE PreferHub
    <3>1. TypeInv /\ IdentityInv /\ [SitesNext]_sitesVars => (TypeInv /\ IdentityInv)'
      BY <1>2, <2>1
    <3> QED BY <1>1, <1>3, <3>1, PTL DEF SitesSpec
  <2>2. CASE ~PreferHub
    BY <2>2
  <2> QED BY <2>1, <2>2

-----------------------------------------------------------------------------
(* One administrator's step, and what it leaves to the others. *)

AdminStep(a) ==
    \/ Scan(a) \/ ScanHub(a) \/ Pick(a) \/ ScanSite(a)
    \/ Reconcile(a) \/ FixFails(a) \/ ReadPeer(a) \/ MakePlan(a) \/ FindPeer(a)
    \/ EditPeers(a) \/ PushHub(a) \/ ReadSiteAgain(a) \/ PushSite(a) \/ FixPushFails(a)
    \/ Switch(a) \/ CheckSite(a) \/ SiteUnreachable(a) \/ ReadForUpdate(a)
    \/ PushEndpoint(a) \/ UpdateFails(a)

\* The others' operations stay where they are, and none that is not disturbed
\* by the step sees anything else at the gateways.
Elsewhere(a) ==
    \A b \in Admins \ {a} :
        /\ task'[b] = task[b] /\ phase'[b] = phase[b] /\ atSite'[b] = atSite[b]
        /\ peers'[b] = peers[b] /\ policy'[b] = policy[b] /\ fixPlan'[b] = fixPlan[b]
        /\ report'[b] = report[b]
        /\ undisturbed'[b] => undisturbed[b] /\ UNCHANGED gateways

LEMMA ElsewhereSteps ==
    ASSUME TypeInv, NEW a \in Admins, AdminStep(a)
    PROVE  Elsewhere(a)
<1>1. ASSUME NEW s, GoTo(a, s)
      PROVE  \A b \in Admins \ {a} : task'[b] = task[b] /\ phase'[b] = phase[b]
  BY <1>1 DEF GoTo, TypeInv, LocalsTyped
<1>2. ASSUME NEW status, Reported(a, status)
      PROVE  \A b \in Admins \ {a} : report'[b] = report[b]
  BY <1>2 DEF Reported, TypeInv, ReportTyped
<1>3. ASSUME Leave(a)
      PROVE  \A b \in Admins \ {a} :
               /\ atSite'[b] = atSite[b] /\ peers'[b] = peers[b] /\ policy'[b] = policy[b]
               /\ fixPlan'[b] = fixPlan[b]
  BY <1>3 DEF Leave, TypeInv, LocalsTyped
<1>4. ASSUME Return(a), UNCHANGED report \/ Reported(a, "fixed"),
             UNCHANGED <<gateways, history>> \/ Wrote(a)
      PROVE  Elsewhere(a)
  BY <1>1, <1>2, <1>3, <1>4 DEF Return, Elsewhere, history, Wrote
<1>5. ASSUME Raise(a), UNCHANGED <<gateways, history>> \/ Wrote(a)
      PROVE  Elsewhere(a)
  <2>1. \A b \in Admins \ {a} : report'[b] = report[b]
    BY <1>5 DEF Raise, TypeInv, ReportTyped
  <2> QED
    BY <1>1, <1>3, <1>5, <2>1 DEF Raise, Elsewhere, history, Wrote
<1>6. ASSUME NEW status, NextSite(a, status), UNCHANGED <<gateways, history>> \/ Wrote(a)
      PROVE  Elsewhere(a)
  <2>1. \A b \in Admins \ {a} : policy'[b] = policy[b]
    BY <1>6 DEF NextSite, TypeInv, LocalsTyped
  <2> QED
    BY <1>1, <1>2, <1>6, <2>1 DEF NextSite, Elsewhere, history, Wrote
<1>7. ASSUME NEW operation, NEW s, Begin(a, operation, s),
             \A b \in Admins \ {a} : atSite'[b] = atSite[b]
      PROVE  Elsewhere(a)
  BY <1>7 DEF Begin, Elsewhere, copies, gateways, TypeInv, LocalsTyped, ReportTyped, GatewaysTyped
<1>8. ASSUME Scan(a) \/ Switch(a) \/ Reconcile(a) PROVE Elsewhere(a)
  <2>1. \A b \in Admins \ {a} : atSite'[b] = atSite[b]
    BY <1>8 DEF Scan, Switch, Reconcile, TypeInv, LocalsTyped
  <2> QED
    BY <1>7, <1>8, <2>1 DEF Scan, Switch, Reconcile
<1>9. ASSUME FixFails(a) \/ FixPushFails(a) \/ ScanSite(a) \/ SiteUnreachable(a) \/ UpdateFails(a)
      PROVE  Elsewhere(a)
  BY <1>5, <1>6, <1>9 DEF FixFails, FixPushFails, ScanSite, SiteUnreachable, UpdateFails
<1>10. ASSUME (ScanHub(a) /\ ~Raise(a)) \/ ReadPeer(a) \/ FindPeer(a) \/ EditPeers(a)
       PROVE  Elsewhere(a)
  <2>1. /\ \E s : GoTo(a, s)
        /\ UNCHANGED <<atSite, policy, fixPlan, report, gateways, history>>
        /\ \E new : peers' = [peers EXCEPT ![a] = new]
    BY <1>10 DEF ScanHub, ReadPeer, FindPeer, EditPeers
  <2> QED
    BY <1>1, <2>1 DEF Elsewhere, history, TypeInv, LocalsTyped
<1>11. ASSUME ReadSiteAgain(a) \/ ReadForUpdate(a) PROVE Elsewhere(a)
  <2>1. /\ \E s : GoTo(a, s)
        /\ UNCHANGED <<atSite, peers, fixPlan, report, gateways, history>>
        /\ \E new : policy' = [policy EXCEPT ![a] = new]
    BY <1>11 DEF ReadSiteAgain, ReadForUpdate
  <2> QED
    BY <1>1, <2>1 DEF Elsewhere, history, TypeInv, LocalsTyped
<1>12. ASSUME Pick(a) PROVE Elsewhere(a)
  <2>1. CASE Return(a)
    BY <1>4, <1>12, <2>1 DEF Pick
  <2>2. CASE ~Return(a)
    <3>1. /\ GoTo(a, "site") /\ \E s : atSite' = [atSite EXCEPT ![a] = s]
          /\ UNCHANGED <<peers, policy, fixPlan, report, gateways, history>>
      BY <1>12, <2>2 DEF Pick, copies
    <3> QED
      BY <1>1, <3>1 DEF Elsewhere, history, TypeInv, LocalsTyped
  <2> QED
    BY <2>1, <2>2
<1>13. ASSUME MakePlan(a) PROVE Elsewhere(a)
  <2>1. CASE Return(a) /\ Reported(a, "fixed")
    BY <1>4, <1>13, <2>1 DEF MakePlan
  <2>2. CASE ~(Return(a) /\ Reported(a, "fixed"))
    <3>1. /\ \E s : GoTo(a, s)
          /\ \E new : fixPlan' = [fixPlan EXCEPT ![a] = new]
          /\ peers' = [peers EXCEPT ![a] = {}]
          /\ UNCHANGED <<atSite, policy, report, gateways, history>>
      BY <1>13, <2>2 DEF MakePlan
    <3> QED
      BY <1>1, <3>1 DEF Elsewhere, history, TypeInv, LocalsTyped
  <2> QED
    BY <2>1, <2>2
<1>14. ASSUME PushHub(a) PROVE Elsewhere(a)
  <2>1. CASE Raise(a) \/ (Reported(a, "fixed") /\ Return(a))
    BY <1>4, <1>5, <1>14, <2>1 DEF PushHub
  <2>2. CASE GoTo(a, "reread") /\ peers' = [peers EXCEPT ![a] = {}]
             /\ UNCHANGED <<todo, atSite, policy, fixPlan, report>>
    BY <1>1, <1>14, <2>2 DEF PushHub, Elsewhere, Wrote, TypeInv, LocalsTyped
  <2> QED
    BY <1>14, <2>1, <2>2 DEF PushHub
<1>15. ASSUME PushSite(a) \/ PushEndpoint(a) PROVE Elsewhere(a)
  BY <1>4, <1>5, <1>6, <1>15 DEF PushSite, PushEndpoint
<1>16. ASSUME CheckSite(a) PROVE Elsewhere(a)
  <2>1. CASE \E status : NextSite(a, status)
    BY <1>6, <1>16, <2>1 DEF CheckSite
  <2>2. CASE GoTo(a, "reread") /\ UNCHANGED <<adminLocals, report>>
    BY <1>1, <1>16, <2>2 DEF CheckSite, Elsewhere, history, adminLocals, copies
  <2> QED
    BY <1>16, <2>1, <2>2 DEF CheckSite
<1>17. ASSUME ScanHub(a) PROVE Elsewhere(a)
  BY <1>5, <1>10, <1>17 DEF ScanHub
<1> QED
  BY <1>8, <1>9, <1>10, <1>11, <1>12, <1>13, <1>14, <1>15, <1>16, <1>17 DEF AdminStep

\* A step is some administrator's.
LEMMA StepOfOne == SitesNext => \E a \in Admins : AdminStep(a)
BY DEF SitesNext, AdminStep

\* What a step does to the report of its own administrator: it is lost, or stays,
\* or says more of the site at hand.
LEMMA OwnReport ==
    ASSUME TypeInv, NEW a \in Admins, NEW status, Reported(a, status)
    PROVE  /\ report'[a][atSite[a]] = status
           /\ \A s \in Sites \ {atSite[a]} : report'[a][s] = report[a][s]
BY DEF Reported, TypeInv, LocalsTyped, ReportTyped

LEMMA RaiseEnds ==
    ASSUME TypeInv, NEW a \in Admins, Raise(a)
    PROVE  /\ task'[a] = task[a] /\ phase'[a] = "raised"
           /\ \A s \in Sites : report'[a][s] = "none"
BY DEF Raise, GoTo, TypeInv, LocalsTyped, ReportTyped, NoReport

LEMMA ReturnEnds ==
    ASSUME TypeInv, NEW a \in Admins, Return(a)
    PROVE  task'[a] = task[a] /\ phase'[a] = "done"
BY DEF Return, GoTo, TypeInv, LocalsTyped

LEMMA NextSiteGoesOn ==
    ASSUME TypeInv, NEW a \in Admins, NEW status, NextSite(a, status)
    PROVE  /\ task'[a] = task[a] /\ phase'[a] = "pick" /\ peers'[a] = peers[a]
           /\ report'[a][atSite[a]] = status
           /\ \A s \in Sites \ {atSite[a]} : report'[a][s] = report[a][s]
BY OwnReport DEF NextSite, GoTo, TypeInv, LocalsTyped

LEMMA BeginStarts ==
    ASSUME TypeInv, NEW a \in Admins, NEW operation, NEW s, Begin(a, operation, s)
    PROVE  /\ task'[a] = operation /\ phase'[a] = s
           /\ \A t \in Sites : report'[a][t] = "none"
BY DEF Begin, TypeInv, LocalsTyped, ReportTyped, NoReport

-----------------------------------------------------------------------------
(* Scans. *)

\* What a scan has found, if nobody disturbs it, is so, and its snapshot is the
\* hub's list; only a scan finds sites in step or not.
ScanKept(a) ==
    /\ task[a] # "scan" => \A s \in Sites : report[a][s] \notin {"in-sync", "drift"}
    /\ task[a] = "scan" /\ phase[a] \in {"pick", "site"} =>
         ReadableList(peers[a]) /\ (undisturbed[a] => peers[a] = hubPeers)
    /\ undisturbed[a] =>
         \A s \in Sites : /\ report[a][s] = "in-sync" => InStep(s)
                          /\ report[a][s] = "drift" => ~InStep(s)

LEMMA ScanKeptElsewhere ==
    ASSUME NEW a \in Admins, Elsewhere(a), NEW b \in Admins \ {a}, ScanKept(b)
    PROVE  ScanKept(b)'
BY DEF Elsewhere, ScanKept, InStep, gateways

\* An operation that is no scan.
LEMMA NoScanKept ==
    ASSUME NEW a \in Admins, task'[a] # "scan",
           \A s \in Sites : report'[a][s] \notin {"in-sync", "drift"}
    PROVE  ScanKept(a)'
BY DEF ScanKept

LEMMA ScanKeptOwn ==
    ASSUME TypeInv, NEW a \in Admins, ScanKept(a), AdminStep(a)
    PROVE  ScanKept(a)'
<1>1. ASSUME NEW operation, NEW s \in {"hub", "pick"}, Begin(a, operation, s),
             operation = "scan" => s = "hub"
      PROVE  ScanKept(a)'
  BY <1>1, BeginStarts DEF ScanKept
<1>2. CASE Scan(a) \/ Switch(a) \/ Reconcile(a)
  BY <1>1, <1>2 DEF Scan, Switch, Reconcile
<1>3. CASE Raise(a)
  BY <1>3, RaiseEnds DEF ScanKept
<1>4. CASE ScanHub(a) /\ ~Raise(a)
  <2>1. /\ task'[a] = "scan" /\ ReadableList(hubPeers) /\ peers'[a] = hubPeers
        /\ UNCHANGED <<report, hubPeers, site, undisturbed>>
    BY <1>4 DEF ScanHub, At, GoTo, TypeInv, LocalsTyped, gateways, history
  <2>2. \A s \in Sites : InStep(s)' <=> InStep(s)
    BY <2>1 DEF InStep
  <2> QED
    BY <2>1, <2>2 DEF ScanKept
<1>5. CASE Pick(a)
  <2>1. /\ task'[a] = task[a] /\ phase'[a] \in {"done", "site"} /\ phase[a] = "pick"
        /\ phase'[a] = "site" => peers' = peers
        /\ UNCHANGED <<report, hubPeers, site, undisturbed>>
    BY <1>5, ReturnEnds DEF Pick, GoTo, copies, TypeInv, LocalsTyped, gateways, history
  <2>2. \A s \in Sites : InStep(s)' <=> InStep(s)
    BY <2>1 DEF InStep
  <2> QED
    BY <2>1, <2>2 DEF ScanKept
<1>6. CASE ScanSite(a) /\ ~Raise(a)
  <2>1. PICK status :
          /\ NextSite(a, status)
          /\ \/ status = "unreachable"
             \/ \E p \in PeersOf(atSite[a], peers[a]) :
                  status = IF Drifts(p, site[atSite[a]]) = {} THEN "in-sync" ELSE "drift"
    BY <1>6 DEF ScanSite
  <2>2. /\ task[a] = "scan" /\ phase[a] = "site"
        /\ UNCHANGED <<hubPeers, site, undisturbed>>
    BY <1>6 DEF ScanSite, At, gateways, history
  <2>3. /\ task'[a] = "scan" /\ phase'[a] = "pick" /\ peers'[a] = peers[a]
        /\ report'[a][atSite[a]] = status
        /\ \A s \in Sites \ {atSite[a]} : report'[a][s] = report[a][s]
    BY <2>1, <2>2, NextSiteGoesOn
  <2>4. \A s \in Sites : InStep(s)' <=> InStep(s)
    BY <2>2 DEF InStep
  <2>5. ASSUME undisturbed[a]
        PROVE  /\ status = "in-sync" => InStep(atSite[a])
               /\ status = "drift" => ~InStep(atSite[a])
    BY <2>1, <2>2, <2>5 DEF ScanKept, InStep, PeersOf, ReadableList
  <2>6. ASSUME undisturbed'[a], NEW s \in Sites
        PROVE  /\ report'[a][s] = "in-sync" => InStep(s)'
               /\ report'[a][s] = "drift" => ~InStep(s)'
    BY <2>2, <2>3, <2>4, <2>5, <2>6 DEF ScanKept
  <2> QED
    BY <2>2, <2>3, <2>6 DEF ScanKept
<1>7. ASSUME task[a] # "scan", NEW status \in Statuses \ {"in-sync", "drift"},
             NextSite(a, status) \/ (Reported(a, status) /\ Return(a))
      PROVE  ScanKept(a)'
  <2>1. /\ task'[a] # "scan" /\ report'[a][atSite[a]] = status
        /\ \A s \in Sites \ {atSite[a]} : report'[a][s] = report[a][s]
    BY <1>7, NextSiteGoesOn, ReturnEnds, OwnReport
  <2> QED
    BY <1>7, <2>1, NoScanKept DEF ScanKept
<1>8. ASSUME task[a] # "scan", UNCHANGED <<task, report>>
      PROVE  ScanKept(a)'
  BY <1>8, NoScanKept DEF ScanKept
<1>9. CASE SiteUnreachable(a) \/ UpdateFails(a)
  BY <1>3, <1>7, <1>9 DEF SiteUnreachable, UpdateFails, At, Statuses
<1>10. CASE ReadPeer(a) \/ FindPeer(a) \/ EditPeers(a) \/ ReadSiteAgain(a) \/ ReadForUpdate(a)
  BY <1>8, <1>10 DEF ReadPeer, FindPeer, EditPeers, ReadSiteAgain, ReadForUpdate, At, GoTo
<1>11. CASE MakePlan(a)
  BY <1>7, <1>8, <1>11 DEF MakePlan, At, GoTo, Statuses
<1>12. CASE PushHub(a)
  BY <1>3, <1>7, <1>8, <1>12 DEF PushHub, At, GoTo, Statuses
<1>13. CASE PushSite(a) \/ PushEndpoint(a)
  BY <1>3, <1>7, <1>13 DEF PushSite, PushEndpoint, At, Statuses
<1>14. CASE CheckSite(a)
  BY <1>7, <1>8, <1>14 DEF CheckSite, At, GoTo, Statuses
<1>15. CASE FixFails(a) \/ FixPushFails(a)
  BY <1>3, <1>15 DEF FixFails, FixPushFails
<1> QED
  BY <1>2, <1>3, <1>4, <1>5, <1>6, <1>9, <1>10, <1>11, <1>12, <1>13, <1>14, <1>15 DEF AdminStep

ScanInv == \A a \in Admins : ScanKept(a)

LEMMA ScanStep == TypeInv /\ ScanInv /\ [SitesNext]_sitesVars => ScanInv'
<1> SUFFICES ASSUME TypeInv, ScanInv, [SitesNext]_sitesVars PROVE ScanInv'
  OBVIOUS
<1>1. CASE UNCHANGED sitesVars
  BY <1>1 DEF ScanInv, ScanKept, InStep, sitesVars, gateways, adminLocals, copies, history
<1>2. ASSUME NEW a \in Admins, AdminStep(a) PROVE ScanInv'
  <2>1. Elsewhere(a)
    BY <1>2, ElsewhereSteps
  <2> QED
    BY <1>2, <2>1, ScanKeptElsewhere, ScanKeptOwn DEF ScanInv
<1> QED
  BY <1>1, <1>2, StepOfOne

\* A scan that nobody disturbed says of each site what is so at the end, though
\* the hub was read once and the sites one after another (detect_hub_drift).
THEOREM ScansAreExact == SitesSpec => []ScanExact
<1>1. SitesInit => TypeInv /\ ScanInv
  <2>1. SitesInit => TypeInv
    BY TypeInit
  <2>2. SitesInit => ScanInv
    BY DEF SitesInit, ScanInv, ScanKept, NoReport
  <2> QED
    BY <2>1, <2>2
<1>2. TypeInv /\ ScanInv /\ [SitesNext]_sitesVars => (TypeInv /\ ScanInv)'
  BY TypeStep, ScanStep
<1>3. TypeInv /\ ScanInv => ScanExact
  BY DEF ScanInv, ScanKept, ScanExact
<1> QED BY <1>1, <1>2, <1>3, PTL DEF SitesSpec

-----------------------------------------------------------------------------
(* Batches that move sites to another endpoint. *)

\* A site that is about to be written has been found at the old endpoint, and if
\* nobody has written since then it is there still.
SwitchKept(a) ==
    task[a] = "switch" =>
        /\ phase[a] \in {"reread", "pushSite"} /\ undisturbed[a] => site[atSite[a]].endpoint = Old
        /\ phase[a] = "pushSite" => \A c \in policy[a] : c.endpoint = New

LEMMA SwitchKeptElsewhere ==
    ASSUME NEW a \in Admins, Elsewhere(a), NEW b \in Admins \ {a}, SwitchKept(b)
    PROVE  SwitchKept(b)'
BY DEF Elsewhere, SwitchKept, gateways

LEMMA SwitchKeptOwn ==
    ASSUME Old # NoEndpoint, TypeInv, NEW a \in Admins, SwitchKept(a), AdminStep(a)
    PROVE  SwitchKept(a)'
<1>1. ASSUME NEW operation, NEW s \in {"hub", "pick"}, Begin(a, operation, s)
      PROVE  SwitchKept(a)'
  BY <1>1, BeginStarts DEF SwitchKept
<1>2. CASE Scan(a) \/ Switch(a) \/ Reconcile(a)
  BY <1>1, <1>2 DEF Scan, Switch, Reconcile
<1>3. CASE Raise(a) \/ Return(a) \/ \E status : NextSite(a, status)
  BY <1>3, RaiseEnds, ReturnEnds, NextSiteGoesOn DEF SwitchKept
<1>4. ASSUME task[a] # "switch", UNCHANGED task
      PROVE  SwitchKept(a)'
  BY <1>4 DEF SwitchKept
<1>5. CASE ScanHub(a) \/ ScanSite(a) \/ FixFails(a) \/ ReadPeer(a) \/ MakePlan(a)
             \/ FindPeer(a) \/ EditPeers(a) \/ PushHub(a) \/ ReadSiteAgain(a) \/ PushSite(a)
             \/ FixPushFails(a)
  BY <1>3, <1>4, <1>5 DEF ScanHub, ScanSite, FixFails, ReadPeer, MakePlan, FindPeer, EditPeers,
       PushHub, ReadSiteAgain, PushSite, FixPushFails, At, GoTo
<1>6. CASE Pick(a) /\ ~Return(a)
  BY <1>6 DEF Pick, GoTo, SwitchKept, TypeInv, LocalsTyped
<1>7. CASE CheckSite(a)
  <2>1. CASE \E status : NextSite(a, status)
    BY <1>3, <2>1
  <2>2. CASE ~\E status : NextSite(a, status)
    <3>1. /\ site[atSite[a]].endpoint = Old
          /\ phase'[a] = "reread" /\ UNCHANGED <<atSite, site>>
      BY <1>7, <2>2 DEF CheckSite, Unexpected, GoTo, TypeInv, LocalsTyped, adminLocals, gateways
    <3> QED
      BY <3>1 DEF SwitchKept
  <2> QED
    BY <2>1, <2>2
<1>8. CASE ReadForUpdate(a)
  <2>1. /\ phase[a] = "reread" /\ task[a] = "switch" /\ UNCHANGED <<atSite, site, undisturbed>>
        /\ policy'[a] = {[site[atSite[a]] EXCEPT !.endpoint = New]}
    BY <1>8 DEF ReadForUpdate, At, GoTo, TypeInv, LocalsTyped, gateways, history
  <2>2. [site[atSite[a]] EXCEPT !.endpoint = New].endpoint = New
    BY DEF TypeInv, LocalsTyped, GatewaysTyped, ClientPolicy
  <2> QED
    BY <2>1, <2>2 DEF SwitchKept
<1>9. CASE SiteUnreachable(a) \/ PushEndpoint(a) \/ UpdateFails(a)
  BY <1>3, <1>9 DEF SiteUnreachable, PushEndpoint, UpdateFails
<1> QED
  BY <1>2, <1>3, <1>5, <1>6, <1>7, <1>8, <1>9 DEF AdminStep

SwitchInv == \A a \in Admins : SwitchKept(a)

LEMMA SwitchStep ==
    Old # NoEndpoint /\ TypeInv /\ SwitchInv /\ [SitesNext]_sitesVars => SwitchInv'
<1> SUFFICES ASSUME Old # NoEndpoint, TypeInv, SwitchInv, [SitesNext]_sitesVars
             PROVE  SwitchInv'
  OBVIOUS
<1>1. CASE UNCHANGED sitesVars
  BY <1>1 DEF SwitchInv, SwitchKept, sitesVars, gateways, adminLocals, copies, history
<1>2. ASSUME NEW a \in Admins, AdminStep(a) PROVE SwitchInv'
  <2>1. Elsewhere(a)
    BY <1>2, ElsewhereSteps
  <2> QED
    BY <1>2, <2>1, SwitchKeptElsewhere, SwitchKeptOwn DEF SwitchInv
<1> QED
  BY <1>1, <1>2, StepOfOne

\* Only the push of a site's policy reports the site updated.
LEMMA UpdatedByPush ==
    ASSUME TypeInv, NEW a \in Admins, AdminStep(a), NEW s \in Sites,
           report[a][s] # "updated", report'[a][s] = "updated"
    PROVE  PushEndpoint(a) /\ s = atSite[a]
<1>1. ~Raise(a)
  BY RaiseEnds
<1>2. ~\E operation, t : Begin(a, operation, t)
  BY BeginStarts
<1>3. ~UNCHANGED report
  OBVIOUS
<1>4. ASSUME NEW status, NextSite(a, status) \/ Reported(a, status)
      PROVE  status = "updated" /\ s = atSite[a]
  BY <1>4, OwnReport DEF NextSite
<1>5. PushEndpoint(a)
  BY <1>1, <1>2, <1>3, <1>4 DEF AdminStep, Scan, ScanHub, Pick, ScanSite, Reconcile, FixFails,
       ReadPeer, MakePlan, FindPeer, EditPeers, PushHub, ReadSiteAgain, PushSite, FixPushFails,
       Switch, CheckSite, SiteUnreachable, ReadForUpdate, UpdateFails
<1> QED
  BY <1>1, <1>4, <1>5 DEF PushEndpoint

LEMMA SpareStep ==
    ASSUME TypeInv, SwitchInv, SitesNext, NEW a \in Admins, NEW s \in Sites,
           undisturbed[a], report[a][s] # "updated", report'[a][s] = "updated"
    PROVE  site[s].endpoint = Old /\ site'[s].endpoint = New
<1>1. PICK b \in Admins : AdminStep(b)
  BY StepOfOne
<1>2. b = a
  BY <1>1, ElsewhereSteps DEF Elsewhere
<1>3. PushEndpoint(a) /\ s = atSite[a]
  BY <1>1, <1>2, UpdatedByPush
<1>4. site[s].endpoint = Old /\ \A c \in policy[a] : c.endpoint = New
  BY <1>3 DEF PushEndpoint, At, SwitchInv, SwitchKept
<1>5. \E c \in policy[a] : site' = [site EXCEPT ![s] = c]
  BY <1>3 DEF PushEndpoint
<1>6. \E c \in policy[a] : site'[s] = c
  BY <1>5 DEF TypeInv, GatewaysTyped
<1> QED
  BY <1>4, <1>6

\* A site that is reported updated was at the expected old endpoint until then,
\* if nobody else wrote meanwhile, and has the new one (update_site_endpoints).
\* That takes an expected old endpoint: without one every site is moved.
THEOREM OthersAreSpared == Old # NoEndpoint /\ SitesSpec => OtherHubsSpared
<1>1. SitesInit => TypeInv /\ SwitchInv
  <2>1. SitesInit => TypeInv
    BY TypeInit
  <2>2. SitesInit => SwitchInv
    BY DEF SitesInit, SwitchInv, SwitchKept
  <2> QED
    BY <2>1, <2>2
<1>2. TypeInv /\ SwitchInv /\ [SitesNext]_sitesVars =>
        [\A a \in Admins, s \in Sites :
           undisturbed[a] /\ report[a][s] # "updated" /\ report'[a][s] = "updated"
             => site[s].endpoint = Old /\ site'[s].endpoint = New]_sitesVars
  BY SpareStep
<1> QED
  <2>1. CASE Old # NoEndpoint
    <3>1. TypeInv /\ SwitchInv /\ [SitesNext]_sitesVars => (TypeInv /\ SwitchInv)'
      BY <2>1, TypeStep, SwitchStep
    <3> QED BY <1>1, <1>2, <3>1, PTL DEF SitesSpec, OtherHubsSpared
  <2>2. CASE ~(Old # NoEndpoint)
    BY <2>2
  <2> QED BY <2>1, <2>2

-----------------------------------------------------------------------------
(* Reconciliations. *)

\* Once both sides of a plan are carried out, the peer and the policy agree.
LEMMA PlanFixes ==
    ASSUME PreferHub, NEW p \in SitePeer, NEW c \in ClientPolicy
    PROVE  LET x == Planned(p, c) IN Drifts(Updated(p, x.hub), Updated(c, x.site)) = {}
<1> DEFINE x == Planned(p, c)
           q == Updated(p, x.hub)
           d == Updated(c, x.site)
<1>1. /\ DOMAIN x.hub = Drifts(p, c) \cap {"key"}
      /\ DOMAIN x.site = Drifts(p, c) \ {"key"}
      /\ Drifts(p, c) \subseteq Fields
  BY DEF Planned, HubSide, Drifts, Fields
<1>2. \A f \in DOMAIN x.hub : x.hub[f] = c[f]
  BY DEF Planned
<1>3. /\ "ip" \in DOMAIN x.site => x.site["ip"] = p.ip
      /\ "psk" \in DOMAIN x.site => x.site["psk"] = p.psk
      /\ "endpoint" \in DOMAIN x.site => x.site["endpoint"] = Expected
  BY <1>1 DEF Planned, Fields
<1> HIDE DEF x
<1>4. q.ip = p.ip /\ q.psk = p.psk /\ d.key = c.key
  BY <1>1 DEF Updated, SitePeer, ClientPolicy
<1>5. q.key = c.key
  BY <1>1, <1>2 DEF Updated, SitePeer, Drifts
<1>6. d.ip = p.ip
  BY <1>1, <1>3 DEF Updated, ClientPolicy, Drifts
<1>7. d.psk = p.psk \/ (d.psk = c.psk /\ NoPsk \in {p.psk, c.psk})
  BY <1>1, <1>3 DEF Updated, ClientPolicy, Drifts
<1>8. Expected # NoEndpoint => d.endpoint = Expected
  BY <1>1, <1>3 DEF Updated, ClientPolicy, Drifts
<1> HIDE DEF q, d
<1>9. Drifts(q, d) = {}
  BY <1>4, <1>5, <1>6, <1>7, <1>8 DEF Drifts
<1> QED BY <1>9 DEF q, d, x

\* A side of a plan that names no field changes nothing.
LEMMA NothingToUpdate ==
    /\ \A p \in SitePeer : \A v : DOMAIN v = {} => Updated(p, v) = p
    /\ \A c \in ClientPolicy : \A v : DOMAIN v = {} => Updated(c, v) = c
BY DEF Updated, SitePeer, ClientPolicy

LEMMA PlanIsDrift ==
    ASSUME NEW p, NEW c
    PROVE  Drifts(p, c) = DOMAIN Planned(p, c).hub \cup DOMAIN Planned(p, c).site
BY DEF Planned

\* The plan's part for the hub leaves the peer its uuid and its address.
LEMMA EditedPeerFound ==
    ASSUME PreferHub, NEW p \in SitePeer, NEW c
    PROVE  LET q == Updated(p, Planned(p, c).hub) IN q.uuid = p.uuid /\ q.ip = p.ip
<1>1. DOMAIN Planned(p, c).hub \subseteq {"key"}
  BY DEF Planned, HubSide
<1> QED
  BY <1>1 DEF Updated, SitePeer

\* The address that a plan names is that of one peer on the hub.
LEMMA OneAtAddress ==
    ASSUME IdentityInv, NEW p \in hubPeers, NEW q \in hubPeers, p.ip = q.ip
    PROVE  p = q
<1>1. KeptPeer(first, p) /\ KeptPeer(first, q) /\ ReadableList(hubPeers)
  BY DEF IdentityInv, GatewaysKept, KeptList
<1>2. /\ \E i \in InitialHub : p.uuid = i.uuid /\ p.ip = i.ip
      /\ \E i \in InitialHub : q.uuid = i.uuid /\ q.ip = i.ip
  BY <1>1 DEF KeptPeer
<1> QED
  BY <1>1, <1>2, InitialIdentity DEF ReadableList

FindStages == {"find", "edit", "pushHub"}

\* How far a reconciliation of s has come that nobody disturbs: c is the policy of
\* s, list, edited and plan are its copies, and p is the peer that it has read
\* or, on the way to the site, the peer that it has left on the hub.
Stage(stage, s, hub, c, list, edited, plan) ==
    /\ stage = "site" => \A p \in list : p \in hub /\ p.uuid = s
    /\ stage \in FindStages =>
         \E p \in hub :
             LET x == Planned(p, c)
                 q == Updated(p, x.hub)
             IN  /\ p.uuid = s /\ plan = {x}
                 /\ stage = "edit" => list = {q}
                 /\ stage = "pushHub" => list = (hub \ {p}) \cup {q}
    /\ stage = "reread" =>
         \E p \in hub : p.uuid = s /\ \A x \in plan : Drifts(p, Updated(c, x.site)) = {}
    /\ stage = "pushSite" =>
         \E p \in hub : p.uuid = s /\ \A new \in edited : Drifts(p, new) = {}

Underway(a) ==
    Stage(phase[a], atSite[a], hubPeers, site[atSite[a]], peers[a], policy[a], fixPlan[a])

FixKept(a) ==
    /\ \A s \in Sites : report[a][s] = "fixed" =>
         phase[a] = "done" /\ (undisturbed[a] => InStep(s))
    /\ task[a] = "fix" /\ undisturbed[a] => Underway(a)

LEMMA FixKeptElsewhere ==
    ASSUME NEW a \in Admins, Elsewhere(a), NEW b \in Admins \ {a}, FixKept(b)
    PROVE  FixKept(b)'
<1>1. ASSUME undisturbed'[b]
      PROVE  /\ undisturbed[b] /\ UNCHANGED <<hubPeers, site>>
             /\ Underway(b)' <=> Underway(b)
             /\ \A s \in Sites : InStep(s)' <=> InStep(s)
  <2>1. undisturbed[b] /\ UNCHANGED <<hubPeers, site>>
    BY <1>1 DEF Elsewhere, gateways
  <2>2. Underway(b)' <=> Underway(b)
    BY <2>1 DEF Elsewhere, Underway
  <2>3. \A s \in Sites : InStep(s)' <=> InStep(s)
    BY <2>1 DEF InStep
  <2> QED
    BY <2>1, <2>2, <2>3
<1> QED
  BY <1>1 DEF FixKept, Elsewhere

\* An operation that stands nowhere between, and has reported nothing fixed.
LEMMA RestKept ==
    ASSUME NEW a \in Admins, \A s \in Sites : report'[a][s] # "fixed",
           task'[a] # "fix" \/ phase'[a] \in {"hub", "pick", "done", "raised"}
    PROVE  FixKept(a)'
BY DEF FixKept, Underway, Stage, FindStages

\* A reconciliation ends well.
LEMMA EndKept ==
    ASSUME TypeInv, NEW a \in Admins, FixKept(a), phase[a] # "done",
           Reported(a, "fixed"), Return(a),
           NEW t \in Sites, t = atSite[a], undisturbed'[a] => InStep(t)'
    PROVE  FixKept(a)'
<1>1. /\ phase'[a] = "done" /\ report'[a][atSite[a]] = "fixed"
      /\ \A s \in Sites \ {atSite[a]} : report'[a][s] = report[a][s]
  BY ReturnEnds, OwnReport
<1>2. \A s \in Sites : report'[a][s] = "fixed" =>
         phase'[a] = "done" /\ (undisturbed'[a] => InStep(s)')
  BY <1>1 DEF FixKept
<1> QED
  BY <1>1, <1>2 DEF FixKept, Underway, Stage, FindStages

\* It goes on, with nothing reported yet.
LEMMA MidwayKept ==
    ASSUME NEW a \in Admins, FixKept(a), phase[a] # "done", UNCHANGED report,
           undisturbed'[a] => Underway(a)'
    PROVE  FixKept(a)'
BY DEF FixKept

LEMMA FixKeptOwn ==
    ASSUME PreferHub, TypeInv, IdentityInv, NEW a \in Admins, FixKept(a), AdminStep(a),
           NEW s \in Sites, s = atSite[a]
    PROVE  FixKept(a)'
<1>1. ASSUME NEW operation, NEW t \in {"hub", "pick"}, Begin(a, operation, t)
      PROVE  FixKept(a)'
  BY <1>1, BeginStarts, RestKept
<1>2. CASE Scan(a) \/ Switch(a) \/ Reconcile(a)
  BY <1>1, <1>2 DEF Scan, Switch, Reconcile
<1>3. CASE Raise(a)
  BY <1>3, RaiseEnds, RestKept
<1>4. ASSUME NEW status, status # "fixed", NextSite(a, status), phase[a] # "done"
      PROVE  FixKept(a)'
  BY <1>4, NextSiteGoesOn, RestKept DEF FixKept
<1>5. ASSUME task[a] # "fix", UNCHANGED <<task, report>>, phase[a] # "done"
      PROVE  FixKept(a)'
  BY <1>5, RestKept DEF FixKept
<1>6. CASE (ScanHub(a) \/ ScanSite(a) \/ CheckSite(a) \/ SiteUnreachable(a) \/ ReadForUpdate(a)
              \/ PushEndpoint(a) \/ UpdateFails(a)) /\ ~Raise(a)
  BY <1>4, <1>5, <1>6 DEF ScanHub, ScanSite, CheckSite, SiteUnreachable, ReadForUpdate,
       PushEndpoint, UpdateFails, At, GoTo
<1>7. CASE Pick(a)
  BY <1>7, RestKept DEF Pick, FixKept, Return, GoTo, IdentityInv, AdminKept
<1>8. CASE FixFails(a) \/ FixPushFails(a)
  BY <1>3, <1>8 DEF FixFails, FixPushFails
<1>9. CASE ReadPeer(a)
  <2>1. /\ phase[a] = "hub" /\ phase'[a] = "site" /\ atSite'[a] = s
        /\ peers'[a] = PeersOf(s, hubPeers) /\ UNCHANGED <<report, hubPeers>>
    BY <1>9 DEF ReadPeer, At, GoTo, TypeInv, LocalsTyped, gateways
  <2>2. Underway(a)'
    BY <2>1 DEF Underway, Stage, PeersOf, FindStages
  <2> QED
    BY <2>1, <2>2, MidwayKept
<1>10. CASE MakePlan(a)
  <2>1. PICK p \in peers[a] :
          LET new == Planned(p, site[s])
          IN  \/ /\ DOMAIN new.hub = {} /\ DOMAIN new.site = {}
                 /\ Reported(a, "fixed") /\ Return(a)
              \/ /\ \/ phase' = [phase EXCEPT ![a] = "find"]
                    \/ DOMAIN new.hub = {} /\ phase' = [phase EXCEPT ![a] = "reread"]
                 /\ fixPlan' = [fixPlan EXCEPT ![a] = {new}]
                 /\ UNCHANGED <<atSite, report>>
    BY <1>10 DEF MakePlan, GoTo
  <2>2. /\ task[a] = "fix" /\ phase[a] = "site"
        /\ UNCHANGED <<hubPeers, site, undisturbed>>
    BY <1>10 DEF MakePlan, At, gateways, history
  <2>3. undisturbed[a] => p \in hubPeers /\ p.uuid = s
    BY <2>2 DEF FixKept, Underway, Stage
  <2>4. p \in SitePeer /\ site[s] \in ClientPolicy
    BY DEF TypeInv, LocalsTyped, GatewaysTyped
  <2> DEFINE x == Planned(p, site[s])
  <2>5. /\ Drifts(p, site[s]) = DOMAIN x.hub \cup DOMAIN x.site
        /\ DOMAIN x.hub = {} => Drifts(p, Updated(site[s], x.site)) = {}
    BY <2>4, PlanIsDrift, PlanFixes, NothingToUpdate
  <2>6. CASE Reported(a, "fixed") /\ Return(a) /\ DOMAIN x.hub = {} /\ DOMAIN x.site = {}
    <3>1. undisturbed'[a] => InStep(s)'
      BY <2>2, <2>3, <2>5, <2>6 DEF InStep
    <3> QED
      BY <2>2, <2>6, <3>1, EndKept
  <2> HIDE DEF x
  <2>7. ASSUME fixPlan' = [fixPlan EXCEPT ![a] = {x}], UNCHANGED <<atSite, report>>,
               \/ phase' = [phase EXCEPT ![a] = "find"]
               \/ DOMAIN x.hub = {} /\ phase' = [phase EXCEPT ![a] = "reread"]
        PROVE  FixKept(a)'
    <3>1. /\ fixPlan'[a] = {x} /\ atSite'[a] = s
          /\ phase'[a] = "find" \/ (DOMAIN x.hub = {} /\ phase'[a] = "reread")
      BY <2>7 DEF TypeInv, LocalsTyped
    <3>2. undisturbed'[a] => Underway(a)'
      BY <2>2, <2>3, <2>5, <3>1 DEF Underway, Stage, FindStages, x
    <3> QED
      BY <2>2, <2>7, <3>2, MidwayKept
  <2> QED
    BY <2>1, <2>6, <2>7 DEF x
<1>11. CASE FindPeer(a)
  <2>1. PICK x \in fixPlan[a], q \in hubPeers :
          q.ip = x.ip /\ peers' = [peers EXCEPT ![a] = {Updated(q, x.hub)}]
    BY <1>11 DEF FindPeer
  <2>2. /\ task[a] = "fix" /\ phase[a] = "find" /\ phase'[a] = "edit"
        /\ UNCHANGED <<atSite, fixPlan, report, hubPeers, site, undisturbed>>
        /\ peers'[a] = {Updated(q, x.hub)}
    BY <1>11, <2>1 DEF FindPeer, At, GoTo, TypeInv, LocalsTyped, gateways, history
  <2>3. ASSUME undisturbed[a] PROVE Underway(a)'
    <3>1. PICK p \in hubPeers : p.uuid = s /\ fixPlan[a] = {Planned(p, site[s])}
      BY <2>2, <2>3 DEF FixKept, Underway, Stage, FindStages
    <3>2. x = Planned(p, site[s])
      BY <3>1
    <3>3. x.ip = p.ip
      BY <3>2 DEF Planned
    <3>4. q = p
      BY <2>1, <3>3, OneAtAddress
    <3> QED
      BY <2>2, <3>1, <3>2, <3>4 DEF Underway, Stage, FindStages
  <2> QED
    BY <2>2, <2>3, MidwayKept
<1>12. CASE EditPeers(a)
  <2>1. PICK new \in peers[a], q \in hubPeers :
          q.ip = new.ip /\ peers' = [peers EXCEPT ![a] = (hubPeers \ {q}) \cup {new}]
    BY <1>12 DEF EditPeers
  <2>2. /\ task[a] = "fix" /\ phase[a] = "edit" /\ phase'[a] = "pushHub"
        /\ UNCHANGED <<atSite, fixPlan, report, hubPeers, site, undisturbed>>
        /\ peers'[a] = (hubPeers \ {q}) \cup {new}
    BY <1>12, <2>1 DEF EditPeers, At, GoTo, TypeInv, LocalsTyped, gateways, history
  <2>3. ASSUME undisturbed[a] PROVE Underway(a)'
    <3>1. PICK p \in hubPeers :
            LET x == Planned(p, site[s])
            IN  p.uuid = s /\ fixPlan[a] = {x} /\ peers[a] = {Updated(p, x.hub)}
      BY <2>2, <2>3 DEF FixKept, Underway, Stage, FindStages
    <3>2. new = Updated(p, Planned(p, site[s]).hub) /\ new.ip = p.ip
      BY <3>1, EditedPeerFound DEF TypeInv, GatewaysTyped
    <3>3. q = p
      BY <2>1, <3>2, OneAtAddress
    <3> QED
      BY <2>2, <3>1, <3>2, <3>3 DEF Underway, Stage, FindStages
  <2> QED
    BY <2>2, <2>3, MidwayKept
<1>13. CASE PushHub(a) /\ ~Raise(a)
  <2>1. PICK x \in fixPlan[a] :
          \/ /\ GoTo(a, "reread")
             /\ UNCHANGED <<atSite, policy, fixPlan, report>>
          \/ DOMAIN x.site = {} /\ Reported(a, "fixed") /\ Return(a)
    BY <1>13 DEF PushHub
  <2>2. /\ task[a] = "fix" /\ phase[a] = "pushHub" /\ hubPeers' = peers[a] /\ site' = site
        /\ undisturbed'[a] => undisturbed[a]
    BY <1>13 DEF PushHub, At, Wrote
  <2>3. ASSUME undisturbed[a]
        PROVE  \E q \in hubPeers' :
                 /\ q.uuid = s /\ fixPlan[a] = {x}
                 /\ Drifts(q, Updated(site[s], x.site)) = {}
    <3>1. PICK p \in hubPeers :
            LET y == Planned(p, site[s])
            IN  /\ p.uuid = s /\ fixPlan[a] = {y}
                /\ peers[a] = (hubPeers \ {p}) \cup {Updated(p, y.hub)}
      BY <2>2, <2>3 DEF FixKept, Underway, Stage, FindStages
    <3>2. p \in SitePeer /\ site[s] \in ClientPolicy /\ x = Planned(p, site[s])
      BY <3>1 DEF TypeInv, LocalsTyped, GatewaysTyped
    <3> QED
      BY <2>2, <3>1, <3>2, PlanFixes, EditedPeerFound
  <2>4. CASE GoTo(a, "reread") /\ UNCHANGED <<atSite, policy, fixPlan, report>>
    <3>1. phase'[a] = "reread"
      BY <2>4 DEF GoTo, TypeInv, LocalsTyped
    <3>2. undisturbed'[a] => Underway(a)'
      BY <2>2, <2>3, <2>4, <3>1 DEF Underway, Stage, FindStages
    <3> QED
      BY <2>2, <2>4, <3>2, MidwayKept
  <2>5. CASE DOMAIN x.site = {} /\ Reported(a, "fixed") /\ Return(a)
    <3>1. Updated(site[s], x.site) = site[s]
      BY <2>5, NothingToUpdate DEF TypeInv, LocalsTyped, GatewaysTyped
    <3>2. undisturbed'[a] => InStep(s)'
      BY <2>2, <2>3, <3>1 DEF InStep
    <3> QED
      BY <2>2, <2>5, <3>2, EndKept
  <2> QED
    BY <2>1, <2>4, <2>5
<1>14. CASE ReadSiteAgain(a)
  <2>1. PICK x \in fixPlan[a] : policy' = [policy EXCEPT ![a] = {Updated(site[s], x.site)}]
    BY <1>14 DEF ReadSiteAgain
  <2>2. /\ task[a] = "fix" /\ phase[a] = "reread" /\ phase'[a] = "pushSite"
        /\ UNCHANGED <<atSite, report, hubPeers, site, undisturbed>>
        /\ policy'[a] = {Updated(site[s], x.site)}
    BY <1>14, <2>1 DEF ReadSiteAgain, At, GoTo, TypeInv, LocalsTyped, gateways, history
  <2>3. undisturbed[a] => Underway(a)'
    BY <2>2 DEF FixKept, Underway, Stage, FindStages
  <2> QED
    BY <2>2, <2>3, MidwayKept
<1>15. CASE PushSite(a) /\ ~Raise(a)
  <2>1. PICK c \in policy[a] : site' = [site EXCEPT ![s] = c]
    BY <1>15 DEF PushSite
  <2>2. /\ task[a] = "fix" /\ phase[a] = "pushSite" /\ hubPeers' = hubPeers /\ site'[s] = c
        /\ undisturbed'[a] => undisturbed[a]
        /\ Reported(a, "fixed") /\ Return(a)
    BY <1>15, <2>1 DEF PushSite, At, Wrote, TypeInv, LocalsTyped, GatewaysTyped
  <2>3. undisturbed'[a] => InStep(s)'
    BY <2>2 DEF FixKept, Underway, Stage, InStep
  <2> QED
    BY <2>2, <2>3, EndKept
<1> QED
  BY <1>2, <1>3, <1>6, <1>7, <1>8, <1>9, <1>10, <1>11, <1>12, <1>13, <1>14, <1>15 DEF AdminStep

FixInv == \A a \in Admins : FixKept(a)

LEMMA FixStep ==
    PreferHub /\ TypeInv /\ IdentityInv /\ FixInv /\ [SitesNext]_sitesVars => FixInv'
<1> SUFFICES ASSUME PreferHub, TypeInv, IdentityInv, FixInv, [SitesNext]_sitesVars
             PROVE  FixInv'
  OBVIOUS
<1>1. CASE UNCHANGED sitesVars
  <2>1. UNCHANGED <<hubPeers, site, task, phase, atSite, peers, policy, fixPlan, report,
                    undisturbed>>
    BY <1>1 DEF sitesVars, gateways, adminLocals, copies, history
  <2>2. ASSUME NEW a \in Admins PROVE FixKept(a)'
    <3>1. /\ Underway(a)' <=> Underway(a)
          /\ \A s \in Sites : InStep(s)' <=> InStep(s)
      BY <2>1 DEF Underway, InStep
    <3> QED
      BY <2>1, <3>1 DEF FixInv, FixKept
  <2> QED
    BY <2>2 DEF FixInv
<1>2. ASSUME NEW a \in Admins, AdminStep(a) PROVE FixInv'
  <2>1. Elsewhere(a)
    BY <1>2, ElsewhereSteps
  <2> QED
    BY <1>2, <2>1, FixKeptElsewhere, FixKeptOwn DEF FixInv, TypeInv, LocalsTyped
<1> QED
  BY <1>1, <1>2, StepOfOne

\* A reconciliation that prefers the hub and that nobody disturbs has, when it
\* says so, left the site in step with its peer (apply_reconciliation).  The other
\* preference leaves a wrong key on the hub.
THEOREM ReconcilingFixes == PreferHub /\ SitesSpec => []ReconcileFixes
<1>1. SitesInit => TypeInv /\ IdentityInv /\ FixInv
  <2>1. SitesInit => FixInv
    BY DEF SitesInit, FixInv, FixKept, NoReport
  <2> QED
    BY <2>1, TypeInit, IdentityInit
<1>2. FixInv => ReconcileFixes
  BY DEF FixInv, FixKept, ReconcileFixes
<1> QED
  <2>1. CASE PreferHub
    <3>1. TypeInv /\ IdentityInv /\ FixInv /\ [SitesNext]_sitesVars =>
            (TypeInv /\ IdentityInv /\ FixInv)'
      BY <2>1, TypeStep, IdentityStep, FixStep
    <3> QED BY <1>1, <1>2, <3>1, PTL DEF SitesSpec
  <2>2. CASE ~PreferHub
    BY <2>2
  <2> QED BY <2>1, <2>2
=============================================================================
