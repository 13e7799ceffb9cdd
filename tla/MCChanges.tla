------------------------------ MODULE MCChanges ------------------------------
(* The changes of a hub, of a hub and its sites, of cloud routes, of a site's *)
(* control policies and of a WAN line, each on a small instance: a behaviour *)
(* runs one of them, and the rest stands still.                              *)
EXTENDS HubPolicy, SitePolicies, CloudRoutes, SiteControl, WanPrimary, TLC

CONSTANTS m1, m2, h1, h2, h3, k1, k2, k3,          \* hub peers, and administrators
          q1, q2, e3,                              \* with sites s1, s2 and a1, a2, e1..e3
          u1, u2, c1, n1, n2, x1, x2,              \* cloud routes
          p1, p2, a1, a2, plain, grouped, e1, e2,  \* site control
          wan1, wan2, b1, b2, s1, s2, g1, g2       \* WAN lines

VARIABLE command    \* what runs

P(u, a, k) == [uuid |-> u, ip |-> a, key |-> k]
OneInitial == {P(u1, h1, k1)}
\* A new peer; a batch with its key and with the address of the first peer; what
\* may happen to that one, or to one that has its uuid or its address; an operation
\* that touches no peer.
Change(kind, by, these) == [kind |-> kind, by |-> by, peers |-> these]
SomeOps == {AddOf(P(u2, h2, k2)),
            Change("add", {}, {P(u1, h1, k3), P(u2, h3, k2)}),
            Change("delete", {"ip", "key"}, {P(u1, h1, k1)}),
            Change("update", {"ip"}, {P(u1, h1, k1)}),
            Change("update", {"uuid"}, {P(u1, h3, k3)}),
            NoOp}

\* Managers and Admins are the same set, and nothing tells its members apart.
AdminSymmetry == Permutations(Managers)

HubPeers == {[uuid |-> s1, ip |-> a1, key |-> k1, psk |-> q1],
             [uuid |-> s2, ip |-> a2, key |-> k2, psk |-> NoPsk]}
\* The first site uses its address or the other's, its key or another, its
\* preshared key or another; the second is on another hub.
FirstSite == [ip: {a1, a2}, key: {k1, k3}, psk: {q1, q2}, endpoint: {e1}]
SecondSite == [ip |-> a2, key |-> k2, psk |-> q2, endpoint |-> e3]
Drifted == {[s \in Sites |-> IF s = s1 THEN c ELSE SecondSite] : c \in FirstSite}

CloudRow(u, isClient, c, n, x) ==
    [uuid |-> u, client |-> isClient, conf |-> c, key |-> "full", psk |-> "full",
     routes |-> n, extra |-> x]
MCRows == {CloudRow(u1, TRUE, c1, {n1}, x1), CloudRow(u1, TRUE, c1, {n2}, x2),
           CloudRow(u1, FALSE, c1, {n1}, x1), CloudRow(u2, TRUE, Incomplete, {n1}, x1)}

SitePolicy(apps, scope) == [apps |-> apps, scope |-> scope]
MCPolicies ==
    [i \in Ids |-> IF i = p1 THEN {SitePolicy({a1, a2}, plain), SitePolicy({a2}, plain)}
                             ELSE {SitePolicy({a1}, grouped), Gone}]

WanLine(n, m, b) == [ifname |-> n, m |-> m, band |-> b]
MCWans == {[list |-> {WanLine(wan1, TRUE, b1), WanLine(wan2, FALSE, b2)}, settings |-> s1],
           [list |-> {WanLine(wan1, FALSE, b1), WanLine(wan2, TRUE, b2)}, settings |-> s2],
           [list |-> {WanLine(wan1, TRUE, b2)}, settings |-> s1]}

MCInit ==
    /\ HubInit /\ SitesInit /\ RoutesInit /\ ControlInit /\ WanInit
    /\ command \in {"hub", "sites", "routes", "control", "wan"}
    /\ command # "sites" => site = CHOOSE s \in Drifted : TRUE
    /\ command # "routes" => rows = {CHOOSE r \in MCRows : TRUE}
    /\ command # "control" => cloud = [i \in Ids |-> CHOOSE p \in MCPolicies[i] : TRUE]
    /\ command # "wan" => wan = CHOOSE w \in MCWans : TRUE
    /\ primary = wan1

allVars == <<hubVars, sitesVars, routesVars, controlVars, wanVars>>

MCNext ==
    /\ UNCHANGED command
    /\ \/ command = "hub" /\ HubNext /\ UNCHANGED <<sitesVars, routesVars, controlVars, wanVars>>
       \/ command = "sites" /\ SitesNext /\ UNCHANGED <<hubVars, routesVars, controlVars, wanVars>>
       \/ command = "routes" /\ RoutesNext /\ UNCHANGED <<hubVars, sitesVars, controlVars, wanVars>>
       \/ command = "control" /\ ControlNext /\ UNCHANGED <<hubVars, sitesVars, routesVars, wanVars>>
       \/ command = "wan" /\ WanNext /\ UNCHANGED <<hubVars, sitesVars, routesVars, controlVars>>

MCSpec == MCInit /\ [][MCNext]_<<allVars, command>>

\* Every variable of every change keeps its type.
ChangesTypeOK ==
    HubTypeOK /\ SitesTypeOK /\ RoutesTypeOK /\ ControlTypeOK /\ WanTypeOK
==============================================================================
