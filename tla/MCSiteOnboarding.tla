-------------------------- MODULE MCSiteOnboarding --------------------------
(* Instances of SiteOnboarding for TLC: three addresses, one of them in use. *)
EXTENDS SiteOnboarding, TLC

CONSTANTS m1, u1, a1, a2, a3, k1, k2, k3

P(a, k) == [uuid |-> u1, ip |-> a, key |-> k]
AddsOnly == {AddOf(p) : p \in Peer}
OneInitial == {P(a1, k1)}
\* Of add_hub_peers: a new peer, a taken address, a taken key.
SerialRequests == [m \in Managers |-> <<P(a2, k2), P(a1, k3), P(a3, k2)>>]
AddressPool == <<a1, a2, a3>>
\* Pinned to a taken or a free address, or not pinned; with the site or
\* without; dry or not.
AllJobs == [key: {k2, k3}, ip: {a1, a3, NoIp}, client: BOOLEAN, apply: BOOLEAN]
\* Every call does it all.
FullJobs == [key: {k2}, ip: {a1, NoIp}, client: {TRUE}, apply: {TRUE}]
============================================================================
