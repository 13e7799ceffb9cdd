--------------------------- MODULE MCAddHubPeers ---------------------------
(* Instances of AddHubPeers for TLC: three addresses, one of them in use. *)
EXTENDS AddHubPeers, TLC

CONSTANTS m1, u1, a1, a2, a3, k1, k2, k3

P(a, k) == [uuid |-> u1, ip |-> a, key |-> k]
AddsOnly == {AddOf(p) : p \in Peer}
OneInitial == {P(a1, k1)}
\* New peers, a taken address, a taken key.
SerialRequests ==
    [m \in Managers |-> <<P(a2, k2), P(a1, k3), P(a3, k2), P(a3, k3)>>]
============================================================================
