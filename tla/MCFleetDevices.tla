--------------------------- MODULE MCFleetDevices ---------------------------
(* Instances of FleetDevices for TLC: up to three devices. *)
EXTENDS FleetDevices

CONSTANTS d1, d2, d3, g1, g2, g3

TwoGroups == <<g1, g2>>
ThreeGroups == <<g1, g2, g3>>
==============================================================================
