---------------------------- MODULE CloudListing ----------------------------
(***************************************************************************)
(* The account as the cloud's listing endpoints show it while a client     *)
(* pages through it: an ordered listing of devices, the group each is in,  *)
(* and the changes that other users of the account make in the meantime.   *)
(* External to pyruijie: modelled from what client.py reads of the answers *)
(* (totalCount, deviceList, groupId, page and per_page).                   *)
(***************************************************************************)
EXTENDS Integers, Sequences, FiniteSets, SequencesExt

CONSTANTS
    Devices,      \* serial numbers
    Groups,       \* the sequence of the root's direct subgroups
    MaxChanges    \* changes to the account during one collection

ASSUME CloudAssumption == IsFiniteSet(Devices) /\ MaxChanges \in Nat

VARIABLES
    listing,      \* Seq(Devices): the account's devices in listing order
    home,         \* [Devices -> groups]: groupId
    blind,        \* the root answers "no devices" although subgroups have them
    changes,      \* changes since the collection started
    stable,       \* history: devices listed, unchanged, since then
    everListed,   \* history: devices listed at some time since then
    departures    \* history: devices retired or moved since then

cloud == <<listing, home, blind, changes, stable, everListed, departures>>

GroupSet == ToSet(Groups)
Orders == UNION {SetToSeqs(S) : S \in SUBSET Devices}

CloudTypeOK ==
    /\ listing \in Orders
    /\ home \in [Devices -> GroupSet]
    /\ blind \in BOOLEAN
    /\ changes \in 0..MaxChanges
    /\ stable \subseteq Devices
    /\ everListed \subseteq Devices
    /\ departures \in 0..changes

CloudInit ==
    /\ listing \in Orders
    /\ home \in [Devices -> GroupSet]
    /\ blind \in BOOLEAN
    /\ changes = 0
    /\ stable = {}
    /\ everListed = {}
    /\ departures = 0

\* What a listing request for the root, or for one group, ranges over.
RootListing == IF blind THEN <<>> ELSE listing
GroupListing(g) ==
    LET places == {i \in DOMAIN listing : home[listing[i]] = g}
        Place(k) == CHOOSE i \in places : Cardinality({j \in places : j <= i}) = k
    IN  [k \in 1..Cardinality(places) |-> listing[Place(k)]]

\* Page p (from 1) of a listing, n entries a page.
PageOf(l, p, n) ==
    LET last == IF p * n < Len(l) THEN p * n ELSE Len(l)
    IN  SubSeq(l, (p - 1) * n + 1, last)

\* A collection starts: from here on changes count.
Observe ==
    /\ changes' = 0
    /\ stable' = ToSet(listing)
    /\ everListed' = ToSet(listing)
    /\ departures' = 0
    /\ UNCHANGED <<listing, home, blind>>

Change == changes < MaxChanges /\ changes' = changes + 1

\* A device is adopted: the listing may show it first or last.
Adopt(d) ==
    /\ Change
    /\ d \notin ToSet(listing)
    /\ listing' \in {<<d>> \o listing, Append(listing, d)}
    /\ \E g \in GroupSet : home' = [home EXCEPT ![d] = g]
    /\ everListed' = everListed \cup {d}
    /\ UNCHANGED <<blind, stable, departures>>

Retire(d) ==
    /\ Change
    /\ \E i \in DOMAIN listing : listing[i] = d /\ listing' = RemoveAt(listing, i)
    /\ stable' = stable \ {d}
    /\ departures' = departures + 1
    /\ UNCHANGED <<home, blind, everListed>>

Move(d) ==
    /\ Change
    /\ d \in ToSet(listing)
    /\ \E g \in GroupSet \ {home[d]} : home' = [home EXCEPT ![d] = g]
    /\ stable' = stable \ {d}
    /\ departures' = departures + 1
    /\ UNCHANGED <<listing, blind, everListed>>

\* The hierarchy changes under the account (observed 2026-09-04): the root
\* stops listing the devices of its subgroups.  Every device stays in place.
RootGoesBlind ==
    /\ Change
    /\ ~blind /\ blind' = TRUE
    /\ UNCHANGED <<listing, home, stable, everListed, departures>>

Churn == \E d \in Devices : Adopt(d) \/ Retire(d) \/ Move(d)
==============================================================================
