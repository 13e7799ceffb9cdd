----------------------------- MODULE HubPolicy ------------------------------
(***************************************************************************)
(* The peers of a hub gateway's WireGuard server policy, and the           *)
(* WireGuardManagers that change them.  The gateway only takes whole       *)
(* policies: every operation reads the policy, edits its copy and pushes   *)
(* the copy back (wireguard.py 254-417), with no version to compare, while *)
(* other managers do the same and the gateway applies what it was sent in  *)
(* its own time (gateway.py 196-227).                                      *)
(* A step is a read with the edit that follows it, the arrival of a push,  *)
(* or what becomes of it.                                                  *)
(***************************************************************************)
EXTENDS Naturals, Sequences

CONSTANTS
    Managers,      \* WireGuardManagers, in any process
    Uuids,         \* identities of peers
    Addresses,     \* interface addresses of peers
    Keys,          \* public keys of peers
    Ops,           \* the operations that are called
    InitialPeers,  \* peers on the hub at first
    Nobody,        \* no manager waits for an answer any more
    Timeouts,      \* whether a push may time out
    Drops,         \* whether a push nobody waits for may be lost
    MaxQueue       \* bounds the pushes the gateway has not applied yet

Peer == [uuid: Uuids, ip: Addresses, key: Keys]
MatchFields == {"uuid", "ip", "key"}
\* "add": add_peer and add_peers_batch; "delete": delete_peer, by one field or
\* several; "update": update_peer, by one; "touch": rename_peers and
\* set_server_policy_enabled, which keep every peer.
Kinds == {"add", "delete", "update", "touch"}
Op == [kind: Kinds, by: SUBSET MatchFields, peers: SUBSET Peer]
AddOf(p) == [kind |-> "add", by |-> {}, peers |-> {p}]
NoOp == [kind |-> "touch", by |-> {}, peers |-> {}]

AddressesOf(peers) == {p.ip : p \in peers}

\* No two peers share an address, or a key.
OneByAddress(peers) == \A p, q \in peers : p.ip = q.ip => p = q
OneByKey(peers) == \A p, q \in peers : p.key = q.key => p = q

ASSUME HubAssumption ==
    /\ Nobody \notin Managers
    /\ Ops \subseteq Op
    /\ \A o \in Ops : o.kind = "update" =>
         (\E f \in MatchFields : o.by = {f}) /\ \E p \in Peer : o.peers = {p}
    /\ InitialPeers \subseteq Peer
    /\ OneByAddress(InitialPeers) /\ OneByKey(InitialPeers)
    /\ Timeouts \in BOOLEAN /\ Drops \in BOOLEAN
    /\ MaxQueue \in Nat \ {0}

VARIABLES
    hub,       \* the peers of the policy in force on the gateway
    queue,     \* pushes the gateway has taken in and not applied yet
    pc,        \* [Managers -> control state of the operation]
    op,        \* [Managers -> the operation]
    draft,     \* [Managers -> the edited copy]
    outcome,   \* [Managers -> how the last operation ended]
    meddled    \* history: first peers that a delete or update was called for

hubVars == <<hub, queue, pc, op, draft, outcome, meddled>>

Push == [by: Managers \cup {Nobody}, peers: SUBSET Peer]
\* "conflict": RuijieWireGuardConflictError; "wireguard": any other
\* RuijieWireGuardError; "api": RuijieApiError, or the ReadTimeout of a read.
Outcomes == {"none", "ok", "conflict", "wireguard", "api"}

HubInit ==
    /\ hub = InitialPeers
    /\ queue = <<>>
    /\ pc = [m \in Managers |-> "idle"]
    /\ op = [m \in Managers |-> NoOp]
    /\ draft = [m \in Managers |-> {}]
    /\ outcome = [m \in Managers |-> "none"]
    /\ meddled = {}

-----------------------------------------------------------------------------
(* The edit. *)

\* Mutant: the keys are not compared.
ConflictsByAddress(new, peers) ==
    \/ \E p \in new, q \in peers : p.ip = q.ip
    \/ ~OneByAddress(new)

\* Mutant: the addresses are not compared.
ConflictsByKey(new, peers) ==
    \/ \E p \in new, q \in peers : p.key = q.key
    \/ ~OneByKey(new)

\* A peer to add has the address or the key of another.
Conflicts(new, peers) ==
    \/ \E p \in new, q \in peers : p.ip = q.ip \/ p.key = q.key
    \/ ~OneByAddress(new) \/ ~OneByKey(new)

\* The peers that a delete or an update is about.
Matching(o, peers) == {q \in peers : \E f \in o.by, p \in o.peers : q[f] = p[f]}
Missing(o, peers) == o.kind \in {"delete", "update"} /\ Matching(o, peers) = {}

\* What the edit may take away: a delete all it is about, an update one of it
\* (the first on the list).
Taken(o, peers) ==
    CASE o.kind = "delete" -> {Matching(o, peers)}
      [] o.kind = "update" -> {{q} : q \in Matching(o, peers)}
      [] OTHER -> {{}}
Brought(o) == IF o.kind \in {"add", "update"} THEN o.peers ELSE {}

\* Mutant: what is pushed are the new peers alone.
EditsAlone(o, peers) ==
    {(IF o.kind = "add" THEN {} ELSE peers \ gone) \cup Brought(o) : gone \in Taken(o, peers)}

\* The copies that the edit may end with.  An update compares the address and
\* the key of its peer with those of no other.
Edits(o, peers) == {(peers \ gone) \cup Brought(o) : gone \in Taken(o, peers)}

-----------------------------------------------------------------------------
(* An operation of a manager. *)

Done(m, how) ==
    /\ pc' = [pc EXCEPT ![m] = "idle"]
    /\ op' = [op EXCEPT ![m] = NoOp]
    /\ draft' = [draft EXCEPT ![m] = {}]
    /\ outcome' = [outcome EXCEPT ![m] = how]

Call(m, o) ==
    /\ pc[m] = "idle"
    /\ pc' = [pc EXCEPT ![m] = "read"]
    /\ op' = [op EXCEPT ![m] = o]
    /\ outcome' = [outcome EXCEPT ![m] = "none"]
    /\ meddled' = meddled \cup Matching(o, InitialPeers)
    /\ UNCHANGED <<hub, queue, draft>>

\* get_server_policy, then the checks and the edit of the copy.
ReadPolicy(m) ==
    /\ pc[m] = "read"
    /\ \/ op[m].kind = "add" /\ Conflicts(op[m].peers, hub) /\ Done(m, "conflict")
       \/ Missing(op[m], hub) /\ Done(m, "wireguard")
       \/ op[m].kind = "touch" /\ Done(m, "ok")    \* no peer to rename
       \/ /\ op[m].kind = "add" => ~Conflicts(op[m].peers, hub)
          /\ ~Missing(op[m], hub)
          /\ \E edited \in Edits(op[m], hub) : draft' = [draft EXCEPT ![m] = edited]
          /\ pc' = [pc EXCEPT ![m] = "push"]
          /\ UNCHANGED <<op, outcome>>
    /\ UNCHANGED <<hub, queue, meddled>>

\* The snapshot is malformed or empty, or the request fails or times out.  (Two peers
\* with one uuid always make it malformed; with few uuids to go round that is left
\* a choice here, which allows more.)
ReadFails(m) ==
    /\ pc[m] = "read"
    /\ \E how \in {"wireguard", "api"} : Done(m, how)
    /\ UNCHANGED <<hub, queue, meddled>>

\* update_server_policy: devConfig.update with the whole policy.
PushPolicy(m) ==
    /\ pc[m] = "push" /\ Len(queue) < MaxQueue
    /\ queue' = Append(queue, [by |-> m, peers |-> draft[m]])
    /\ pc' = [pc EXCEPT ![m] = "wait"]
    /\ UNCHANGED <<hub, op, draft, outcome, meddled>>

\* The push does not reach the gateway.
PushFails(m) ==
    /\ pc[m] = "push"
    /\ Done(m, "api")
    /\ UNCHANGED <<hub, queue, meddled>>

\* Mutant: a push keeps its manager, who no longer waits.
StillOwned(m) == queue

\* The pushes that remain when manager m stops waiting.
Disowned(m) == [i \in DOMAIN queue |->
                  [queue[i] EXCEPT !.by = IF @ = m THEN Nobody ELSE @]]

\* cmd_checked: a push that times out counts as applied, and so does one whose
\* answer has no rcode to check (gateway.py 218-227), whatever becomes of it.
PushTimesOut(m) ==
    /\ Timeouts /\ pc[m] = "wait"
    /\ queue' = Disowned(m)
    /\ Done(m, "ok")
    /\ UNCHANGED <<hub, meddled>>

\* The connection breaks, or the gateway answers with an HTTP error.
AnswerLost(m) ==
    /\ pc[m] = "wait"
    /\ queue' = Disowned(m)
    /\ Done(m, "api")
    /\ UNCHANGED <<hub, meddled>>

-----------------------------------------------------------------------------
(* The gateway, one push at a time in the order of arrival. *)

Answer(how) ==
    LET m == Head(queue).by
    IN  IF m = Nobody THEN UNCHANGED <<pc, op, draft, outcome>> ELSE Done(m, how)

GatewayApplies ==
    /\ queue # <<>>
    /\ hub' = Head(queue).peers
    /\ queue' = Tail(queue)
    /\ Answer("ok")
    /\ UNCHANGED meddled

\* rcode is not success: the policy stays as it is.
GatewayRefuses ==
    /\ queue # <<>> /\ (Head(queue).by # Nobody \/ Drops)
    /\ queue' = Tail(queue)
    /\ Answer("api")
    /\ UNCHANGED <<hub, meddled>>

ManagerStep(m) ==
    \/ ReadPolicy(m) \/ ReadFails(m) \/ PushPolicy(m) \/ PushFails(m)
    \/ PushTimesOut(m) \/ AnswerLost(m)
Gateway == GatewayApplies \/ GatewayRefuses

HubNext ==
    \/ \E m \in Managers : ManagerStep(m) \/ \E o \in Ops : Call(m, o)
    \/ Gateway

HubSpec == HubInit /\ [][HubNext]_hubVars

-----------------------------------------------------------------------------
(* Properties. *)

\* Every variable keeps its type; the gateway answers whom it owes an answer.
HubTypeOK ==
    /\ hub \subseteq Peer
    /\ queue \in Seq(Push) /\ Len(queue) <= MaxQueue
    /\ pc \in [Managers -> {"idle", "read", "push", "wait"}]
    /\ op \in [Managers -> Op]
    /\ draft \in [Managers -> SUBSET Peer]
    /\ outcome \in [Managers -> Outcomes]
    /\ meddled \subseteq InitialPeers
    /\ \A m \in Managers :
         pc[m] = "wait" <=> \E i \in DOMAIN queue : queue[i].by = m

\* Addresses and keys that some update gives to a peer that it knows by another
\* field: update_peer compares them with nothing (wireguard.py 343-360).
Handed(field) ==
    UNION {{p[field] : p \in o.peers} : o \in {x \in Ops : x.kind = "update" /\ field \notin x.by}}
OneByOtherAddress(peers) ==
    \A p, q \in peers : p.ip = q.ip /\ p.ip \notin Handed("ip") => p = q
OneByOtherKey(peers) ==
    \A p, q \in peers : p.key = q.key /\ p.key \notin Handed("key") => p = q

\* No two peers on the hub share an address, although every manager checks only
\* its own copy and copies overtake each other, unless an update by uuid or key
\* hands out that address: such an update can do it all alone.
AddressesUnique == OneByOtherAddress(hub)

\* Nor do two peers share a key, unless an update by uuid or address hands out
\* that key.
KeysUnique == OneByOtherKey(hub)

\* A peer that was on the hub at first, and that no operation was about, is
\* still there: whole-policy pushes may undo each other's work, but never
\* damage what neither was about.
BystandersKept == \A p \in InitialPeers \ meddled : p \in hub
=============================================================================
