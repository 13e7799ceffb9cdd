-------------------------- MODULE HubPolicyProofs --------------------------
(***************************************************************************)
(* Proofs about HubPolicy, for any number of managers, peers and pushes    *)
(* under way, and whatever times out, is lost or refused.  What holds of   *)
(* the hub holds because it holds of every copy of its policy: the ones    *)
(* that managers edit and the ones that the gateway has yet to apply.      *)
(***************************************************************************)
EXTENDS HubPolicy, TLAPS

\* The types that the arguments below need.
Typed ==
    /\ hub \subseteq Peer
    /\ queue \in Seq(Push)
    /\ pc \in [Managers -> {"idle", "read", "push", "wait"}]
    /\ op \in [Managers -> Op]
    /\ draft \in [Managers -> SUBSET Peer]
    /\ outcome \in [Managers -> Outcomes]
    /\ meddled \subseteq InitialPeers

\* An operation under way is one of those that are called, and what it was
\* called to take away is known.
Called == \A m \in Managers :
    /\ op[m] \in Ops \cup {NoOp}
    /\ Matching(op[m], InitialPeers) \subseteq meddled

\* What holds of a copy of the policy, when `touched' are the first peers that
\* operations were called to delete or update.
Sound(peers, touched) ==
    /\ OneByOtherAddress(peers)
    /\ OneByOtherKey(peers)
    /\ \A p \in InitialPeers \ touched : p \in peers

Copies ==
    /\ Sound(hub, meddled)
    /\ \A i \in DOMAIN queue : Sound(queue[i].peers, meddled)
    /\ \A m \in Managers : pc[m] \in {"push", "wait"} => Sound(draft[m], meddled)

IInv == Typed /\ Called /\ Copies

\* What the edit does to peers: it takes away none but those that the operation
\* is about, and adds what it brings.
LEMMA EditedTyped ==
    ASSUME NEW o \in Op, NEW peers \in SUBSET Peer, NEW edited \in Edits(o, peers)
    PROVE  /\ edited \in SUBSET Peer
           /\ \E gone \in SUBSET Matching(o, peers) : edited = (peers \ gone) \cup Brought(o)
<1>1. PICK gone \in Taken(o, peers) : edited = (peers \ gone) \cup Brought(o)
  BY DEF Edits
<1>2. gone \in SUBSET Matching(o, peers)
  BY DEF Taken
<1>3. Brought(o) \in SUBSET Peer
  BY DEF Brought, Op
<1> QED
  BY <1>1, <1>2, <1>3

\* An addition was compared with the rest.
LEMMA AdditionUnique ==
    ASSUME NEW new, NEW peers, OneByOtherAddress(peers), OneByOtherKey(peers),
           ~Conflicts(new, peers)
    PROVE  OneByOtherAddress(peers \cup new) /\ OneByOtherKey(peers \cup new)
BY DEF Conflicts, OneByAddress, OneByKey, OneByOtherAddress, OneByOtherKey

\* An update replaces the peer that has its address or its key; or it knows the
\* peer by another field, and its address and its key are among those handed out.
LEMMA UpdateUnique ==
    ASSUME NEW o \in Ops, o.kind = "update", NEW peers \in SUBSET Peer,
           OneByOtherAddress(peers), OneByOtherKey(peers), NEW edited \in Edits(o, peers)
    PROVE  OneByOtherAddress(edited) /\ OneByOtherKey(edited)
<1>1. PICK f \in MatchFields, p \in Peer : o.by = {f} /\ o.peers = {p}
  BY HubAssumption
<1>2. PICK q \in peers : q[f] = p[f] /\ edited = (peers \ {q}) \cup {p}
  BY <1>1 DEF Edits, Taken, Brought, Matching
<1>3. f # "ip" => p.ip \in Handed("ip")
  BY <1>1 DEF Handed
<1>4. f # "key" => p.key \in Handed("key")
  BY <1>1 DEF Handed
<1>5. OneByOtherAddress(edited)
  BY <1>2, <1>3 DEF OneByOtherAddress
<1>6. OneByOtherKey(edited)
  BY <1>2, <1>4 DEF OneByOtherKey
<1> QED
  BY <1>5, <1>6

\* The edit keeps a copy sound: nothing goes but what the operation is about.
LEMMA EditedSound ==
    ASSUME NEW o \in Ops \cup {NoOp}, NEW peers \in SUBSET Peer,
           NEW touched, Sound(peers, touched), NEW edited \in Edits(o, peers),
           o.kind = "add" => ~Conflicts(o.peers, peers),
           Matching(o, InitialPeers) \subseteq touched
    PROVE  Sound(edited, touched)
<1>1. o \in Op
  BY HubAssumption DEF NoOp, Op, Kinds
<1>2. PICK gone \in SUBSET Matching(o, peers) : edited = (peers \ gone) \cup Brought(o)
  BY <1>1, EditedTyped
<1>3. \A p \in InitialPeers \ touched : p \in edited
  BY <1>2 DEF Sound, Matching
<1>4. CASE o.kind = "add"
  <2>1. edited = peers \cup o.peers
    BY <1>4 DEF Edits, Taken, Brought
  <2> QED
    BY <1>3, <1>4, <2>1, AdditionUnique DEF Sound
<1>5. CASE o.kind = "update"
  <2>1. o \in Ops
    BY <1>5 DEF NoOp
  <2> QED
    BY <1>3, <1>5, <2>1, UpdateUnique DEF Sound
<1>6. CASE o.kind \in {"delete", "touch"}
  <2>1. edited \subseteq peers
    BY <1>2, <1>6 DEF Brought
  <2> QED
    BY <1>3, <2>1 DEF Sound, OneByOtherAddress, OneByOtherKey
<1> QED
  BY <1>1, <1>4, <1>5, <1>6 DEF Op, Kinds

\* More operations called makes no copy unsound.
LEMMA SoundGrows ==
    ASSUME NEW peers, NEW touched, NEW more, touched \subseteq more, Sound(peers, touched)
    PROVE  Sound(peers, more)
BY DEF Sound

LEMMA DisownedKeeps ==
    ASSUME Typed, NEW m \in Managers
    PROVE  /\ Disowned(m) \in Seq(Push)
           /\ DOMAIN Disowned(m) = DOMAIN queue
           /\ \A i \in DOMAIN queue : Disowned(m)[i].peers = queue[i].peers
<1>1. Len(queue) \in Nat /\ DOMAIN queue = 1..Len(queue)
  BY DEF Typed
<1>2. \A i \in DOMAIN queue : queue[i] \in Push
  BY DEF Typed
<1>3. \A i \in DOMAIN queue : Disowned(m)[i] \in Push /\ Disowned(m)[i].peers = queue[i].peers
  BY <1>2 DEF Disowned, Push
<1> QED
  BY <1>1, <1>3 DEF Disowned

-----------------------------------------------------------------------------
(* The steps. *)

\* An operation ends: no copy appears.
LEMMA DoneKeeps ==
    ASSUME IInv, NEW m \in Managers, NEW how \in Outcomes, Done(m, how), meddled' = meddled
    PROVE  /\ pc' \in [Managers -> {"idle", "read", "push", "wait"}]
           /\ op' \in [Managers -> Op] /\ draft' \in [Managers -> SUBSET Peer]
           /\ outcome' \in [Managers -> Outcomes]
           /\ Called'
           /\ \A n \in Managers : pc'[n] \in {"push", "wait"} => Sound(draft'[n], meddled)
<1>1. NoOp \in Op /\ Matching(NoOp, InitialPeers) = {}
  BY DEF NoOp, Op, Kinds, Matching
<1>2. op' = [op EXCEPT ![m] = NoOp] /\ pc' = [pc EXCEPT ![m] = "idle"]
      /\ draft' = [draft EXCEPT ![m] = {}] /\ outcome' = [outcome EXCEPT ![m] = how]
  BY DEF Done
<1>3. /\ pc' \in [Managers -> {"idle", "read", "push", "wait"}]
      /\ op' \in [Managers -> Op] /\ draft' \in [Managers -> SUBSET Peer]
      /\ outcome' \in [Managers -> Outcomes]
  BY <1>1, <1>2 DEF IInv, Typed
<1>4. Called'
  <2> SUFFICES ASSUME NEW n \in Managers
               PROVE  /\ op'[n] \in Ops \cup {NoOp}
                      /\ Matching(op'[n], InitialPeers) \subseteq meddled
    BY DEF Called
  <2>1. CASE n = m
    BY <1>1, <1>2, <2>1 DEF IInv, Typed
  <2>2. CASE n # m
    BY <1>2, <2>2 DEF IInv, Typed, Called
  <2> QED
    BY <2>1, <2>2
<1>5. ASSUME NEW n \in Managers, pc'[n] \in {"push", "wait"}
      PROVE  Sound(draft'[n], meddled)
  <2>1. n # m
    BY <1>2, <1>5 DEF IInv, Typed
  <2> QED
    BY <1>2, <1>5, <2>1 DEF IInv, Typed, Copies
<1> QED
  BY <1>3, <1>4, <1>5

LEMMA CallKeeps ==
    ASSUME IInv, NEW m \in Managers, NEW o \in Ops, Call(m, o)
    PROVE  IInv'
<1>1. o \in Op
  BY HubAssumption
<1>2. meddled \subseteq meddled' /\ meddled' \subseteq InitialPeers
  BY DEF Call, Matching, IInv, Typed
<1>3. Typed'
  BY <1>1, <1>2 DEF Call, IInv, Typed, Outcomes
<1>4. Called'
  <2> SUFFICES ASSUME NEW n \in Managers
               PROVE  /\ op'[n] \in Ops \cup {NoOp}
                      /\ Matching(op'[n], InitialPeers) \subseteq meddled'
    BY DEF Called
  <2>1. CASE n = m
    BY <2>1 DEF Call, IInv, Typed
  <2>2. CASE n # m
    BY <1>2, <2>2 DEF Call, IInv, Typed, Called
  <2> QED
    BY <2>1, <2>2
<1>5. Copies'
  <2>1. hub' = hub /\ queue' = queue /\ draft' = draft
    BY DEF Call
  <2>2. \A n \in Managers : pc'[n] \in {"push", "wait"} => pc[n] \in {"push", "wait"}
    BY DEF Call, IInv, Typed
  <2>3. Sound(hub, meddled') /\ \A i \in DOMAIN queue : Sound(queue[i].peers, meddled')
    BY <1>2, SoundGrows DEF IInv, Copies
  <2>4. \A n \in Managers : pc'[n] \in {"push", "wait"} => Sound(draft[n], meddled')
    BY <1>2, <2>2, SoundGrows DEF IInv, Copies
  <2> QED
    BY <2>1, <2>3, <2>4 DEF Copies
<1> QED
  BY <1>3, <1>4, <1>5 DEF IInv

LEMMA ReadKeeps ==
    ASSUME IInv, NEW m \in Managers, ReadPolicy(m)
    PROVE  IInv'
<1>1. hub' = hub /\ queue' = queue /\ meddled' = meddled
  BY DEF ReadPolicy
<1>2. ASSUME NEW how \in Outcomes, Done(m, how)
      PROVE  IInv'
  BY <1>1, <1>2, DoneKeeps DEF IInv, Typed, Copies
<1>3. ASSUME NEW edited \in Edits(op[m], hub),
             op[m].kind = "add" => ~Conflicts(op[m].peers, hub),
             draft' = [draft EXCEPT ![m] = edited],
             pc' = [pc EXCEPT ![m] = "push"],
             UNCHANGED <<op, outcome>>
      PROVE  IInv'
  <2>1. op[m] \in Op /\ op[m] \in Ops \cup {NoOp}
    BY DEF IInv, Typed, Called
  <2>2. edited \in SUBSET Peer
    BY <2>1, EditedTyped DEF IInv, Typed
  <2>3. Sound(edited, meddled)
    BY <1>3, <2>1, EditedSound DEF IInv, Typed, Called, Copies
  <2>4. Typed'
    BY <1>1, <1>3, <2>2 DEF IInv, Typed
  <2>5. Called'
    BY <1>1, <1>3 DEF IInv, Called
  <2>6. \A n \in Managers : pc'[n] \in {"push", "wait"} => Sound(draft'[n], meddled)
    BY <1>3, <2>3 DEF IInv, Typed, Copies
  <2> QED
    BY <1>1, <2>4, <2>5, <2>6 DEF IInv, Copies
<1> QED
  BY <1>2, <1>3 DEF ReadPolicy, Outcomes

LEMMA PushKeeps ==
    ASSUME IInv, NEW m \in Managers, PushPolicy(m)
    PROVE  IInv'
<1> DEFINE push == [by |-> m, peers |-> draft[m]]
<1>1. push \in Push /\ Sound(push.peers, meddled)
  BY DEF PushPolicy, IInv, Typed, Copies, Push
<1>2. /\ queue' \in Seq(Push)
      /\ \A i \in DOMAIN queue' : Sound(queue'[i].peers, meddled)
  <2>1. queue' = Append(queue, push) /\ queue \in Seq(Push)
    BY DEF PushPolicy, IInv, Typed
  <2>2. queue' \in Seq(Push) /\ \A i \in DOMAIN queue' : i \in DOMAIN queue \/ queue'[i] = push
    BY <1>1, <2>1
  <2>3. \A i \in DOMAIN queue : queue'[i] = queue[i]
    BY <2>1
  <2> QED
    BY <1>1, <2>2, <2>3 DEF IInv, Copies
<1>3. Typed'
  BY <1>2 DEF PushPolicy, IInv, Typed
<1>4. Called'
  BY DEF PushPolicy, IInv, Called
<1>5. Copies'
  BY <1>2 DEF PushPolicy, IInv, Typed, Copies
<1> QED
  BY <1>3, <1>4, <1>5 DEF IInv

\* A manager that stops waiting leaves its push behind.
LEMMA LeaveKeeps ==
    ASSUME IInv, NEW m \in Managers, NEW how \in Outcomes, Done(m, how),
           queue' = Disowned(m), UNCHANGED <<hub, meddled>>
    PROVE  IInv'
<1>1. /\ queue' \in Seq(Push)
      /\ \A i \in DOMAIN queue' : Sound(queue'[i].peers, meddled)
  BY DisownedKeeps DEF IInv, Copies
<1> QED
  BY <1>1, DoneKeeps DEF IInv, Typed, Copies

LEMMA GatewayKeeps ==
    ASSUME IInv, queue # <<>>, hub' \in {hub, Head(queue).peers}, queue' = Tail(queue),
           NEW how \in Outcomes, Answer(how), meddled' = meddled
    PROVE  IInv'
<1>1. Head(queue) = queue[1] /\ 1 \in DOMAIN queue /\ queue[1] \in Push
  BY DEF IInv, Typed
<1>2. hub' \subseteq Peer /\ Sound(hub', meddled)
  BY <1>1 DEF IInv, Typed, Copies, Push
<1>3. Tail(queue) \in Seq(Push) /\ \A i \in DOMAIN Tail(queue) :
        i + 1 \in DOMAIN queue /\ Tail(queue)[i] = queue[i + 1]
  BY DEF IInv, Typed
<1>4. \A i \in DOMAIN queue' : Sound(queue'[i].peers, meddled)
  BY <1>3 DEF IInv, Copies
<1>5. CASE Head(queue).by = Nobody
  BY <1>2, <1>3, <1>4, <1>5 DEF Answer, IInv, Typed, Called, Copies
<1>6. CASE Head(queue).by # Nobody
  <2>1. Head(queue).by \in Managers /\ Done(Head(queue).by, how)
    BY <1>1, <1>6 DEF Push, Answer
  <2> QED
    BY <1>2, <1>3, <1>4, <2>1, DoneKeeps DEF IInv, Typed, Copies
<1> QED
  BY <1>5, <1>6

LEMMA InitSound == HubInit => IInv
<1> SUFFICES ASSUME HubInit PROVE IInv
  OBVIOUS
<1>1. NoOp \in Op /\ Matching(NoOp, InitialPeers) = {}
  BY DEF NoOp, Op, Kinds, Matching
<1>2. Typed
  BY <1>1, HubAssumption DEF HubInit, Typed, Outcomes
<1>3. Called
  BY <1>1 DEF HubInit, Called
<1>4. Copies
  BY HubAssumption
     DEF HubInit, Copies, Sound, OneByAddress, OneByKey, OneByOtherAddress, OneByOtherKey
<1> QED
  BY <1>2, <1>3, <1>4 DEF IInv

LEMMA StepSound == IInv /\ [HubNext]_hubVars => IInv'
<1> SUFFICES ASSUME IInv, [HubNext]_hubVars PROVE IInv'
  OBVIOUS
<1>1. ASSUME NEW m \in Managers, NEW o \in Ops, Call(m, o) PROVE IInv'
  BY <1>1, CallKeeps
<1>2. ASSUME NEW m \in Managers, ReadPolicy(m) PROVE IInv'
  BY <1>2, ReadKeeps
<1>3. ASSUME NEW m \in Managers, ReadFails(m) PROVE IInv'
  <2>1. PICK how \in {"wireguard", "api"} : Done(m, how)
    BY <1>3 DEF ReadFails
  <2> QED
    BY <1>3, <2>1, DoneKeeps DEF ReadFails, Outcomes, IInv, Typed, Copies
<1>4. ASSUME NEW m \in Managers, PushPolicy(m) PROVE IInv'
  BY <1>4, PushKeeps
<1>5. ASSUME NEW m \in Managers, PushFails(m) PROVE IInv'
  BY <1>5, DoneKeeps DEF PushFails, Outcomes, IInv, Typed, Copies
<1>6. ASSUME NEW m \in Managers, PushTimesOut(m) PROVE IInv'
  BY <1>6, LeaveKeeps DEF PushTimesOut, Outcomes
<1>7. ASSUME NEW m \in Managers, AnswerLost(m) PROVE IInv'
  BY <1>7, LeaveKeeps DEF AnswerLost, Outcomes
<1>8. CASE GatewayApplies
  BY <1>8, GatewayKeeps DEF GatewayApplies, Outcomes
<1>9. CASE GatewayRefuses
  BY <1>9, GatewayKeeps DEF GatewayRefuses, Outcomes
<1>10. CASE UNCHANGED hubVars
  BY <1>10 DEF hubVars, IInv, Typed, Called, Copies
<1> QED
  BY <1>1, <1>2, <1>3, <1>4, <1>5, <1>6, <1>7, <1>8, <1>9, <1>10
     DEF HubNext, ManagerStep, Gateway

LEMMA AlwaysSound == HubSpec => []IInv
BY InitSound, StepSound, PTL DEF HubSpec

-----------------------------------------------------------------------------
(* The theorems. *)

\* Whatever managers add, delete, update and rename at once, no address has two
\* peers on the hub, but for addresses that update_peer gives to a peer that it
\* knows by its uuid or its key (wireguard.py 324-361).
THEOREM AddressesStayUnique == HubSpec => []AddressesUnique
<1>1. IInv => AddressesUnique
  BY DEF IInv, Copies, Sound, AddressesUnique
<1> QED
  BY <1>1, AlwaysSound, PTL

\* No key has two peers, but for keys that update_peer gives to a peer that it
\* knows by its uuid or its address.
THEOREM KeysStayUnique == HubSpec => []KeysUnique
<1>1. IInv => KeysUnique
  BY DEF IInv, Copies, Sound, KeysUnique
<1> QED
  BY <1>1, AlwaysSound, PTL

\* Peers that no delete or update was about stay, although every push replaces
\* the whole policy.
THEOREM BystandersStay == HubSpec => []BystandersKept
<1>1. IInv => BystandersKept
  BY DEF IInv, Copies, Sound, BystandersKept
<1> QED
  BY <1>1, AlwaysSound, PTL

-----------------------------------------------------------------------------
(* Who waits for the gateway. *)

\* A manager waits for the answer to one push, and the gateway owes an answer to
\* no one else.
Owed ==
    /\ Len(queue) <= MaxQueue
    /\ \A m \in Managers : pc[m] = "wait" <=> \E i \in DOMAIN queue : queue[i].by = m
    /\ \A i, j \in DOMAIN queue : queue[i].by = queue[j].by => i = j \/ queue[i].by = Nobody

\* A step of a manager that stays away from the queue.
LEMMA OwedAway ==
    ASSUME IInv, Owed, queue' = queue, NEW m \in Managers, pc[m] # "wait", NEW s, s # "wait",
           pc' = [pc EXCEPT ![m] = s]
    PROVE  Owed'
BY DEF IInv, Typed, Owed

LEMMA OwedPush ==
    ASSUME IInv, Owed, NEW m \in Managers, PushPolicy(m)
    PROVE  Owed'
<1> DEFINE n == Len(queue)
           push == [by |-> m, peers |-> draft[m]]
<1>1. n \in Nat /\ MaxQueue \in Nat /\ DOMAIN queue = 1..n
  BY HubAssumption DEF IInv, Typed
<1>2. /\ Len(queue') = n + 1 /\ DOMAIN queue' = 1..(n + 1)
      /\ queue'[n + 1] = push /\ \A i \in 1..n : queue'[i] = queue[i]
  BY DEF IInv, Typed, PushPolicy
<1>3. Len(queue') <= MaxQueue
  BY <1>1, <1>2 DEF PushPolicy
<1>4. \A i \in 1..n : queue[i].by # m
  BY <1>1 DEF Owed, PushPolicy
<1>5. push.by = m /\ m # Nobody
  BY HubAssumption
<1>6. \A i \in 1..(n + 1) : i \in 1..n \/ i = n + 1
  BY <1>1
<1>7. pc' = [pc EXCEPT ![m] = "wait"] /\ pc \in [Managers -> {"idle", "read", "push", "wait"}]
  BY DEF PushPolicy, IInv, Typed
<1> HIDE DEF push, n
<1>8. ASSUME NEW k \in Managers
      PROVE  pc'[k] = "wait" <=> \E i \in DOMAIN queue' : queue'[i].by = k
  <2>1. CASE k = m
    <3>1. n + 1 \in DOMAIN queue'
      BY <1>1, <1>2
    <3> QED
      BY <1>2, <1>5, <1>7, <2>1, <3>1
  <2>2. CASE k # m
    <3>1. pc'[k] = "wait" <=> \E i \in 1..n : queue[i].by = k
      BY <1>1, <1>7, <2>2 DEF Owed
    <3>2. \A i \in 1..n : i \in DOMAIN queue'
      BY <1>1, <1>2
    <3> QED
      BY <1>2, <1>5, <1>6, <2>2, <3>1, <3>2
  <2> QED
    BY <2>1, <2>2
<1>9. \A i, j \in DOMAIN queue' :
        queue'[i].by = queue'[j].by => i = j \/ queue'[i].by = Nobody
  BY <1>1, <1>2, <1>4, <1>5, <1>6 DEF Owed
<1> QED
  BY <1>3, <1>8, <1>9 DEF Owed

\* A manager that stops waiting is owed nothing.
LEMMA OwedLeave ==
    ASSUME IInv, Owed, NEW m \in Managers, queue' = Disowned(m),
           pc' = [pc EXCEPT ![m] = "idle"]
    PROVE  Owed'
<1>1. /\ DOMAIN queue' = DOMAIN queue /\ Len(queue') = Len(queue)
      /\ \A i \in DOMAIN queue : queue'[i].by = IF queue[i].by = m THEN Nobody ELSE queue[i].by
  <2>1. \A i \in DOMAIN queue : queue[i] \in Push
    BY DEF IInv, Typed
  <2>2. \A i \in DOMAIN queue : queue'[i].by = IF queue[i].by = m THEN Nobody ELSE queue[i].by
    BY <2>1 DEF Disowned, Push
  <2>3. DOMAIN queue' = DOMAIN queue /\ queue' \in Seq(Push) /\ queue \in Seq(Push)
    BY DisownedKeeps DEF IInv, Typed
  <2>4. Len(queue') = Len(queue)
    BY <2>3
  <2> QED
    BY <2>2, <2>3, <2>4
<1>2. Nobody \notin Managers
  BY HubAssumption
<1>3. pc \in [Managers -> {"idle", "read", "push", "wait"}]
  BY DEF IInv, Typed
<1>4. ASSUME NEW k \in Managers
      PROVE  pc'[k] = "wait" <=> \E i \in DOMAIN queue' : queue'[i].by = k
  BY <1>1, <1>2, <1>3 DEF Owed
<1>5. \A i, j \in DOMAIN queue' :
        queue'[i].by = queue'[j].by => i = j \/ queue'[i].by = Nobody
  BY <1>1 DEF Owed
<1> QED
  BY <1>1, <1>4, <1>5 DEF Owed

\* The gateway answers the manager of the push it is done with, and no other.
LEMMA OwedGateway ==
    ASSUME IInv, Owed, queue # <<>>, queue' = Tail(queue), NEW how, Answer(how)
    PROVE  Owed'
<1> DEFINE n == Len(queue)
           who == queue[1].by
<1>1. n \in Nat \ {0} /\ MaxQueue \in Nat /\ DOMAIN queue = 1..n /\ n <= MaxQueue
  BY HubAssumption DEF IInv, Typed, Owed
<1>2. /\ Len(queue') = n - 1 /\ DOMAIN queue' = 1..(n - 1)
      /\ \A i \in 1..(n - 1) : queue'[i] = queue[i + 1]
  BY DEF IInv, Typed
<1>3. Head(queue).by = who /\ queue[1] \in Push
  BY <1>1 DEF IInv, Typed
<1>4. IF who = Nobody THEN pc' = pc ELSE who \in Managers /\ pc' = [pc EXCEPT ![who] = "idle"]
  BY <1>3 DEF Answer, Done, Push
<1>5. pc \in [Managers -> {"idle", "read", "push", "wait"}] /\ Nobody \notin Managers
  BY HubAssumption DEF IInv, Typed
<1>6. Len(queue') <= MaxQueue
  BY <1>1, <1>2
<1>7. \A i \in 1..(n - 1) : i \in Nat /\ i + 1 \in DOMAIN queue /\ i + 1 # 1
  BY <1>1
<1>8. \A i \in DOMAIN queue : i = 1 \/ \E j \in 1..(n - 1) : i = j + 1
  <2>1. ASSUME NEW i \in 1..n, i # 1
        PROVE  i - 1 \in 1..(n - 1) /\ i = (i - 1) + 1
    BY <1>1, <2>1
  <2> QED
    BY <1>1, <2>1
<1>9. 1 \in DOMAIN queue
  BY <1>1
<1> HIDE DEF n
<1>10. ASSUME NEW k \in Managers
       PROVE  pc'[k] = "wait" <=> \E i \in DOMAIN queue' : queue'[i].by = k
  <2>1. pc[k] = "wait" <=> \E i \in DOMAIN queue : queue[i].by = k
    BY DEF Owed
  <2>2. (\E i \in DOMAIN queue' : queue'[i].by = k) <=>
           \E i \in DOMAIN queue : i # 1 /\ queue[i].by = k
    <3>1. ASSUME NEW i \in DOMAIN queue', queue'[i].by = k
          PROVE  i + 1 \in DOMAIN queue /\ i + 1 # 1 /\ queue[i + 1].by = k
      BY <1>2, <1>7, <3>1
    <3>2. ASSUME NEW i \in DOMAIN queue, i # 1, queue[i].by = k
          PROVE  \E j \in DOMAIN queue' : queue'[j].by = k
      <4>1. PICK j \in 1..(n - 1) : i = j + 1
        BY <1>8, <3>2
      <4> QED
        BY <1>2, <3>2, <4>1
    <3> QED
      BY <3>1, <3>2
  <2>3. CASE who = k
    <3>1. \A i \in DOMAIN queue : queue[i].by = k => i = 1
      BY <1>5, <1>9, <2>3 DEF Owed
    <3>2. pc'[k] = "idle"
      BY <1>4, <1>5, <2>3
    <3> QED
      BY <2>2, <3>1, <3>2
  <2>4. CASE who # k
    <3>1. pc'[k] = pc[k]
      BY <1>4, <1>5, <2>4
    <3> QED
      BY <2>1, <2>2, <2>4, <3>1
  <2> QED
    BY <2>3, <2>4
<1>11. ASSUME NEW i \in DOMAIN queue', NEW j \in DOMAIN queue', queue'[i].by = queue'[j].by
       PROVE  i = j \/ queue'[i].by = Nobody
  <2>1. /\ i + 1 \in DOMAIN queue /\ j + 1 \in DOMAIN queue
        /\ queue[i + 1].by = queue[j + 1].by /\ queue'[i].by = queue[i + 1].by
    BY <1>2, <1>7, <1>11
  <2>2. i + 1 = j + 1 \/ queue[i + 1].by = Nobody
    BY <2>1 DEF Owed
  <2>3. i + 1 = j + 1 => i = j
    BY <1>2, <1>7
  <2> QED
    BY <2>1, <2>2, <2>3
<1> QED
  BY <1>6, <1>10, <1>11 DEF Owed

LEMMA OwedInit == HubInit => Owed
<1> SUFFICES ASSUME HubInit PROVE Owed
  OBVIOUS
<1>1. queue = <<>> /\ Len(queue) = 0 /\ DOMAIN queue = {} /\ MaxQueue \in Nat
  BY HubAssumption DEF HubInit
<1> QED
  BY <1>1 DEF HubInit, Owed

LEMMA OwedStep == IInv /\ Owed /\ [HubNext]_hubVars => Owed'
<1> SUFFICES ASSUME IInv, Owed, [HubNext]_hubVars PROVE Owed'
  OBVIOUS
<1>1. ASSUME NEW m \in Managers, NEW o, Call(m, o) PROVE Owed'
  BY <1>1, OwedAway DEF Call
<1>2. ASSUME NEW m \in Managers, ReadPolicy(m) \/ ReadFails(m) \/ PushFails(m) PROVE Owed'
  <2>1. /\ pc[m] # "wait" /\ queue' = queue
        /\ \E s : s # "wait" /\ pc' = [pc EXCEPT ![m] = s]
    BY <1>2 DEF ReadPolicy, ReadFails, PushFails, Done
  <2> QED
    BY <2>1, OwedAway
<1>3. ASSUME NEW m \in Managers, PushPolicy(m) PROVE Owed'
  BY <1>3, OwedPush
<1>4. ASSUME NEW m \in Managers, PushTimesOut(m) \/ AnswerLost(m) PROVE Owed'
  BY <1>4, OwedLeave DEF PushTimesOut, AnswerLost, Done
<1>5. CASE Gateway
  BY <1>5, OwedGateway DEF Gateway, GatewayApplies, GatewayRefuses
<1>6. CASE UNCHANGED hubVars
  BY <1>6 DEF hubVars, Owed
<1> QED
  BY <1>1, <1>2, <1>3, <1>4, <1>5, <1>6 DEF HubNext, ManagerStep

\* Every variable keeps its type, the gateway never owes more than MaxQueue pushes,
\* and it owes an answer to just the managers that wait (gateway.py 196-227).
THEOREM HubTyped == HubSpec => []HubTypeOK
<1>1. IInv /\ Owed => HubTypeOK
  BY DEF IInv, Typed, Owed, HubTypeOK
<1> QED
  BY <1>1, InitSound, StepSound, OwedInit, OwedStep, PTL DEF HubSpec
=============================================================================
