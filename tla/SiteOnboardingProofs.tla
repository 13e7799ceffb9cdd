------------------------ MODULE SiteOnboardingProofs ------------------------
(***************************************************************************)
(* The workflows only ever act on the hub as HubPolicy allows: every step  *)
(* of OnboardSpec is a step of HubSpec or leaves the hub and its managers  *)
(* alone.  So what HubPolicyProofs shows of the peers on the hub holds     *)
(* under any number of workflows that run side by side.                    *)
(* The invariant behind it says what a workflow may hand to add_peer.      *)
(***************************************************************************)
EXTENDS SiteOnboarding, HubPolicyProofs

Stages == Ended \cup {"scope", "allocate", "hub", "adding", "site"}

\* An address is chosen before a peer is made of it, and what add_site_peer
\* came to is known when the workflow looks at it.
FlowInv ==
    /\ report \in [Managers -> Seq(Statuses)]
    /\ job \in [Managers -> Jobs]
    /\ stage \in [Managers -> Stages]
    /\ peer_ip \in [Managers -> Addresses \cup {NoIp}]
    /\ \A m \in Managers : stage[m] = "hub" => peer_ip[m] # NoIp

\* What a finished operation came to.
EndInv ==
    /\ phase \in [Managers -> {"idle", "scope", "loop", "adding", "done", "raised"}]
    /\ stage \in [Managers -> Stages]
    /\ pc \in [Managers -> {"idle", "read", "push", "wait"}]
    /\ outcome \in [Managers -> Outcomes]
    /\ \A m \in Managers :
         outcome[m] = "none" /\ pc[m] = "idle" => phase[m] # "adding" /\ stage[m] # "adding"

WorkInv == FlowInv /\ EndInv

\* allocate_interface_ip (wireguard.py 545-583) returns one address of the
\* network that nobody uses, if it returns: the pinned one if it can.
THEOREM AllocatedFree ==
    ASSUME NEW used, NEW preferred
    PROVE  LET ips == Allocated(used, preferred)
           IN  /\ \A ip \in ips : ip \in Addresses \ used
               /\ \A ip, other \in ips : ip = other
               /\ preferred \notin used /\ (\E i \in DOMAIN Pool : Pool[i] = preferred)
                    => ips = {preferred}
<1> DEFINE free == {i \in DOMAIN Pool : Pool[i] \notin used}
           first == {i \in free : \A j \in free : i <= j}
<1>1. \A i \in DOMAIN Pool : i \in Nat /\ Pool[i] \in Addresses
  BY OnboardAssumption
<1>2. CASE \E i \in free : Pool[i] = preferred
  BY <1>1, <1>2 DEF Allocated
<1>3. CASE ~\E i \in free : Pool[i] = preferred
  <2>1. Allocated(used, preferred) = {Pool[i] : i \in first}
    BY <1>3 DEF Allocated
  <2>2. \A i, j \in first : i = j
    BY <1>1
  <2> QED
    BY <1>1, <1>3, <2>1, <2>2
<1> QED
  BY <1>2, <1>3

-----------------------------------------------------------------------------
(* A step of the workflows is a step of HubPolicy. *)

LEMMA InitWork == OnboardInit => WorkInv
<1> SUFFICES ASSUME OnboardInit PROVE WorkInv
  OBVIOUS
<1>1. FlowInv
  BY OnboardAssumption DEF OnboardInit, Init, FlowInv, Ended, Stages
<1>2. EndInv
  BY DEF OnboardInit, Init, HubInit, EndInv, Ended, Outcomes, Stages
<1> QED
  BY <1>1, <1>2 DEF WorkInv

\* The requested peer, and the peer of a site, are operations of Ops.
LEMMA TryAdds ==
    ASSUME WorkInv, NEW m \in Managers, Try(m)
    PROVE  \E o \in Ops : Call(m, o)
<1>1. Len(report[m]) \in Nat /\ Len(report[m]) < Len(Requests[m])
  BY DEF WorkInv, FlowInv, Try, Remaining
<1>2. Request(m) \in Peer
  BY <1>1, AddAssumption DEF Request
<1> QED
  BY <1>2, AddAssumption DEF Try

LEMMA SiteAdds ==
    ASSUME WorkInv, NEW m \in Managers, AddSitePeer(m)
    PROVE  \E o \in Ops : Call(m, o)
<1>1. SitePeer(m) \in Peer
  BY OnboardAssumption DEF WorkInv, FlowInv, AddSitePeer, SitePeer, Peer, Job
<1> QED
  BY <1>1, AddAssumption DEF AddSitePeer

LEMMA StepImplements ==
    ASSUME WorkInv, [OnboardNext]_allVars
    PROVE  [HubNext]_hubVars
<1>1. ASSUME NEW m \in Managers, OnboardStep(m) PROVE [HubNext]_hubVars
  <2>1. CASE AddSitePeer(m)
    BY <2>1, SiteAdds DEF HubNext
  <2>2. CASE ~AddSitePeer(m)
    <3>1. UNCHANGED vars
      BY <1>1, <2>2 DEF OnboardStep, OnboardSite, Snapshot, AllocateNextPeerIp,
         HubUnreadable, HubStepSkipped, SitePeerAdded, CreateSiteClientPolicy
    <3> QED
      BY <3>1 DEF vars, hubVars
  <2> QED
    BY <2>1, <2>2
<1>2. ASSUME NEW m \in Managers, Begin(m) PROVE [HubNext]_hubVars
  BY <1>2 DEF Begin
<1>3. ASSUME NEW m \in Managers, FlowStep(m) PROVE [HubNext]_hubVars
  <2>1. CASE Try(m)
    BY <2>1, TryAdds DEF HubNext
  <2>2. CASE ~Try(m)
    BY <1>3, <2>2 DEF FlowStep, Scope, Skip, Record, Finish
  <2> QED
    BY <2>1, <2>2
<1>4. CASE Gateway \/ \E m \in Managers : ManagerStep(m)
  BY <1>4 DEF HubNext
<1>5. CASE UNCHANGED allVars
  BY <1>5 DEF allVars, vars, hubVars
<1> QED
  BY <1>1, <1>2, <1>3, <1>4, <1>5 DEF OnboardNext

-----------------------------------------------------------------------------
(* The invariant. *)

LEMMA DoneEnds ==
    ASSUME EndInv, NEW m \in Managers, NEW how \in Outcomes \ {"none"}, Done(m, how),
           UNCHANGED <<phase, stage>>
    PROVE  EndInv'
BY DEF EndInv, Done

LEMMA CallEnds ==
    ASSUME EndInv, NEW m \in Managers, NEW o, Call(m, o),
           phase' \in [Managers -> {"idle", "scope", "loop", "adding", "done", "raised"}],
           stage' \in [Managers -> Stages],
           \A n \in Managers \ {m} : phase'[n] = phase[n] /\ stage'[n] = stage[n]
    PROVE  EndInv'
BY DEF EndInv, Call, Outcomes, Stages

LEMMA HubStepEnds ==
    ASSUME EndInv, Gateway \/ \E m \in Managers : ManagerStep(m),
           queue # <<>> => Head(queue).by \in Managers \cup {Nobody},
           UNCHANGED <<phase, stage>>
    PROVE  EndInv'
<1>1. UNCHANGED <<pc, outcome>> => EndInv'
  BY DEF EndInv
<1>2. ASSUME NEW m \in Managers, ManagerStep(m) PROVE EndInv'
  <2>1. CASE \E how \in Outcomes \ {"none"} : Done(m, how)
    BY <2>1, DoneEnds
  <2>2. CASE UNCHANGED outcome /\ \E s \in {"push", "wait"} : pc' = [pc EXCEPT ![m] = s]
    BY <2>2 DEF EndInv
  <2>3. ReadPolicy(m) \/ PushPolicy(m) =>
          \/ \E how \in Outcomes \ {"none"} : Done(m, how)
          \/ UNCHANGED outcome /\ \E s \in {"push", "wait"} : pc' = [pc EXCEPT ![m] = s]
    BY DEF ReadPolicy, PushPolicy, Outcomes
  <2>4. ReadFails(m) \/ PushFails(m) \/ PushTimesOut(m) \/ AnswerLost(m) =>
          \E how \in Outcomes \ {"none"} : Done(m, how)
    BY DEF ReadFails, PushFails, PushTimesOut, AnswerLost, Outcomes
  <2> QED
    BY <1>2, <2>1, <2>2, <2>3, <2>4 DEF ManagerStep
<1>3. CASE Gateway
  <2>1. PICK how \in {"ok", "api"} : queue # <<>> /\ Answer(how)
    BY <1>3 DEF Gateway, GatewayApplies, GatewayRefuses
  <2>2. CASE Head(queue).by = Nobody
    BY <1>1, <2>1, <2>2 DEF Answer
  <2>3. CASE Head(queue).by # Nobody
    <3>1. Head(queue).by \in Managers /\ Done(Head(queue).by, how)
      BY <2>1, <2>3 DEF Answer
    <3> QED
      BY <3>1, DoneEnds DEF Outcomes
  <2> QED
    BY <2>2, <2>3
<1> QED
  BY <1>2, <1>3

LEMMA ReportedTyped ==
    ASSUME report \in [Managers -> Seq(Statuses)], NEW m \in Managers,
           NEW status \in Statuses, Reported(m, status)
    PROVE  report' \in [Managers -> Seq(Statuses)]
<1>1. Append(report[m], status) \in Seq(Statuses)
  OBVIOUS
<1> QED
  BY <1>1 DEF Reported

LEMMA StepKeepsWork ==
    ASSUME WorkInv, IInv, [OnboardNext]_allVars
    PROVE  WorkInv'
<1>1. ASSUME NEW m \in Managers, OnboardStep(m) PROVE WorkInv'
  <2> USE DEF GoTo, Stages
  <2>1. FlowInv'
    <3>1. report' = report
      BY <1>1 DEF OnboardStep, OnboardSite, Snapshot, AllocateNextPeerIp,
         HubUnreadable, HubStepSkipped, SitePeerAdded, CreateSiteClientPolicy,
         AddSitePeer, vars, flow
    <3>2. CASE OnboardSite(m)
      BY <3>1, <3>2 DEF OnboardSite, WorkInv, FlowInv, Ended
    <3>3. CASE Snapshot(m)
      <4>1. \A ip \in AddressesOf(hub) : ip \in Addresses /\ ip # NoIp
        BY OnboardAssumption DEF IInv, Typed, Peer, AddressesOf
      <4> QED
        BY <3>1, <3>3, <4>1 DEF Snapshot, WorkInv, FlowInv
    <3>4. CASE AllocateNextPeerIp(m)
      <4>1. \A ip \in Allocated(AddressesOf(hub), job[m].ip) : ip \in Addresses /\ ip # NoIp
        BY AllocatedFree, OnboardAssumption
      <4> QED
        BY <3>1, <3>4, <4>1 DEF AllocateNextPeerIp, WorkInv, FlowInv, Ended
    <3>5. CASE HubUnreadable(m) \/ HubStepSkipped(m) \/ SitePeerAdded(m)
               \/ CreateSiteClientPolicy(m) \/ AddSitePeer(m)
      <4>1. /\ UNCHANGED <<job, peer_ip>>
            /\ \E s \in Stages \ {"hub"} : stage' = [stage EXCEPT ![m] = s]
        BY <3>5 DEF HubUnreadable, HubStepSkipped, SitePeerAdded,
           CreateSiteClientPolicy, AddSitePeer, SiteNeeded, Ended
      <4> QED
        BY <3>1, <4>1 DEF WorkInv, FlowInv
    <3> QED
      BY <1>1, <3>2, <3>3, <3>4, <3>5 DEF OnboardStep
  <2>2. EndInv'
    <3>1. CASE AddSitePeer(m)
      BY <3>1, CallEnds DEF AddSitePeer, WorkInv, EndInv, flow, Ended
    <3>2. CASE ~AddSitePeer(m)
      <4>1. /\ UNCHANGED <<phase, pc, outcome>>
            /\ \E s \in Stages \ {"adding"} : stage' = [stage EXCEPT ![m] = s]
        BY <1>1, <3>2 DEF OnboardStep, OnboardSite, Snapshot, AllocateNextPeerIp,
           HubUnreadable, HubStepSkipped, SitePeerAdded, CreateSiteClientPolicy,
           vars, flow, hubVars, SiteNeeded, Ended
      <4> QED
        BY <4>1 DEF WorkInv, EndInv
    <3> QED
      BY <3>1, <3>2
  <2> QED
    BY <2>1, <2>2 DEF WorkInv
<1>2. ASSUME NEW m \in Managers, Begin(m) \/ FlowStep(m), UNCHANGED onboarding PROVE WorkInv'
  <2>1. FlowInv'
    <3>1. report' \in [Managers -> Seq(Statuses)]
      <4>1. CASE Begin(m)
        BY <4>1 DEF Begin, WorkInv, FlowInv
      <4>2. CASE Scope(m) \/ Try(m) \/ Finish(m)
        BY <4>2 DEF Scope, Try, Finish, WorkInv, FlowInv
      <4>3. CASE Skip(m)
        BY <4>3, ReportedTyped DEF Skip, Statuses, WorkInv, FlowInv
      <4>4. CASE Record(m)
        <5>1. outcome[m] \in Outcomes \ {"none"}
          BY <4>4 DEF Record, WorkInv, EndInv
        <5>2. outcome[m] # "api" => Status(outcome[m]) \in Statuses
          BY <5>1 DEF Status, Statuses, Outcomes
        <5> QED
          BY <4>4, <5>2, ReportedTyped DEF Record, WorkInv, FlowInv
      <4> QED
        BY <1>2, <4>1, <4>2, <4>3, <4>4 DEF FlowStep
    <3> QED
      BY <1>2, <3>1 DEF onboarding, WorkInv, FlowInv
  <2>2. EndInv'
    <3>1. CASE Try(m)
      BY <1>2, <3>1, CallEnds DEF Try, WorkInv, EndInv, onboarding, Stages
    <3>2. CASE ~Try(m)
      <4>1. /\ UNCHANGED <<pc, outcome>>
            /\ \E s \in {"scope", "loop", "done", "raised"} :
                 phase' \in {phase, [phase EXCEPT ![m] = s]}
        BY <1>2, <3>2 DEF Begin, FlowStep, Scope, Skip, Record, Finish, hubVars
      <4> QED
        BY <1>2, <4>1 DEF WorkInv, EndInv, onboarding
    <3> QED
      BY <3>1, <3>2
  <2> QED
    BY <2>1, <2>2 DEF WorkInv
<1>3. ASSUME Gateway \/ \E m \in Managers : ManagerStep(m), UNCHANGED <<flow, onboarding>>
      PROVE WorkInv'
  <2>1. FlowInv'
    BY <1>3 DEF flow, onboarding, WorkInv, FlowInv
  <2>2. queue # <<>> => Head(queue).by \in Managers \cup {Nobody}
    <3>1. queue # <<>> => Head(queue) = queue[1] /\ queue[1] \in Push
      BY DEF IInv, Typed
    <3> QED
      BY <3>1 DEF Push
  <2>3. EndInv'
    BY <1>3, <2>2, HubStepEnds DEF flow, onboarding, WorkInv
  <2> QED
    BY <2>1, <2>3 DEF WorkInv
<1>4. CASE UNCHANGED allVars
  BY <1>4 DEF allVars, vars, hubVars, flow, onboarding, WorkInv, FlowInv, EndInv
<1> QED
  BY <1>1, <1>2, <1>3, <1>4 DEF OnboardNext

-----------------------------------------------------------------------------
(* The theorems. *)

\* Workflows implement HubPolicy.
THEOREM WorkflowsImplementHub == OnboardSpec => HubSpec
<1>1. OnboardInit => HubInit
  BY DEF OnboardInit, Init
<1>2. OnboardInit => WorkInv /\ IInv
  BY <1>1, InitWork, InitSound
<1>3. WorkInv /\ IInv /\ [OnboardNext]_allVars => WorkInv' /\ IInv' /\ [HubNext]_hubVars
  BY StepImplements, StepKeepsWork, StepSound
<1> QED
  BY <1>1, <1>2, <1>3, PTL DEF OnboardSpec, HubSpec

\* However many workflows run side by side, and whatever times out or fails in
\* them, no address and no key of the hub ever has two peers: they only add, and
\* what they add is compared with the copy they push (wireguard.py 276-291).
THEOREM WorkflowsKeepUnique ==
    ASSUME \A o \in Ops : o.kind # "update"
    PROVE  OnboardSpec => [](OneByAddress(hub) /\ OneByKey(hub))
<1>1. Handed("ip") = {} /\ Handed("key") = {}
  BY DEF Handed
<1>2. AddressesUnique /\ KeysUnique => OneByAddress(hub) /\ OneByKey(hub)
  BY <1>1 DEF AddressesUnique, KeysUnique, OneByOtherAddress, OneByOtherKey, OneByAddress, OneByKey
<1> QED
  BY <1>2, WorkflowsImplementHub, AddressesStayUnique, KeysStayUnique, PTL

-----------------------------------------------------------------------------
(* Types. *)

\* What FlowInv and EndInv leave open: the report never outgrows the requests, and
\* a manager runs one workflow at a time.
FlowTyped ==
    /\ apply \in [Managers -> BOOLEAN]
    /\ existing \in [Managers -> SUBSET Addresses]
    /\ \A m \in Managers : Len(report[m]) <= Len(Requests[m])
    /\ \A m \in Managers : phase[m] = "adding" => Remaining(m)
    /\ \A m \in Managers : phase[m] \in {"scope", "loop", "adding"} => stage[m] \in Ended

SiteTyped ==
    /\ server \in [Managers -> SUBSET Peer]
    /\ hub_action \in [Managers -> Statuses \cup {"pending"}]
    /\ site_action \in [Managers -> {"skipped", "planned", "configured", "failed"}]
    /\ site \in [Keys -> Addresses \cup {NoIp}]

\* What add_site_peer ended with, when the workflow looks at it.
LEMMA EndKnown ==
    ASSUME WorkInv, NEW m \in Managers, pc[m] = "idle",
           phase[m] = "adding" \/ stage[m] = "adding"
    PROVE  /\ outcome[m] \in Outcomes \ {"none"}
           /\ outcome[m] # "api" => Status(outcome[m]) \in {"added", "already-exists", "failed"}
<1>1. outcome[m] \in Outcomes \ {"none"}
  BY DEF WorkInv, EndInv
<1> QED
  BY <1>1 DEF Outcomes, Status

LEMMA ReportGrows ==
    ASSUME WorkInv, FlowTyped, NEW m \in Managers, Remaining(m), NEW status,
           Reported(m, status)
    PROVE  /\ \A n \in Managers : Len(report'[n]) <= Len(Requests[n])
           /\ \A n \in Managers \ {m} : report'[n] = report[n]
<1>1. /\ report[m] \in Seq(Statuses) /\ Len(report[m]) \in Nat /\ Len(Requests[m]) \in Nat
      /\ Len(report[m]) < Len(Requests[m])
  BY AddAssumption DEF WorkInv, FlowInv, Remaining
<1>2. report'[m] = Append(report[m], status)
  BY DEF Reported, WorkInv, FlowInv
<1>3. Len(report'[m]) = Len(report[m]) + 1
  BY <1>1, <1>2
<1>4. \A n \in Managers \ {m} : report'[n] = report[n]
  BY DEF Reported, WorkInv, FlowInv
<1>5. Len(report'[m]) <= Len(Requests[m])
  BY <1>1, <1>3
<1> QED
  BY <1>4, <1>5 DEF FlowTyped

LEMMA FlowTypedStep ==
    ASSUME WorkInv, IInv, FlowTyped, [OnboardNext]_allVars
    PROVE  FlowTyped'
<1>1. ASSUME NEW m \in Managers, OnboardStep(m) PROVE FlowTyped'
  <2>1. UNCHANGED flow
    BY <1>1 DEF OnboardStep, OnboardSite, Snapshot, AllocateNextPeerIp, HubUnreadable,
       HubStepSkipped, AddSitePeer, SitePeerAdded, CreateSiteClientPolicy, vars
  <2>2. phase[m] \notin {"scope", "loop", "adding"}
    BY <1>1 DEF OnboardStep, OnboardSite, Snapshot, AllocateNextPeerIp, HubUnreadable,
       HubStepSkipped, AddSitePeer, SitePeerAdded, CreateSiteClientPolicy, FlowTyped, Ended
  <2>3. \A n \in Managers \ {m} : stage'[n] = stage[n]
    BY <1>1 DEF OnboardStep, OnboardSite, Snapshot, AllocateNextPeerIp, HubUnreadable,
       HubStepSkipped, AddSitePeer, SitePeerAdded, CreateSiteClientPolicy, GoTo, WorkInv, FlowInv
  <2> QED
    BY <2>1, <2>2, <2>3 DEF FlowTyped, flow, Remaining
<1>2. ASSUME NEW m \in Managers, Begin(m), stage[m] \in Ended, UNCHANGED onboarding
      PROVE  FlowTyped'
  <2>1. /\ apply' \in [Managers -> BOOLEAN] /\ existing' = existing
        /\ \A n \in Managers \ {m} : phase'[n] = phase[n] /\ report'[n] = report[n]
        /\ phase'[m] = "scope" /\ report'[m] = <<>> /\ stage' = stage
    BY <1>2 DEF Begin, FlowTyped, WorkInv, FlowInv, EndInv, onboarding
  <2>2. Len(report'[m]) <= Len(Requests[m])
    <3>1. Requests[m] \in Seq(Peer)
      BY AddAssumption
    <3>2. Len(Requests[m]) \in Nat /\ Len(<<>>) = 0
      BY <3>1
    <3> QED
      BY <2>1, <3>2
  <2> QED
    BY <1>2, <2>1, <2>2 DEF FlowTyped, Remaining
<1>3. ASSUME NEW m \in Managers, FlowStep(m), UNCHANGED onboarding PROVE FlowTyped'
  <2>1. stage[m] \in Ended /\ stage' = stage
    BY <1>3 DEF FlowStep, Scope, Skip, Try, Record, Finish, FlowTyped, onboarding
  <2>2. \A n \in Managers \ {m} : phase'[n] = phase[n]
    BY <1>3 DEF FlowStep, Scope, Skip, Try, Record, Finish, WorkInv, EndInv
  <2>3. CASE Scope(m) \/ Finish(m)
    <3>1. AddressesOf(hub) \subseteq Addresses
      BY DEF IInv, Typed, AddressesOf, Peer
    <3>2. UNCHANGED <<apply, report>> /\ existing' \in [Managers -> SUBSET Addresses]
          /\ phase'[m] # "adding"
      BY <2>3, <3>1 DEF Scope, Finish, FlowTyped, WorkInv, EndInv
    <3> QED
      BY <2>1, <2>2, <3>2 DEF FlowTyped, Remaining
  <2>4. CASE Try(m)
    <3>1. UNCHANGED <<apply, report, existing>> /\ Remaining(m)
      BY <2>4 DEF Try
    <3> QED
      BY <2>1, <2>2, <3>1 DEF FlowTyped, Remaining
  <2>5. CASE Skip(m)
    <3>1. UNCHANGED <<apply, phase, existing>> /\ Remaining(m) /\ phase[m] = "loop"
          /\ \E status : Reported(m, status)
      BY <2>5 DEF Skip
    <3>2. /\ \A n \in Managers : Len(report'[n]) <= Len(Requests[n])
          /\ \A n \in Managers \ {m} : report'[n] = report[n]
      BY <3>1, ReportGrows
    <3> QED
      BY <2>1, <3>1, <3>2 DEF FlowTyped, Remaining
  <2>6. CASE Record(m)
    <3>1. Request(m).ip \in Addresses
      <4>1. Len(report[m]) \in Nat /\ Len(report[m]) < Len(Requests[m])
        BY <2>6 DEF Record, WorkInv, FlowInv, FlowTyped, Remaining
      <4>2. Request(m) \in Peer
        BY <4>1, AddAssumption DEF Request
      <4> QED
        BY <4>2 DEF Peer
    <3>2. existing' \in [Managers -> SUBSET Addresses]
      BY <2>6, <3>1 DEF Record, FlowTyped
    <3>3. apply' = apply /\ phase'[m] # "adding" /\ Remaining(m)
      BY <2>6 DEF Record, FlowTyped, WorkInv, EndInv
    <3>4. CASE UNCHANGED report
      BY <2>1, <2>2, <3>2, <3>3, <3>4 DEF FlowTyped, Remaining
    <3>5. CASE Reported(m, Status(outcome[m]))
      <4>1. /\ \A n \in Managers : Len(report'[n]) <= Len(Requests[n])
            /\ \A n \in Managers \ {m} : report'[n] = report[n]
        BY <3>3, <3>5, ReportGrows
      <4> QED
        BY <2>1, <2>2, <3>2, <3>3, <4>1 DEF FlowTyped, Remaining
    <3> QED
      BY <2>6, <3>4, <3>5 DEF Record
  <2> QED
    BY <1>3, <2>3, <2>4, <2>5, <2>6 DEF FlowStep
<1>4. CASE UNCHANGED <<flow, onboarding>>
  BY <1>4 DEF flow, onboarding, FlowTyped, Remaining
<1> QED
  BY <1>1, <1>2, <1>3, <1>4 DEF OnboardNext, allVars, vars

LEMMA SiteTypedStep ==
    ASSUME WorkInv, IInv, SiteTyped, [OnboardNext]_allVars
    PROVE  SiteTyped'
<1>1. CASE UNCHANGED onboarding
  BY <1>1 DEF onboarding, results, SiteTyped
<1>2. ASSUME NEW m \in Managers, OnboardStep(m) PROVE SiteTyped'
  <2>1. CASE OnboardSite(m)
    BY <2>1 DEF OnboardSite, SiteTyped
  <2>2. CASE Snapshot(m)
    BY <2>2 DEF Snapshot, SiteTyped, results, IInv, Typed
  <2>3. CASE AllocateNextPeerIp(m) \/ HubUnreadable(m) \/ AddSitePeer(m)
    BY <2>3 DEF AllocateNextPeerIp, HubUnreadable, AddSitePeer, SiteTyped, results
  <2>4. CASE HubStepSkipped(m)
    BY <2>4 DEF HubStepSkipped, HubActed, SiteTyped, Statuses
  <2>5. CASE SitePeerAdded(m)
    <3>1. hub_action' = hub_action \/ \E action \in Statuses : HubActed(m, action)
      BY <2>5, EndKnown DEF SitePeerAdded, Statuses
    <3>2. hub_action' \in [Managers -> Statuses \cup {"pending"}]
      BY <3>1 DEF HubActed, SiteTyped
    <3> QED
      BY <2>5, <3>2 DEF SitePeerAdded, SiteTyped
  <2>6. CASE CreateSiteClientPolicy(m)
    <3>1. peer_ip[m] \in Addresses \cup {NoIp} /\ job[m].key \in Keys
      BY OnboardAssumption DEF WorkInv, FlowInv, Job
    <3>2. Sent(m) \subseteq Addresses \cup {NoIp}
      BY <3>1 DEF Sent, SiteTyped
    <3>3. site' \in [Keys -> Addresses \cup {NoIp}]
      <4>1. site' = site \/ \E ip \in Addresses \cup {NoIp} :
                              site' = [site EXCEPT ![job[m].key] = ip]
        BY <2>6, <3>1, <3>2 DEF CreateSiteClientPolicy
      <4> QED
        BY <4>1 DEF SiteTyped
    <3>4. site_action' \in [Managers -> {"skipped", "planned", "configured", "failed"}]
      BY <2>6 DEF CreateSiteClientPolicy, SiteActed, SiteTyped
    <3> QED
      BY <2>6, <3>3, <3>4 DEF CreateSiteClientPolicy, SiteTyped
  <2> QED
    BY <1>2, <2>1, <2>2, <2>3, <2>4, <2>5, <2>6 DEF OnboardStep
<1> QED
  BY <1>1, <1>2 DEF OnboardNext, allVars

LEMMA InitTyped == OnboardInit => FlowTyped /\ SiteTyped
<1> SUFFICES ASSUME OnboardInit PROVE FlowTyped /\ SiteTyped
  OBVIOUS
<1>1. ASSUME NEW m \in Managers PROVE Len(report[m]) <= Len(Requests[m])
  <2>1. Requests[m] \in Seq(Peer)
    BY AddAssumption
  <2>2. Len(Requests[m]) \in Nat /\ Len(<<>>) = 0
    BY <2>1
  <2> QED
    BY <2>2 DEF OnboardInit, Init
<1>2. FlowTyped
  BY <1>1 DEF OnboardInit, Init, FlowTyped
<1>3. SiteTyped
  BY DEF OnboardInit, SiteTyped
<1> QED
  BY <1>2, <1>3

\* All that the proofs below rest on.
TypedInv == WorkInv /\ IInv /\ Owed /\ FlowTyped /\ SiteTyped

LEMMA TypedInit == OnboardInit => TypedInv
BY InitWork, InitSound, OwedInit, InitTyped DEF TypedInv, OnboardInit, Init

LEMMA TypedStep == TypedInv /\ [OnboardNext]_allVars => TypedInv'
BY StepImplements, StepKeepsWork, StepSound, OwedStep, FlowTypedStep, SiteTypedStep DEF TypedInv

\* Every variable keeps its type, and a manager runs one workflow at a time
\* (workflows/wireguard.py 84-279, workflows/site_onboarding.py 81-337).
THEOREM OnboardingTyped == OnboardSpec => []OnboardTypeOK
<1>1. TypedInv => OnboardTypeOK
  <2> SUFFICES ASSUME TypedInv PROVE OnboardTypeOK
    OBVIOUS
  <2>1. HubTypeOK
    BY DEF TypedInv, IInv, Typed, Owed, HubTypeOK
  <2>2. TypeOK
    BY <2>1 DEF TypedInv, WorkInv, FlowInv, EndInv, FlowTyped, TypeOK
  <2> QED
    BY <2>2 DEF TypedInv, WorkInv, FlowInv, FlowTyped, SiteTyped, OnboardTypeOK, Stages
<1> QED
  BY <1>1, TypedInit, TypedStep, PTL DEF OnboardSpec

-----------------------------------------------------------------------------
(* Managers who take turns, and wait until the hub has applied what it took in. *)

\* The manager runs no workflow.
Resting(m) == stage[m] \in Ended /\ phase[m] \in {"idle", "done", "raised"}

\* A workflow starts only when no other manager runs one.
StartsAlone == \A m, n \in Managers : m # n /\ Resting(m) /\ ~Resting(m)' => Resting(n)'

InTurns == ~Timeouts /\ ~Hasty /\ OnboardSpec /\ [][StartsAlone]_allVars

\* One manager always does.
OneAtATime == (\A m, n \in Managers : m = n) /\ ~Timeouts /\ ~Hasty

Namesake(p, peers) == \E q \in peers : q.ip = p.ip \/ q.key = p.key

\* The manager whose turn it is edits what is in force: nothing is on the way while
\* it does, and what it sends, or has sent and gave up on, has all the peers of the hub.
HubSerial(m) ==
    /\ Len(queue) <= 1
    /\ queue # <<>> => hub \subseteq queue[1].peers
    /\ pc[m] \in {"read", "push"} => queue = <<>>
    /\ pc[m] = "idle" /\ outcome[m] # "api" => queue = <<>>
    /\ pc[m] # "idle" => op[m].kind = "add"
    /\ pc[m] = "push" => hub \subseteq draft[m] /\ op[m].peers \subseteq draft[m]
    /\ pc[m] = "wait" =>
         queue # <<>> /\ queue[1].by = m /\ op[m].peers \subseteq queue[1].peers

\* What a call of add_site_peer for p comes to.
Came(m, p) ==
    /\ pc[m] # "idle" => op[m] = AddOf(p)
    /\ pc[m] = "idle" /\ outcome[m] = "ok" => p \in hub
    /\ pc[m] = "idle" /\ outcome[m] = "conflict" => Namesake(p, hub)

\* The operation is under way, or has ended without a push.
Reading(m) == pc[m] # "idle" \/ outcome[m] = "conflict"

\* Nothing is lost from the hub, and it changes only when the operation ends.
HubGoesOn(m) ==
    /\ HubSerial(m)' /\ hub \subseteq hub'
    /\ \A p : Came(m, p) => Came(m, p)'
    /\ Reading(m)' => Reading(m) /\ hub' = hub
    /\ pc[m] = "idle" => pc'[m] = "idle" /\ queue # <<>>

LEMMA CallSerial ==
    ASSUME IInv, NEW m \in Managers, HubSerial(m), queue = <<>>, NEW p, Call(m, AddOf(p))
    PROVE  HubSerial(m)' /\ Came(m, p)' /\ pc'[m] # "idle" /\ UNCHANGED <<hub, queue>>
<1>1. /\ pc'[m] = "read" /\ op'[m] = AddOf(p) /\ UNCHANGED <<hub, queue>>
  BY DEF Call, IInv, Typed
<1>2. AddOf(p).kind = "add"
  BY DEF AddOf
<1> QED
  BY <1>1, <1>2 DEF HubSerial, Came

\* The operation ends, and the hub stays as it is.
LEMMA EndsSerial ==
    ASSUME IInv, NEW m \in Managers, HubSerial(m), NEW how, Done(m, how), hub' = hub,
           pc[m] # "idle", how \notin {"none", "ok"}, Len(queue') <= 1,
           queue' # <<>> => how = "api" /\ hub \subseteq queue'[1].peers,
           how = "conflict" => Conflicts(op[m].peers, hub)
    PROVE  HubGoesOn(m)
<1>1. pc'[m] = "idle" /\ outcome'[m] = how
  BY DEF Done, IInv, Typed
<1>2. HubSerial(m)'
  BY <1>1 DEF HubSerial
<1>3. ASSUME NEW p, Came(m, p) PROVE Came(m, p)'
  <2>1. op[m].peers = {p}
    BY <1>3 DEF Came, AddOf
  <2>2. how = "conflict" => Namesake(p, hub)
    BY <2>1 DEF Conflicts, OneByAddress, OneByKey, Namesake
  <2> QED
    BY <1>1, <2>2 DEF Came, Namesake
<1> QED
  BY <1>1, <1>2, <1>3 DEF HubGoesOn, Reading

\* A list of one push, and what is left when it goes.
LEMMA OnePush ==
    ASSUME IInv, Len(queue) <= 1, queue # <<>>
    PROVE  /\ Len(queue) = 1 /\ DOMAIN queue = {1} /\ queue[1] \in Push
           /\ Head(queue) = queue[1] /\ Tail(queue) = <<>>
<1>1. queue \in Seq(Push) /\ Len(queue) \in Nat
  BY DEF IInv, Typed
<1>2. Len(queue) = 1
  BY <1>1
<1>3. DOMAIN queue = 1..1 /\ Len(Tail(queue)) = 0 /\ Tail(queue) \in Seq(Push)
  BY <1>1, <1>2
<1>4. Tail(queue) = <<>>
  BY <1>3
<1> QED
  BY <1>1, <1>2, <1>3, <1>4

LEMMA ManagerSerial ==
    ASSUME ~Timeouts, IInv, Owed, NEW m \in Managers, HubSerial(m), ManagerStep(m)
    PROVE  HubGoesOn(m)
<1>1. Len(<<>>) = 0
  OBVIOUS
<1>2. CASE ReadPolicy(m)
  <2>1. /\ pc[m] = "read" /\ queue = <<>> /\ UNCHANGED <<hub, queue>> /\ op[m].kind = "add"
    BY <1>2 DEF ReadPolicy, HubSerial
  <2>2. CASE Conflicts(op[m].peers, hub) /\ Done(m, "conflict")
    BY <1>1, <2>1, <2>2, EndsSerial
  <2>3. ASSUME NEW edited \in Edits(op[m], hub), draft' = [draft EXCEPT ![m] = edited],
               pc' = [pc EXCEPT ![m] = "push"], UNCHANGED <<op, outcome>>
        PROVE  HubGoesOn(m)
    <3>1. edited = hub \cup op[m].peers
      BY <2>1 DEF Edits, Taken, Brought
    <3>2. pc'[m] = "push" /\ draft'[m] = hub \cup op[m].peers /\ op' = op
      BY <2>3, <3>1 DEF IInv, Typed
    <3> QED
      BY <1>1, <2>1, <3>2 DEF HubSerial, HubGoesOn, Came, Reading
  <2> QED
    BY <1>2, <2>1, <2>2, <2>3 DEF ReadPolicy, Missing
<1>3. CASE ReadFails(m) \/ PushFails(m)
  <2>1. /\ pc[m] \in {"read", "push"} /\ queue = <<>> /\ UNCHANGED <<hub, queue>>
        /\ \E how \in {"wireguard", "api"} : Done(m, how)
    BY <1>3 DEF ReadFails, PushFails, HubSerial
  <2> QED
    BY <1>1, <2>1, EndsSerial
<1>4. CASE PushPolicy(m)
  <2> DEFINE push == [by |-> m, peers |-> draft[m]]
  <2>1. /\ pc[m] = "push" /\ queue = <<>> /\ queue' = Append(<<>>, push)
        /\ pc'[m] = "wait" /\ UNCHANGED <<hub, op, draft, outcome>>
    BY <1>4 DEF PushPolicy, HubSerial, IInv, Typed
  <2>2. Len(queue') = 1 /\ queue'[1] = push /\ queue' # <<>>
    BY <2>1
  <2> QED
    BY <2>1, <2>2 DEF HubSerial, HubGoesOn, Came, Reading
<1>5. CASE AnswerLost(m)
  <2>1. /\ pc[m] = "wait" /\ queue' = Disowned(m) /\ Done(m, "api") /\ UNCHANGED hub
        /\ queue # <<>> /\ hub \subseteq queue[1].peers
    BY <1>5 DEF AnswerLost, HubSerial
  <2>2. DOMAIN queue = {1} /\ Len(queue) = 1
    BY <2>1, OnePush DEF HubSerial
  <2>3. queue'[1].peers = queue[1].peers /\ DOMAIN queue' = DOMAIN queue /\ queue' \in Seq(Push)
    BY <2>1, <2>2, DisownedKeeps DEF IInv
  <2>4. Len(queue') = 1
    <3>1. queue \in Seq(Push)
      BY DEF IInv, Typed
    <3> QED
      BY <2>2, <2>3, <3>1
  <2> QED
    BY <2>1, <2>3, <2>4, EndsSerial
<1>6. ~PushTimesOut(m)
  BY DEF PushTimesOut
<1> QED
  BY <1>2, <1>3, <1>4, <1>5, <1>6 DEF ManagerStep

LEMMA GatewaySerial ==
    ASSUME IInv, Owed, NEW m \in Managers, HubSerial(m), Gateway,
           \A n \in Managers \ {m} : pc[n] = "idle"
    PROVE  HubGoesOn(m)
<1>1. queue # <<>> /\ queue' = Tail(queue)
  BY DEF Gateway, GatewayApplies, GatewayRefuses
<1>2. /\ DOMAIN queue = {1} /\ queue[1] \in Push /\ Head(queue) = queue[1]
      /\ queue' = <<>> /\ Len(queue') = 0
  BY <1>1, OnePush DEF HubSerial
<1>3. hub \subseteq queue[1].peers /\ pc[m] \in {"idle", "wait"}
  BY <1>1 DEF HubSerial, IInv, Typed
<1>4. CASE queue[1].by = Nobody
  <2>1. pc[m] = "idle" /\ outcome[m] = "api"
    BY <1>1, <1>3, <1>4, HubAssumption DEF HubSerial
  <2>2. UNCHANGED <<pc, op, draft, outcome>> /\ hub' \in {hub, queue[1].peers}
    BY <1>2, <1>4 DEF Gateway, GatewayApplies, GatewayRefuses, Answer
  <2> QED
    BY <1>1, <1>2, <1>3, <2>1, <2>2 DEF HubGoesOn, HubSerial, Came, Reading
<1>5. CASE queue[1].by # Nobody
  <2>1. queue[1].by = m /\ pc[m] = "wait"
    BY <1>2, <1>5 DEF Push, Owed
  <2>2. CASE GatewayApplies
    <3>1. Done(m, "ok") /\ hub' = queue[1].peers
      BY <1>2, <1>5, <2>1, <2>2 DEF GatewayApplies, Answer
    <3>2. pc'[m] = "idle" /\ outcome'[m] = "ok"
      BY <3>1 DEF Done, IInv, Typed
    <3>3. \A p : Came(m, p) => p \in hub'
      BY <2>1, <3>1 DEF Came, HubSerial, AddOf
    <3> QED
      BY <1>2, <1>3, <2>1, <3>1, <3>2, <3>3 DEF HubGoesOn, HubSerial, Came, Reading
  <2>3. CASE GatewayRefuses
    <3>1. Done(m, "api") /\ hub' = hub
      BY <1>2, <1>5, <2>1, <2>3 DEF GatewayRefuses, Answer
    <3> QED
      BY <1>2, <2>1, <3>1, EndsSerial
  <2> QED
    BY <2>2, <2>3 DEF Gateway
<1> QED
  BY <1>4, <1>5

-----------------------------------------------------------------------------
(* What the workflows of the manager whose turn it is know. *)

\* A request is on the hub if it is reported added, and has a namesake there if it
\* is reported to exist.
ReportTrue(m) ==
    \A i \in DOMAIN report[m] :
        LET p == Requests[m][i]
        IN  /\ report[m][i] = "added" => p \in hub
            /\ report[m][i] = "already-exists" => Namesake(p, hub)

\* A workflow that looks at the hub finds it settled.
FlowSerial(m) ==
    /\ phase[m] \in {"scope", "loop"} \/ stage[m] \in {"scope", "allocate", "hub", "site"} =>
         queue = <<>>
    /\ pc[m] # "idle" => phase[m] = "adding" \/ stage[m] = "adding"
    /\ phase[m] = "adding" => Came(m, Request(m))
    /\ stage[m] = "adding" => Came(m, SitePeer(m))
    /\ phase[m] \in {"loop", "adding"} => existing[m] \subseteq AddressesOf(hub)
    /\ ReportTrue(m)

\* A site that the hub does not know and whose address is not pinned.
Fresh(m) == job[m].ip = NoIp /\ \A p \in server[m] : p.key # job[m].key

\* Until the site's peer is pushed the hub is as it was in the snapshot.
SiteSerial(m) ==
    /\ stage[m] \in {"allocate", "hub"} => server[m] = hub
    /\ stage[m] = "adding" /\ Reading(m) => server[m] = hub
    /\ stage[m] \in {"hub", "adding"} /\ job[m].ip = NoIp =>
         peer_ip[m] \notin AddressesOf(server[m])
    /\ stage[m] \in {"site", "done"} /\ Fresh(m) /\ job[m].apply => Matches(m)
    /\ site_action[m] = "configured" => stage[m] = "done" /\ job[m].apply

Serial(m) == HubSerial(m) /\ FlowSerial(m) /\ SiteSerial(m)

\* The gateway, or a step of an operation.
LEMMA SerialHubStep ==
    ASSUME TypedInv, NEW m \in Managers, Serial(m), HubGoesOn(m), UNCHANGED <<flow, onboarding>>
    PROVE  Serial(m)'
<1>1. /\ UNCHANGED <<phase, existing, report, stage, job, server, peer_ip, site_action, site>>
      /\ hub \subseteq hub'
  BY DEF flow, onboarding, results, HubGoesOn
<1>2. AddressesOf(hub) \subseteq AddressesOf(hub')
  BY <1>1 DEF AddressesOf
<1>3. phase[m] \in {"scope", "loop"} \/ stage[m] \in {"scope", "allocate", "hub", "site"} => FALSE
  BY DEF TypedInv, FlowTyped, Ended, Serial, FlowSerial, HubGoesOn
<1>4. Request(m)' = Request(m) /\ SitePeer(m)' = SitePeer(m)
  BY <1>1 DEF Request, SitePeer
<1>5. /\ phase[m] = "adding" => Came(m, Request(m))'
      /\ stage[m] = "adding" => Came(m, SitePeer(m))'
  <2>1. \A p : Came(m, p) => /\ (pc'[m] # "idle" => op'[m] = AddOf(p))
                             /\ (pc'[m] = "idle" /\ outcome'[m] = "ok" => p \in hub')
                             /\ (pc'[m] = "idle" /\ outcome'[m] = "conflict" => Namesake(p, hub'))
    BY DEF HubGoesOn, Came, Namesake
  <2> QED
    BY <1>4, <2>1 DEF Serial, FlowSerial, Came, Namesake
<1>6. ReportTrue(m)'
  BY <1>1 DEF Serial, FlowSerial, ReportTrue, Namesake
<1>7. FlowSerial(m)'
  BY <1>1, <1>2, <1>3, <1>5, <1>6 DEF Serial, FlowSerial, HubGoesOn
<1>8. SiteSerial(m)'
  <2>1. stage[m] = "adding" /\ Reading(m)' => server[m] = hub'
    BY DEF HubGoesOn, Serial, SiteSerial
  <2>2. Matches(m) => Matches(m)'
    BY <1>1 DEF Matches
  <2>3. Fresh(m)' <=> Fresh(m)
    BY <1>1 DEF Fresh
  <2> QED
    BY <1>1, <1>3, <2>1, <2>2, <2>3 DEF Serial, SiteSerial, AddressesOf
<1> QED
  BY <1>7, <1>8 DEF Serial, HubGoesOn

\* One more status, that is true.
LEMMA ReportStaysTrue ==
    ASSUME WorkInv, NEW m \in Managers, ReportTrue(m), NEW status, Reported(m, status), hub' = hub,
           status = "added" => Request(m) \in hub,
           status = "already-exists" => Namesake(Request(m), hub)
    PROVE  ReportTrue(m)'
<1> DEFINE n == Len(report[m])
<1>1. report[m] \in Seq(Statuses) /\ n \in Nat
  BY DEF WorkInv, FlowInv
<1>2. report'[m] = Append(report[m], status)
  BY DEF Reported, WorkInv, FlowInv
<1>3. /\ DOMAIN report'[m] = 1..(n + 1) /\ DOMAIN report[m] = 1..n
      /\ report'[m][n + 1] = status /\ \A i \in 1..n : report'[m][i] = report[m][i]
  BY <1>1, <1>2
<1>4. \A i \in 1..(n + 1) : i \in 1..n \/ i = n + 1
  BY <1>1
<1>5. Request(m) = Requests[m][n + 1]
  BY DEF Request
<1> HIDE DEF n
<1> QED
  BY <1>3, <1>4, <1>5 DEF ReportTrue, Namesake

LEMMA SerialFlowStep ==
    ASSUME TypedInv, ~Hasty, NEW m \in Managers, Serial(m), UNCHANGED onboarding,
           (stage[m] \in Ended /\ Begin(m)) \/ FlowStep(m)
    PROVE  Serial(m)'
<1>1. /\ UNCHANGED <<stage, job, server, peer_ip, site_action, site>>
      /\ stage[m] \in Ended
  BY DEF onboarding, results, FlowStep, Scope, Skip, Try, Record, Finish, TypedInv, FlowTyped
<1>2. /\ pc \in [Managers -> {"idle", "read", "push", "wait"}]
      /\ phase \in [Managers -> {"idle", "scope", "loop", "adding", "done", "raised"}]
      /\ existing \in [Managers -> SUBSET Addresses]
  BY DEF TypedInv, WorkInv, EndInv, FlowTyped
<1>3. ASSUME hub' = hub PROVE SiteSerial(m)'
  BY <1>1, <1>3 DEF Serial, SiteSerial, Ended, Matches, Fresh, AddressesOf
<1>4. ASSUME UNCHANGED hubVars PROVE HubSerial(m)' /\ hub' = hub /\ queue' = queue /\ pc' = pc
  BY <1>4 DEF hubVars, Serial, HubSerial
<1>5. ASSUME UNCHANGED hubVars, FlowSerial(m)' PROVE Serial(m)'
  BY <1>3, <1>4, <1>5 DEF Serial
<1>6. CASE Begin(m)
  <2>1. UNCHANGED <<hubVars, existing>> /\ phase'[m] = "scope" /\ report'[m] = <<>> /\ queue = <<>>
        /\ pc[m] = "idle"
    BY <1>1, <1>2, <1>6 DEF Begin, TypedInv, WorkInv, FlowInv, Serial, FlowSerial, Ended
  <2>2. ReportTrue(m)'
    BY <2>1 DEF ReportTrue
  <2>3. FlowSerial(m)'
    BY <1>1, <1>4, <2>1, <2>2 DEF FlowSerial, Ended
  <2> QED
    BY <1>5, <2>1, <2>3
<1>7. CASE Scope(m) \/ Finish(m)
  <2>1. /\ UNCHANGED <<hubVars, report>> /\ queue = <<>> /\ pc[m] = "idle"
        /\ phase'[m] \in {"loop", "done", "raised"}
        /\ phase'[m] = "loop" => existing'[m] = AddressesOf(hub)
    BY <1>1, <1>2, <1>7 DEF Scope, Finish, Serial, FlowSerial, Ended
  <2>2. ReportTrue(m)'
    BY <1>4, <2>1 DEF Serial, FlowSerial, ReportTrue
  <2>3. FlowSerial(m)'
    BY <1>1, <1>4, <2>1, <2>2 DEF FlowSerial, Ended
  <2> QED
    BY <1>5, <2>1, <2>3
<1>8. CASE Skip(m)
  <2>1. UNCHANGED <<hubVars, phase, existing>> /\ phase[m] = "loop"
    BY <1>8 DEF Skip
  <2>2. PICK status : /\ Reported(m, status) /\ status # "added"
                      /\ status = "already-exists" => Request(m).ip \in existing[m]
    BY <1>8 DEF Skip
  <2>3. status = "already-exists" => Namesake(Request(m), hub)
    BY <2>1, <2>2 DEF Serial, FlowSerial, AddressesOf, Namesake
  <2>4. ReportTrue(m)'
    BY <1>4, <2>1, <2>2, <2>3, ReportStaysTrue DEF Serial, FlowSerial, TypedInv
  <2>5. FlowSerial(m)'
    BY <1>1, <1>4, <2>1, <2>4 DEF Serial, FlowSerial, Ended, AddressesOf
  <2> QED
    BY <1>5, <2>1, <2>5
<1>9. CASE Try(m)
  <2>1. /\ Call(m, AddOf(Request(m))) /\ phase[m] = "loop" /\ queue = <<>>
        /\ UNCHANGED <<existing, report>> /\ phase'[m] = "adding"
    BY <1>2, <1>9 DEF Try, Serial, FlowSerial
  <2>2. /\ HubSerial(m)' /\ hub' = hub /\ queue' = queue
        /\ \A p : p = Request(m) => Came(m, p)'
    BY <2>1, CallSerial DEF Serial, TypedInv
  <2>3. Request(m)' = Request(m)
    BY <2>1 DEF Request
  <2>4. Came(m, Request(m))'
    BY <2>2, <2>3 DEF Came
  <2>5. ReportTrue(m)'
    BY <2>1, <2>2 DEF Serial, FlowSerial, ReportTrue, Namesake
  <2>6. FlowSerial(m)'
    BY <1>1, <2>1, <2>2, <2>4, <2>5 DEF Serial, FlowSerial, Ended, AddressesOf
  <2> QED
    BY <1>3, <2>2, <2>6 DEF Serial
<1>10. CASE Record(m)
  <2>1. /\ UNCHANGED hubVars /\ phase[m] = "adding" /\ pc[m] = "idle" /\ Came(m, Request(m))
    BY <1>10 DEF Record, Serial, FlowSerial
  <2>2. CASE outcome[m] = "api"
    <3>1. phase'[m] = "raised" /\ report' = report
      BY <1>2, <1>10, <2>2 DEF Record
    <3>2. ReportTrue(m)'
      BY <1>4, <2>1, <3>1 DEF Serial, FlowSerial, ReportTrue, Namesake
    <3>3. FlowSerial(m)'
      BY <1>1, <1>4, <2>1, <3>1, <3>2 DEF FlowSerial, Ended
    <3> QED
      BY <1>5, <2>1, <3>3
  <2>3. CASE outcome[m] # "api"
    <3>1. /\ phase'[m] = "loop" /\ Reported(m, Status(outcome[m])) /\ queue = <<>>
          /\ existing'[m] \subseteq existing[m] \cup
                (IF outcome[m] = "ok" THEN {Request(m).ip} ELSE {})
      BY <1>2, <1>10, <2>1, <2>3 DEF Record, Serial, HubSerial
    <3>2. outcome[m] \in {"ok", "conflict", "wireguard"}
      BY <2>1, <2>3, EndKnown DEF TypedInv, Outcomes
    <3>3. /\ Status(outcome[m]) = "added" => Request(m) \in hub
          /\ Status(outcome[m]) = "already-exists" => Namesake(Request(m), hub)
      BY <2>1, <3>2 DEF Came, Status
    <3>4. existing'[m] \subseteq AddressesOf(hub)
      BY <2>1, <3>1 DEF Serial, FlowSerial, Came, AddressesOf
    <3>5. ReportTrue(m)'
      BY <1>4, <2>1, <3>1, <3>3, ReportStaysTrue DEF Serial, FlowSerial, TypedInv
    <3>6. FlowSerial(m)'
      BY <1>1, <1>4, <2>1, <3>1, <3>4, <3>5 DEF FlowSerial, Ended, AddressesOf
    <3> QED
      BY <1>5, <2>1, <3>6
  <2> QED
    BY <2>2, <2>3
<1> QED
  BY <1>6, <1>7, <1>8, <1>9, <1>10 DEF FlowStep

LEMMA SerialSiteStep ==
    ASSUME TypedInv, ~Hasty, ~Timeouts, NEW m \in Managers, Serial(m), OnboardStep(m)
    PROVE  Serial(m)'
<1>1. /\ UNCHANGED <<phase, existing, report>>
      /\ phase[m] \notin {"scope", "loop", "adding"}
  BY DEF OnboardStep, OnboardSite, Snapshot, AllocateNextPeerIp, HubUnreadable,
       HubStepSkipped, AddSitePeer, SitePeerAdded, CreateSiteClientPolicy, TypedInv, FlowTyped,
       Ended, vars, flow
<1>2. /\ stage \in [Managers -> Stages] /\ peer_ip \in [Managers -> Addresses \cup {NoIp}]
      /\ job \in [Managers -> Jobs]
  BY DEF TypedInv, WorkInv, FlowInv
<1>3. /\ server \in [Managers -> SUBSET Peer] /\ site \in [Keys -> Addresses \cup {NoIp}]
      /\ site_action \in [Managers -> {"skipped", "planned", "configured", "failed"}]
  BY DEF TypedInv, SiteTyped
<1>4. ASSUME hub' = hub PROVE ReportTrue(m)'
  BY <1>1, <1>4 DEF Serial, FlowSerial, ReportTrue, Namesake
<1>5. ASSUME UNCHANGED vars PROVE HubSerial(m)' /\ UNCHANGED <<hub, queue, pc, outcome>>
  BY <1>5 DEF vars, hubVars, Serial, HubSerial
\* Every step but a call leaves the hub and its managers alone.
<1>6. ASSUME UNCHANGED vars, stage'[m] # "adding", pc[m] = "idle",
             stage'[m] \in {"scope", "allocate", "hub", "site"} => queue = <<>>, SiteSerial(m)'
      PROVE  Serial(m)'
  BY <1>1, <1>4, <1>5, <1>6 DEF Serial, FlowSerial
<1>7. stage[m] # "adding" => pc[m] = "idle"
  BY <1>1 DEF Serial, FlowSerial
<1>8. CASE OnboardSite(m)
  <2>1. /\ UNCHANGED vars /\ queue = <<>> /\ stage'[m] = "scope" /\ stage[m] # "adding"
        /\ site_action'[m] = "skipped"
    BY <1>2, <1>3, <1>8 DEF OnboardSite, GoTo, Ended
  <2> QED
    BY <1>6, <1>7, <2>1 DEF SiteSerial
<1>9. CASE Snapshot(m)
  <2>1. /\ UNCHANGED <<vars, job, site_action>> /\ stage[m] = "scope" /\ queue = <<>>
        /\ server'[m] = hub /\ stage'[m] \in {"hub", "allocate"}
        /\ stage'[m] = "hub" => job[m].ip \in AddressesOf(hub)
    BY <1>2, <1>3, <1>9 DEF Snapshot, GoTo, Serial, FlowSerial, results
  <2>2. job[m].ip \in AddressesOf(hub) => job[m].ip # NoIp
    BY OnboardAssumption DEF TypedInv, IInv, Typed, Peer, AddressesOf
  <2>3. SiteSerial(m)'
    BY <1>5, <2>1, <2>2 DEF Serial, SiteSerial
  <2> QED
    BY <1>6, <1>7, <2>1, <2>3
<1>10. CASE AllocateNextPeerIp(m)
  <2>1. /\ UNCHANGED <<vars, job, server, site_action>> /\ stage[m] = "allocate" /\ queue = <<>>
        /\ stage'[m] \in {"hub", "failed"}
        /\ stage'[m] = "hub" => peer_ip'[m] \in Allocated(AddressesOf(hub), job[m].ip)
    BY <1>2, <1>10 DEF AllocateNextPeerIp, GoTo, Serial, FlowSerial, results
  <2>2. \A ip \in Allocated(AddressesOf(hub), job[m].ip) : ip \notin AddressesOf(hub)
    BY AllocatedFree
  <2>3. SiteSerial(m)'
    BY <1>5, <2>1, <2>2 DEF Serial, SiteSerial
  <2> QED
    BY <1>6, <1>7, <2>1, <2>3
<1>11. CASE HubUnreadable(m)
  <2>1. /\ UNCHANGED <<vars, site_action>> /\ stage[m] \in {"scope", "allocate"}
        /\ stage'[m] \in {"failed", "raised"}
    BY <1>2, <1>11 DEF HubUnreadable, GoTo, results
  <2>2. SiteSerial(m)'
    BY <2>1 DEF Serial, SiteSerial
  <2> QED
    BY <1>6, <1>7, <2>1, <2>2
<1>12. CASE HubStepSkipped(m)
  <2>1. /\ UNCHANGED <<vars, job, server, peer_ip, site_action>> /\ stage[m] = "hub"
        /\ queue = <<>> /\ stage'[m] \in {"site", "done"}
        /\ peer_ip[m] \in AddressesOf(server[m]) \/ ~job[m].apply
    BY <1>2, <1>12 DEF HubStepSkipped, GoTo, SiteNeeded, Serial, FlowSerial
  <2>2. SiteSerial(m)'
    BY <2>1 DEF Serial, SiteSerial, Fresh
  <2> QED
    BY <1>6, <1>7, <2>1, <2>2
<1>13. CASE AddSitePeer(m)
  <2>1. /\ Call(m, AddOf(SitePeer(m))) /\ stage[m] = "hub" /\ queue = <<>>
        /\ UNCHANGED <<job, server, peer_ip, site_action>> /\ stage'[m] = "adding"
    BY <1>2, <1>13 DEF AddSitePeer, SitePeer, GoTo, results, Serial, FlowSerial
  <2>2. /\ HubSerial(m)' /\ UNCHANGED <<hub, queue>>
        /\ \A p : p = SitePeer(m) => Came(m, p)'
    BY <2>1, CallSerial DEF Serial, TypedInv
  <2>3. Came(m, SitePeer(m))'
    BY <2>1, <2>2 DEF Came, SitePeer
  <2>4. FlowSerial(m)'
    BY <1>1, <1>4, <2>1, <2>2, <2>3 DEF FlowSerial
  <2>5. SiteSerial(m)'
    BY <2>1, <2>2 DEF Serial, SiteSerial, AddressesOf
  <2> QED
    BY <2>2, <2>4, <2>5 DEF Serial
<1>14. CASE SitePeerAdded(m)
  <2>1. /\ UNCHANGED <<vars, job, server, peer_ip, site_action>> /\ stage[m] = "adding"
        /\ pc[m] = "idle" /\ Came(m, SitePeer(m))
    BY <1>14 DEF SitePeerAdded, Serial, FlowSerial
  <2>2. \/ stage'[m] \in {"raised", "failed"}
        \/ stage'[m] \in {"site", "done"} /\ outcome[m] \in {"ok", "conflict"}
    BY <1>2, <1>14 DEF SitePeerAdded, GoTo, SiteNeeded
  <2>3. ASSUME outcome[m] \in {"ok", "conflict"}, Fresh(m)
        PROVE  Matches(m) /\ queue = <<>>
    <3>1. outcome[m] # "conflict"
      <4> SUFFICES ASSUME outcome[m] = "conflict" PROVE FALSE
        OBVIOUS
      <4>1. PICK q \in hub : q.ip = peer_ip[m] \/ q.key = job[m].key
        BY <2>1 DEF Came, Namesake, SitePeer
      <4>2. server[m] = hub /\ peer_ip[m] \notin AddressesOf(hub)
        BY <2>1, <2>3 DEF Serial, SiteSerial, Reading, Fresh
      <4> QED
        BY <2>3, <4>1, <4>2 DEF Fresh, AddressesOf
    <3> QED
      BY <2>1, <2>3, <3>1 DEF Came, SitePeer, Matches, Serial, HubSerial
  <2>4. outcome[m] # "api" => queue = <<>>
    BY <2>1 DEF Serial, HubSerial
  <2>5. SiteSerial(m)'
    <3>1. (Fresh(m)' <=> Fresh(m)) /\ (Matches(m)' <=> Matches(m))
      BY <1>5, <2>1 DEF Fresh, Matches
    <3> QED
      BY <2>1, <2>2, <2>3, <3>1 DEF Serial, SiteSerial
  <2> QED
    BY <1>6, <2>1, <2>2, <2>4, <2>5
<1>15. CASE CreateSiteClientPolicy(m)
  <2>1. /\ UNCHANGED <<vars, job, server, peer_ip>> /\ stage[m] = "site"
        /\ stage'[m] \in {"done", "failed", "raised"} /\ site_action[m] # "configured"
    BY <1>2, <1>15 DEF CreateSiteClientPolicy, GoTo, Serial, SiteSerial
  <2>3. site_action'[m] = "configured" => stage'[m] = "done" /\ job[m].apply
    BY <1>2, <1>3, <1>15, <2>1 DEF CreateSiteClientPolicy, GoTo, SiteActed
  <2>4. SiteSerial(m)'
    <3>1. (Fresh(m)' <=> Fresh(m)) /\ (Matches(m)' <=> Matches(m))
      BY <1>5, <2>1 DEF Fresh, Matches
    <3> QED
      BY <2>1, <2>3, <3>1 DEF Serial, SiteSerial
  <2> QED
    BY <1>6, <1>7, <2>1, <2>4
<1> QED
  BY <1>8, <1>9, <1>10, <1>11, <1>12, <1>13, <1>14, <1>15 DEF OnboardStep

-----------------------------------------------------------------------------
(* Turns. *)

\* What is left of a turn: reports that stay true, and a site's peer on the hub.
Rested(m) ==
    /\ Resting(m) /\ pc[m] = "idle" /\ ReportTrue(m)
    /\ stage[m] = "done" /\ Fresh(m) /\ job[m].apply => Matches(m)
    /\ site_action[m] = "configured" => stage[m] = "done" /\ job[m].apply

Turn(m) == Serial(m) /\ \A n \in Managers \ {m} : Rested(n)

SerialInv == TypedInv /\ \A k \in Managers : \E m \in Managers : Turn(m)

\* A turn that is over leaves a manager rested; one that begins finds the hub settled.
LEMMA TurnOver ==
    ASSUME NEW m \in Managers, Serial(m), Resting(m)
    PROVE  Rested(m)
<1>1. phase[m] # "adding" /\ stage[m] # "adding"
  BY DEF Resting, Ended
<1>2. pc[m] = "idle"
  BY <1>1 DEF Serial, FlowSerial, HubSerial
<1> QED
  BY <1>2 DEF Serial, FlowSerial, SiteSerial, Rested

LEMMA TurnBegins ==
    ASSUME NEW m \in Managers, Rested(m), queue = <<>>
    PROVE  Serial(m)
<1>1. /\ phase[m] \notin {"scope", "loop", "adding"} /\ pc[m] = "idle"
      /\ stage[m] \notin {"scope", "allocate", "hub", "adding", "site"}
  BY DEF Rested, Resting, Ended
<1>2. HubSerial(m)
  <2>1. Len(queue) = 0
    OBVIOUS
  <2> QED BY <1>1, <2>1 DEF HubSerial
<1>3. FlowSerial(m)
  BY <1>1 DEF FlowSerial, Rested
<1>4. SiteSerial(m)
  BY <1>1 DEF SiteSerial, Rested
<1> QED
  BY <1>2, <1>3, <1>4 DEF Serial

\* A manager who rests stays so while another one works on the hub.
LEMMA RestGoesOn ==
    ASSUME NEW n \in Managers, Rested(n), hub \subseteq hub', pc'[n] = "idle",
           phase'[n] = phase[n], report'[n] = report[n], stage'[n] = stage[n], job'[n] = job[n],
           server'[n] = server[n], peer_ip'[n] = peer_ip[n], site_action'[n] = site_action[n]
    PROVE  Rested(n)'
<1>1. ReportTrue(n)'
  BY DEF Rested, ReportTrue, Namesake
<1>2. (Fresh(n)' <=> Fresh(n)) /\ (Matches(n) => Matches(n)') /\ Resting(n)'
  BY DEF Fresh, Matches, Rested, Resting
<1> QED
  BY <1>1, <1>2 DEF Rested

\* A step of a workflow of one manager.
WorkStep(m) ==
    \/ OnboardStep(m)
    \/ UNCHANGED onboarding /\ ((stage[m] \in Ended /\ Begin(m)) \/ FlowStep(m))

LEMMA WorksAlone ==
    ASSUME TypedInv, NEW m \in Managers, NEW n \in Managers \ {m}, WorkStep(m)
    PROVE  /\ UNCHANGED hub /\ pc'[n] = pc[n]
           /\ phase'[n] = phase[n] /\ report'[n] = report[n] /\ stage'[n] = stage[n]
           /\ job'[n] = job[n] /\ server'[n] = server[n] /\ peer_ip'[n] = peer_ip[n]
           /\ site_action'[n] = site_action[n]
<1>1. /\ pc \in [Managers -> {"idle", "read", "push", "wait"}]
      /\ phase \in [Managers -> {"idle", "scope", "loop", "adding", "done", "raised"}]
      /\ stage \in [Managers -> Stages] /\ peer_ip \in [Managers -> Addresses \cup {NoIp}]
      /\ job \in [Managers -> Jobs] /\ server \in [Managers -> SUBSET Peer]
      /\ site_action \in [Managers -> {"skipped", "planned", "configured", "failed"}]
      /\ DOMAIN report = Managers /\ report = [k \in DOMAIN report |-> report[k]]
  BY DEF TypedInv, WorkInv, FlowInv, EndInv, FlowTyped, SiteTyped, IInv, Typed
<1>2. CASE OnboardSite(m) \/ Snapshot(m) \/ AllocateNextPeerIp(m) \/ HubUnreadable(m)
  BY <1>1, <1>2 DEF OnboardSite, Snapshot, AllocateNextPeerIp, HubUnreadable, GoTo, vars, flow,
       hubVars, results
<1>3. CASE HubStepSkipped(m) \/ AddSitePeer(m) \/ SitePeerAdded(m) \/ CreateSiteClientPolicy(m)
  BY <1>1, <1>3 DEF HubStepSkipped, AddSitePeer, SitePeerAdded, CreateSiteClientPolicy, GoTo,
       SiteActed, Call, vars, flow, hubVars, results
<1>4. CASE UNCHANGED onboarding /\ (Begin(m) \/ FlowStep(m))
  BY <1>1, <1>4 DEF FlowStep, Begin, Scope, Skip, Try, Record, Finish, Reported, Call, onboarding,
       flow, hubVars, results
<1> QED
  BY <1>2, <1>3, <1>4 DEF WorkStep, OnboardStep

\* Who rests can only begin a workflow, and then it is alone.
LEMMA TurnTaken ==
    ASSUME TypedInv, ~Hasty, StartsAlone, NEW m \in Managers, Turn(m), NEW n \in Managers \ {m},
           WorkStep(n)
    PROVE  Turn(n)
<1>1. /\ Rested(n) /\ stage[n] \in Ended /\ phase[n] \in {"idle", "done", "raised"}
  BY DEF Turn, Rested, Resting
<1>2. OnboardSite(n) \/ Begin(n)
  BY <1>1 DEF WorkStep, OnboardStep, FlowStep, Scope, Skip, Try, Record, Finish, Snapshot,
       AllocateNextPeerIp, HubUnreadable, HubStepSkipped, AddSitePeer, SitePeerAdded,
       CreateSiteClientPolicy, Ended
<1>3. queue = <<>>
  BY <1>2 DEF OnboardSite, Begin
<1>4. ~Resting(n)'
  <2>1. /\ phase \in [Managers -> {"idle", "scope", "loop", "adding", "done", "raised"}]
        /\ stage \in [Managers -> Stages]
    BY DEF TypedInv, WorkInv, FlowInv, EndInv, FlowTyped
  <2> QED
    BY <1>2, <2>1 DEF OnboardSite, Begin, GoTo, Resting, Ended
<1>5. Resting(m)'
  BY <1>1, <1>4 DEF StartsAlone, Resting
<1>6. Resting(m)
  BY <1>5, WorksAlone DEF Resting
<1> QED
  BY <1>1, <1>3, <1>6, TurnOver, TurnBegins DEF Turn

\* A workflow's step in its manager's turn.
LEMMA TurnWorks ==
    ASSUME TypedInv, ~Hasty, ~Timeouts, NEW m \in Managers, Turn(m), WorkStep(m)
    PROVE  Turn(m)'
<1>1. Serial(m)'
  BY SerialSiteStep, SerialFlowStep DEF Turn, WorkStep
<1>2. ASSUME NEW n \in Managers \ {m} PROVE Rested(n)'
  BY WorksAlone, RestGoesOn DEF Turn, Rested
<1> QED
  BY <1>1, <1>2 DEF Turn

LEMMA TurnHubStep ==
    ASSUME TypedInv, ~Timeouts, NEW m \in Managers, Turn(m), UNCHANGED <<flow, onboarding>>,
           Gateway \/ ManagerStep(m)
    PROVE  Turn(m)'
<1>1. IInv /\ Owed /\ \A n \in Managers \ {m} : pc[n] = "idle"
  BY DEF TypedInv, Turn, Rested
<1>2. HubGoesOn(m)
  BY <1>1, ManagerSerial, GatewaySerial DEF Turn, Serial
<1>3. Serial(m)'
  BY <1>2, SerialHubStep DEF Turn
<1>4. ASSUME NEW n \in Managers \ {m} PROVE pc'[n] = "idle"
  <2>1. ASSUME NEW k, NEW how, Done(k, how) PROVE pc'[n] = "idle"
    BY <1>1, <2>1 DEF Done, IInv, Typed
  <2>2. CASE Gateway
    BY <1>1, <2>1, <2>2 DEF Gateway, GatewayApplies, GatewayRefuses, Answer
  <2>3. CASE ManagerStep(m)
    BY <1>1, <2>1, <2>3
       DEF ManagerStep, ReadPolicy, ReadFails, PushPolicy, PushFails, PushTimesOut, AnswerLost,
           IInv, Typed
  <2> QED
    BY <2>2, <2>3
<1>5. ASSUME NEW n \in Managers \ {m} PROVE Rested(n)'
  BY <1>2, <1>4, RestGoesOn DEF flow, onboarding, results, HubGoesOn, Turn
<1> QED
  BY <1>3, <1>5 DEF Turn

LEMMA SerialInit == OnboardInit => SerialInv
<1> SUFFICES ASSUME OnboardInit, NEW m \in Managers PROVE Turn(m)
  BY TypedInit DEF SerialInv
<1>1. ASSUME NEW n \in Managers PROVE Rested(n) /\ queue = <<>>
  BY DEF OnboardInit, Init, HubInit, Rested, Resting, Ended, ReportTrue
<1> QED
  BY <1>1, TurnBegins DEF Turn

LEMMA SerialStep ==
    ASSUME ~Timeouts, ~Hasty, SerialInv, [OnboardNext]_allVars, [StartsAlone]_allVars
    PROVE  SerialInv'
<1> SUFFICES ASSUME NEW m \in Managers, Turn(m) PROVE \E n \in Managers : Turn(n)'
  BY TypedStep DEF SerialInv
<1>1. TypedInv
  BY DEF SerialInv
<1>2. ASSUME UNCHANGED allVars PROVE Turn(m)'
  <2>1. /\ UNCHANGED <<hub, queue, pc, op, draft, outcome, phase, existing, report, stage, job>>
        /\ UNCHANGED <<server, peer_ip, site_action, site>>
    BY <1>2 DEF allVars, vars, hubVars, flow, onboarding, results
  <2>2. HubSerial(m)'
    BY <2>1 DEF Turn, Serial, HubSerial
  <2>3. FlowSerial(m)'
    BY <2>1 DEF Turn, Serial, FlowSerial, Came, Namesake, ReportTrue, Request, SitePeer, AddressesOf
  <2>4. SiteSerial(m)'
    BY <2>1 DEF Turn, Serial, SiteSerial, Reading, Fresh, Matches, AddressesOf
  <2>5. \A n \in Managers \ {m} : Rested(n)'
    BY <2>1, RestGoesOn DEF Turn, Rested
  <2> QED
    BY <2>2, <2>3, <2>4, <2>5 DEF Serial, Turn
<1>3. ASSUME NEW n \in Managers, WorkStep(n), StartsAlone PROVE Turn(n)'
  BY <1>1, <1>3, TurnTaken, TurnWorks
<1>4. ASSUME NEW n \in Managers, ManagerStep(n) PROVE n = m
  BY <1>4 DEF Turn, Rested, ManagerStep, ReadPolicy, ReadFails, PushPolicy, PushFails,
       PushTimesOut, AnswerLost
<1>5. ASSUME Gateway \/ \E n \in Managers : ManagerStep(n), UNCHANGED <<flow, onboarding>>
      PROVE  Turn(m)'
  BY <1>1, <1>4, <1>5, TurnHubStep
<1> QED
  BY <1>2, <1>3, <1>5 DEF OnboardNext, WorkStep

LEMMA AlwaysSerial == InTurns => []SerialInv
<1>1. CASE ~Timeouts /\ ~Hasty
  <2>1. SerialInv /\ [OnboardNext]_allVars /\ [StartsAlone]_allVars => SerialInv'
    BY <1>1, SerialStep
  <2> QED
    BY <2>1, SerialInit, PTL DEF OnboardSpec, InTurns
<1>2. CASE ~(~Timeouts /\ ~Hasty)
  BY <1>2 DEF InTurns
<1> QED
  BY <1>1, <1>2

\* Managers who take turns, and whose pushes do not time out, can rely on the reports
\* of add_hub_peers (workflows/wireguard.py 84-279) for good: whoever changes the hub
\* afterwards, whichever calls fail, and though a push that was given up may apply
\* later.
THEOREM AddReportsStayTrue == InTurns => []ReportsHold
<1>1. SerialInv => ReportsHold
  BY DEF SerialInv, Turn, Rested, Serial, FlowSerial, ReportTrue, Namesake, ReportsHold
<1> QED
  BY <1>1, AlwaysSerial, PTL

\* The site that a manager onboarded has its peer on the hub, at the address it was
\* given, if the hub did not know the site and its address was not pinned, whatever
\* the other managers onboard after it (site_onboarding.py 12-13).
THEOREM FreshSitesStayOnHub ==
    InTurns => [](\A m \in Managers :
                    /\ Onboarded(m) /\ job[m].ip = NoIp
                    /\ \A p \in server[m] : p.key # job[m].key
                    => Matches(m))
<1>1. ASSUME SerialInv, NEW m \in Managers, Onboarded(m), Fresh(m) PROVE Matches(m)
  BY <1>1 DEF SerialInv, Turn, Rested, Serial, SiteSerial, Onboarded
<1>2. SerialInv => \A m \in Managers :
                     /\ Onboarded(m) /\ job[m].ip = NoIp
                     /\ \A p \in server[m] : p.key # job[m].key
                     => Matches(m)
  BY <1>1 DEF Fresh
<1> QED
  BY <1>2, AlwaysSerial, PTL

-----------------------------------------------------------------------------
(* One manager: nobody else configures the site. *)

SiteUsed == \A m \in Managers : site_action[m] = "configured" => site[job[m].key] = peer_ip[m]

LEMMA SiteUsedStep ==
    ASSUME OneAtATime, SerialInv, SiteUsed, [OnboardNext]_allVars
    PROVE  SiteUsed'
<1> SUFFICES ASSUME NEW m \in Managers, site_action'[m] = "configured"
             PROVE  site'[job'[m].key] = peer_ip'[m]
  BY DEF SiteUsed
<1>1. /\ \A n \in Managers : n = m
      /\ ~Timeouts
      /\ site_action[m] = "configured" => site[job[m].key] = peer_ip[m]
      /\ site_action[m] = "configured" => stage[m] = "done"
  BY DEF OneAtATime, SerialInv, Turn, Serial, SiteSerial, SiteUsed
<1>2. /\ peer_ip \in [Managers -> Addresses \cup {NoIp}] /\ stage \in [Managers -> Stages]
      /\ job \in [Managers -> Jobs] /\ job[m].key \in Keys
      /\ site \in [Keys -> Addresses \cup {NoIp}]
      /\ site_action \in [Managers -> {"skipped", "planned", "configured", "failed"}]
  BY OnboardAssumption DEF SerialInv, TypedInv, WorkInv, FlowInv, SiteTyped, Job
<1>3. CASE UNCHANGED onboarding \/ UNCHANGED allVars
  BY <1>1, <1>3 DEF onboarding, allVars, results
<1>4. CASE OnboardSite(m)
  BY <1>2, <1>4 DEF OnboardSite
<1>5. CASE Snapshot(m) \/ AllocateNextPeerIp(m) \/ HubUnreadable(m) \/ HubStepSkipped(m)
             \/ AddSitePeer(m) \/ SitePeerAdded(m)
  BY <1>1, <1>5 DEF Snapshot, AllocateNextPeerIp, HubUnreadable, HubStepSkipped, AddSitePeer,
       SitePeerAdded, results
<1>6. CASE CreateSiteClientPolicy(m)
  BY <1>1, <1>2, <1>6 DEF CreateSiteClientPolicy, SiteActed
<1> QED
  BY <1>1, <1>3, <1>4, <1>5, <1>6 DEF OnboardNext, OnboardStep, onboarding, allVars

\* And if there is one manager only, the site's own gateway is configured for that
\* peer (site_onboarding.py 12-13).
THEOREM FreshSitesStayMatched == OneAtATime /\ OnboardSpec => []FreshSitesMatch
<1>1. CASE OneAtATime
  <2>1. StartsAlone
    BY <1>1 DEF OneAtATime, StartsAlone
  <2>2. OnboardInit => SiteUsed
    BY DEF OnboardInit, SiteUsed
  <2>3. SerialInv /\ SiteUsed /\ [OnboardNext]_allVars => SiteUsed'
    BY <1>1, SiteUsedStep
  <2>4. SerialInv /\ SiteUsed => FreshSitesMatch
    BY DEF SerialInv, Turn, Rested, Serial, SiteSerial, Fresh, Onboarded, FreshSitesMatch, SiteUsed
  <2>5. ~Timeouts /\ ~Hasty
    BY <1>1 DEF OneAtATime
  <2> QED
    BY <2>1, <2>2, <2>3, <2>4, <2>5, AlwaysSerial, PTL DEF OnboardSpec, InTurns
<1>2. CASE ~OneAtATime
  BY <1>2
<1> QED
  BY <1>1, <1>2
=============================================================================
