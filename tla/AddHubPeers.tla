---------------------------- MODULE AddHubPeers -----------------------------
(***************************************************************************)
(* The workflow add_hub_peers (workflows/wireguard.py 84-279): one         *)
(* operation of HubPolicy after the other, one for each requested peer     *)
(* whose address is not on the hub, and a report of what became of each.   *)
(* Every manager runs the workflow, once or over and over.                 *)
(***************************************************************************)
EXTENDS HubPolicy

CONSTANTS
    Requests,   \* [Managers -> Seq(Peer)]: the peers to add
    Hasty       \* whether a workflow may start while a push is under way

ASSUME AddAssumption ==
    /\ Requests \in [Managers -> Seq(Peer)]
    /\ \A p \in Peer : AddOf(p) \in Ops
    /\ Hasty \in BOOLEAN

VARIABLES
    phase,      \* [Managers -> where the workflow is]
    apply,      \* [Managers -> BOOLEAN]: not a dry run
    existing,   \* [Managers -> existing_ips]
    report      \* [Managers -> the statuses reported so far]

flow == <<phase, apply, existing, report>>
vars == <<hubVars, flow>>

Statuses == {"added", "already-exists", "planned", "failed"}
Request(m) == Requests[m][Len(report[m]) + 1]
Remaining(m) == Len(report[m]) < Len(Requests[m])

Init ==
    /\ HubInit
    /\ phase = [m \in Managers |-> "idle"]
    /\ apply = [m \in Managers |-> FALSE]
    /\ existing = [m \in Managers |-> {}]
    /\ report = [m \in Managers |-> <<>>]

\* A workflow starts; the report of the one before is gone.
Begin(m) ==
    /\ phase[m] \in {"idle", "done", "raised"}
    /\ Hasty \/ queue = <<>>
    /\ phase' = [phase EXCEPT ![m] = "scope"]
    /\ \E b \in BOOLEAN : apply' = [apply EXCEPT ![m] = b]
    /\ report' = [report EXCEPT ![m] = <<>>]
    /\ UNCHANGED <<hubVars, existing>>

\* get_server_policy: what is on the hub, an error the workflow returns, or
\* one that it lets through.
Scope(m) ==
    /\ phase[m] = "scope"
    /\ \/ /\ existing' = [existing EXCEPT ![m] = AddressesOf(hub)]
          /\ phase' = [phase EXCEPT ![m] = "loop"]
       \/ /\ \E end \in {"done", "raised"} : phase' = [phase EXCEPT ![m] = end]
          /\ UNCHANGED existing
    /\ UNCHANGED <<hubVars, apply, report>>

Reported(m, status) == report' = [report EXCEPT ![m] = Append(@, status)]

\* The address is taken; or this is a dry run.
Skip(m) ==
    /\ phase[m] = "loop" /\ Remaining(m)
    /\ \/ Request(m).ip \in existing[m] /\ Reported(m, "already-exists")
       \/ /\ Request(m).ip \notin existing[m] /\ ~apply[m]
          /\ Reported(m, "planned")
    /\ UNCHANGED <<hubVars, phase, apply, existing>>

\* add_site_peer is called.
Try(m) ==
    /\ phase[m] = "loop" /\ Remaining(m)
    /\ Request(m).ip \notin existing[m] /\ apply[m]
    /\ Call(m, AddOf(Request(m)))
    /\ phase' = [phase EXCEPT ![m] = "adding"]
    /\ UNCHANGED <<apply, existing, report>>

\* Mutant: a conflict is taken for a success.
StatusLenient(how) ==
    CASE how \in {"ok", "conflict"} -> "added" [] how = "wireguard" -> "failed"

\* What the workflow reports of an add_site_peer that ended.
Status(how) ==
    CASE how = "ok" -> "added"
      [] how = "conflict" -> "already-exists"
      [] how = "wireguard" -> "failed"

\* add_site_peer is over.  Only RuijieWireGuardErrors are caught.
Record(m) ==
    /\ phase[m] = "adding" /\ pc[m] = "idle"
    /\ \/ /\ outcome[m] = "api"
          /\ phase' = [phase EXCEPT ![m] = "raised"]
          /\ UNCHANGED <<existing, report>>
       \/ /\ outcome[m] # "api"
          /\ Reported(m, Status(outcome[m]))
          /\ existing' = IF outcome[m] = "ok"
                         THEN [existing EXCEPT ![m] = @ \cup {Request(m).ip}]
                         ELSE existing
          /\ phase' = [phase EXCEPT ![m] = "loop"]
    /\ UNCHANGED <<hubVars, apply>>

Finish(m) ==
    /\ phase[m] = "loop" /\ ~Remaining(m)
    /\ phase' = [phase EXCEPT ![m] = "done"]
    /\ UNCHANGED <<hubVars, apply, existing, report>>

FlowStep(m) == Scope(m) \/ Skip(m) \/ Try(m) \/ Record(m) \/ Finish(m)

Next ==
    \/ \E m \in Managers : Begin(m) \/ FlowStep(m)
    \/ (Gateway \/ \E m \in Managers : ManagerStep(m)) /\ UNCHANGED flow

Spec == Init /\ [][Next]_vars

-----------------------------------------------------------------------------
(* Properties. *)

\* Every variable keeps its type.
TypeOK ==
    /\ HubTypeOK
    /\ phase \in [Managers -> {"idle", "scope", "loop", "adding", "done", "raised"}]
    /\ apply \in [Managers -> BOOLEAN]
    /\ existing \in [Managers -> SUBSET Addresses]
    /\ \A m \in Managers :
         report[m] \in Seq(Statuses) /\ Len(report[m]) <= Len(Requests[m])

\* The gateway owes nothing any more.
Settled == queue = <<>>

\* What is reported added is on the hub once the gateway has applied what it
\* took in ("config update timeouts are treated as success since the gateway
\* applies config asynchronously", gateway.py 209-210), and what is reported to
\* exist has a namesake there.
ReportsHold ==
    Settled => \A m \in Managers : \A i \in DOMAIN report[m] :
        LET p == Requests[m][i]
        IN  /\ report[m][i] = "added" => p \in hub
            /\ report[m][i] = "already-exists" =>
                 \E q \in hub : q.ip = p.ip \/ q.key = p.key

\* The part of ReportsHold that concerns a timed-out push (gateway.py 209-210).
TimedOutPushesApply ==
    Settled => \A m \in Managers : \A i \in DOMAIN report[m] :
        report[m][i] = "added" => Requests[m][i] \in hub

\* "Per-peer failures are recorded" (workflows/wireguard.py 109-111): once the
\* peers are being added, the workflow returns its report.
FailuresRecorded ==
    \A m \in Managers : phase[m] = "raised" => report[m] = <<>>
=============================================================================
