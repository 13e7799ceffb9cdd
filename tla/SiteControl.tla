----------------------------- MODULE SiteControl -----------------------------
(***************************************************************************)
(* SiteControl (site_control.py): an application-list exception is planned *)
(* from a read of the cloud's policies, applied through the web session    *)
(* after the cloud and the gateway have been compared with the plan, and   *)
(* verified on both.  Others edit the policies in the cloud, or on the     *)
(* gateway; the cloud delivers its policies to the gateway in its own time.*)
(***************************************************************************)
EXTENDS Naturals, WebSession

CONSTANTS
    Ids,            \* policy ids; also the names the gateway knows them by
    Apps,           \* applications
    Scopes,         \* everything else of a policy that the gateway gets too
    Explicit,       \* scopes of enabled block policies with plain ip slots
    Effects,        \* what only the gateway knows of a policy
    Gone,           \* no such policy
    OtherPolicies,  \* [Ids -> the policies that others may set up]
    NoPlan, NoPatch,
    BuggyCaller     \* whether a plan may have been tampered with

Policy == [apps: SUBSET Apps, scope: Scopes]
Native == [apps: SUBSET Apps, scope: Scopes, effect: Effects]
Plan == [rows: [Ids -> Policy \cup {Gone}], id: Ids, before: Policy, after: Policy]
Patch == [id: Ids, after: Policy]    \* what a write carries
PatchOf(p) == [id |-> p.id, after |-> p.after]

ASSUME ControlAssumption ==
    /\ Explicit \subseteq Scopes
    /\ Gone \notin Policy /\ Gone \notin Native
    /\ OtherPolicies \in [Ids -> SUBSET (Policy \cup {Gone})]
    /\ \A i \in Ids : OtherPolicies[i] # {}
    /\ Effects # {}
    /\ NoPlan \notin Plan /\ NoPatch \notin Patch
    /\ BuggyCaller \in BOOLEAN

VARIABLES
    cloud,       \* [Ids -> the policy in the cloud, or Gone]
    stamp,       \* updateTime: changes with every write
    native,      \* [Ids -> the policy on the gateway, or Gone]
    plan,        \* the caller's plan
    underway,    \* the write that apply gave up on and the cloud may execute
                 \* yet, or NoPatch (a bound: one at a time)
    stage,       \* control state of apply
    read,        \* rows: the policies that apply read
    readStamp,
    before,      \* the gateway's policies as apply read them first; kept with a report
    tries,       \* reads of the gateway after the write
    cloudOk,     \* cloud_verified
    verdict,     \* how the last apply ended
    written,     \* history: times the cloud executed the plan, up to 2
    alone,       \* history: nobody edited anything since the plan was made, and
                 \* no write of an earlier plan came through
    moved,       \* history: somebody edited the cloud since apply read it
    replayed     \* history: the plan passed the revision check a second time
                 \* while its first write was under way

\* How apply ends, and what its report says of the cloud and of the gateway.
Verdict(how, inCloud, onGateway) == [how |-> how, cloud |-> inCloud, gateway |-> onGateway]

Nothing == [i \in Ids |-> Gone]

world == <<cloud, stamp, native, underway>>
past == <<written, alone, replayed>>
locals == <<read, readStamp, before, tries, cloudOk>>
controlVars == <<world, webVars, plan, stage, locals, verdict, past, moved>>

ControlInit ==
    /\ cloud \in {c \in [Ids -> Policy \cup {Gone}] : \A i \in Ids : c[i] \in OtherPolicies[i]}
    /\ stamp = FALSE
    /\ native = Nothing /\ underway = NoPatch
    /\ WebInit
    /\ plan = NoPlan /\ stage = "idle"
    /\ read = Nothing /\ readStamp = FALSE /\ before = Nothing
    /\ tries = 0 /\ cloudOk = FALSE /\ verdict = Verdict("none", FALSE, FALSE)
    /\ written = 0 /\ alone = TRUE /\ moved = FALSE /\ replayed = FALSE

-----------------------------------------------------------------------------
(* Revisions and comparisons. *)

\* Mutant: update times count.
RevisionStamped(rows, s) == <<rows, s>>

\* policy_revision: a fingerprint of the rows without their update times.
Revision(rows, s) == <<rows>>

\* delivered: the gateway has the policy as the cloud has it.
Delivered(p, n) == n # Gone /\ n.apps = p.apps /\ n.scope = p.scope

\* Mutant: the gateway counts as verified when it has the policy.
VerifiedIfDelivered(local) == Delivered(plan.after, local[plan.id])

\* gateway_ok: delivered, the rest of the policy preserved, no other touched.
GatewayVerified(local) ==
    /\ Delivered(plan.after, local[plan.id])
    /\ local[plan.id] = [before[plan.id] EXCEPT !.apps = plan.after.apps]
    /\ \A i \in Ids \ {plan.id} : local[i] = before[i]

-----------------------------------------------------------------------------
(* Planning. *)

\* policies() and make_plan: some of the applications of an enabled block
\* policy with an explicit scope are taken out, not all.  A buggy caller may
\* hand apply a plan with another scope.
Preview(i, keep) ==
    /\ stage = "idle"
    /\ WebAnswers
    /\ cloud[i] # Gone /\ cloud[i].scope \in Explicit
    /\ keep # {} /\ keep \subseteq cloud[i].apps /\ keep # cloud[i].apps
    /\ \E scope \in IF BuggyCaller THEN Scopes ELSE {cloud[i].scope} :
         plan' = [rows |-> cloud, id |-> i, before |-> cloud[i],
                  after |-> [apps |-> keep, scope |-> scope]]
    /\ verdict' = Verdict("none", FALSE, FALSE)
    /\ written' = 0 /\ alone' = TRUE /\ replayed' = FALSE
    /\ before' = Nothing
    /\ UNCHANGED <<world, stage, read, readStamp, tries, cloudOk, moved>>

\* The read of policies() fails; login may have got through.
PreviewFails ==
    /\ stage = "idle" /\ WebRaises
    /\ UNCHANGED <<world, plan, stage, locals, verdict, past, moved>>

-----------------------------------------------------------------------------
(* apply. *)

Stays == UNCHANGED <<world, plan, past>>
Moves(s) == stage' = s /\ UNCHANGED verdict
\* apply raises; its locals are gone.
Refuses ==
    /\ stage' = "idle" /\ verdict' = Verdict("error", FALSE, FALSE)
    /\ read' = Nothing /\ readStamp' = FALSE /\ before' = Nothing
    /\ tries' = 0 /\ cloudOk' = FALSE /\ moved' = FALSE

Apply ==
    /\ stage = "idle" /\ plan # NoPlan
    /\ stage' = "drift" /\ verdict' = Verdict("none", FALSE, FALSE)
    /\ Stays /\ UNCHANGED <<webVars, locals, moved>>

\* Mutant: the plan is applied to whatever is there.
InSyncAlways == TRUE

\* Mutant: only the policy of the plan is compared with the preview.
InSyncTarget == cloud[plan.id] = plan.before

\* The cloud still has the policies of the preview.
InSync == Revision(cloud, stamp) = Revision(plan.rows, stamp)

CheckRevision ==
    /\ stage = "drift"
    /\ WebAnswers
    /\ \/ /\ InSync
          /\ read' = cloud /\ readStamp' = stamp /\ moved' = FALSE
          /\ replayed' = (replayed \/ underway = PatchOf(plan))
          /\ Moves("native")
          /\ UNCHANGED <<before, tries, cloudOk>>
       \/ ~InSync /\ Refuses /\ UNCHANGED replayed
    /\ UNCHANGED <<world, plan, written, alone>>

\* Nothing but the list of applications may change.
AppsOnly == plan.after.scope = plan.before.scope

\* gateway_read, of a gateway with the serial of the inventory, and the check
\* of the plan; login has nothing left to do.
CheckNative(rightSerial) ==
    /\ stage = "native"
    /\ LET ok == rightSerial /\ Delivered(plan.before, native[plan.id]) /\ AppsOnly
       IN  \/ /\ ok /\ before' = native /\ Moves("write")
              /\ UNCHANGED <<read, readStamp, tries, cloudOk, moved>>
           \/ ~ok /\ Refuses
    /\ Stays /\ UNCHANGED webVars

\* before_write refuses, or the cloud does, or the request never gets there.
WriteFails ==
    /\ stage = "write"
    /\ Refuses
    /\ Stays /\ UNCHANGED webVars

\* What a write does to the cloud.
Executes(patch) ==
    /\ cloud[patch.id] # Gone
    /\ cloud' = [cloud EXCEPT ![patch.id] = patch.after]
    /\ stamp' = ~stamp
WrittenMore == IF written = 2 THEN 2 ELSE written + 1

\* The cloud replaces the policy; its answer, or on_verifying, may fail.
Write ==
    /\ stage = "write" /\ session = "live"
    /\ Executes(PatchOf(plan))
    /\ written' = WrittenMore
    /\ \/ Moves("reread") /\ UNCHANGED <<locals, moved>>
       \/ Refuses
    /\ UNCHANGED <<native, underway, webVars, plan, alone, replayed>>

\* The write times out, and apply raises before the cloud has come to it.
WriteTimesOut ==
    /\ stage = "write" /\ session = "live" /\ underway = NoPatch
    /\ underway' = PatchOf(plan)
    /\ Refuses
    /\ UNCHANGED <<cloud, stamp, native, webVars, plan, past>>

\* policies() again.
Reread ==
    /\ stage = "reread"
    /\ WebAnswers
    /\ cloudOk' = (Revision(cloud, stamp)
                     = Revision([read EXCEPT ![plan.id] = plan.after], readStamp))
    /\ tries' = 0
    /\ Moves("verify")
    /\ Stays /\ UNCHANGED <<read, readStamp, before, moved>>

Conclude(local) == Verdict("report", cloudOk, GatewayVerified(local))

LastTry == tries = 2

\* The gateway is read up to three times, until it has the policy.
Verify ==
    /\ stage = "verify"
    /\ \/ /\ Delivered(plan.after, native[plan.id]) \/ LastTry
          /\ verdict' = Conclude(native) /\ stage' = "idle"
          /\ read' = Nothing /\ readStamp' = FALSE /\ tries' = 0 /\ cloudOk' = FALSE
          /\ moved' = FALSE
       \/ /\ ~Delivered(plan.after, native[plan.id]) /\ ~LastTry
          /\ tries' = tries + 1
          /\ Moves("verify")
          /\ UNCHANGED <<read, readStamp, cloudOk, moved>>
    /\ Stays /\ UNCHANGED <<webVars, before>>

\* A read of the cloud or of the gateway fails, whatever was written.
ControlReadFails ==
    /\ \/ stage \in {"drift", "reread"} /\ WebRaises
       \/ stage \in {"native", "verify"} /\ UNCHANGED webVars
    /\ Refuses
    /\ Stays

-----------------------------------------------------------------------------
(* The cloud comes to a write that apply gave up on.  The write of an earlier *)
(* plan is to this one like the edit of another. *)

LateWrite ==
    /\ underway # NoPatch /\ Executes(underway)
    /\ underway' = NoPatch
    /\ \/ underway = PatchOf(plan) /\ written' = WrittenMore
          /\ UNCHANGED <<alone, moved>>
       \/ /\ underway # PatchOf(plan)
          /\ alone' = FALSE /\ moved' = (stage # "idle") /\ UNCHANGED written
    /\ UNCHANGED <<native, webVars, plan, stage, locals, verdict, replayed>>

\* It is refused, or lost.
LateWriteDropped ==
    /\ underway # NoPatch /\ underway' = NoPatch
    /\ UNCHANGED <<cloud, stamp, native, webVars, plan, stage, locals, verdict, past, moved>>

-----------------------------------------------------------------------------
(* Everybody else. *)

OthersLeave == UNCHANGED <<underway, plan, stage, locals, verdict, written, replayed>>

EditCloud(i) ==
    /\ \E p \in OtherPolicies[i] \ {cloud[i]} : cloud' = [cloud EXCEPT ![i] = p]
    /\ stamp' = ~stamp
    /\ alone' = FALSE /\ moved' = (stage # "idle")
    /\ OthersLeave /\ UNCHANGED <<native, webVars>>

\* A policy is saved again without a change.
Restamp ==
    /\ stamp' = ~stamp
    /\ OthersLeave /\ UNCHANGED <<cloud, native, webVars, alone, moved>>

\* The cloud delivers a policy that the gateway does not have; the gateway
\* works out the effect.
Deliver(i) ==
    /\ \/ /\ cloud[i] = Gone /\ native[i] # Gone
          /\ native' = [native EXCEPT ![i] = Gone]
       \/ /\ cloud[i] # Gone /\ ~Delivered(cloud[i], native[i])
          /\ \E e \in Effects :
               native' = [native EXCEPT ![i] = [apps |-> cloud[i].apps,
                                                scope |-> cloud[i].scope, effect |-> e]]
    /\ OthersLeave /\ UNCHANGED <<cloud, stamp, webVars, alone, moved>>

EditNative(i) ==
    /\ native[i] # Gone
    /\ \E e \in Effects \ {native[i].effect} : native' = [native EXCEPT ![i].effect = e]
    /\ alone' = FALSE
    /\ OthersLeave /\ UNCHANGED <<cloud, stamp, webVars, moved>>

ConsoleLogsOut ==
    SessionEnds /\ UNCHANGED <<world, plan, stage, locals, verdict, past, moved>>

ControlNext ==
    \/ \E i \in Ids, keep \in SUBSET Apps : Preview(i, keep)
    \/ PreviewFails \/ Apply \/ CheckRevision
    \/ Write \/ WriteFails \/ WriteTimesOut \/ LateWrite \/ LateWriteDropped
    \/ Reread \/ Verify \/ ControlReadFails
    \/ \E rightSerial \in BOOLEAN : CheckNative(rightSerial)
    \/ \E i \in Ids : EditCloud(i) \/ Deliver(i) \/ EditNative(i)
    \/ Restamp \/ ConsoleLogsOut

ControlSpec == ControlInit /\ [][ControlNext]_controlVars

-----------------------------------------------------------------------------
(* Properties. *)

\* Every variable keeps its type.
ControlTypeOK ==
    /\ cloud \in [Ids -> Policy \cup {Gone}]
    /\ native \in [Ids -> Native \cup {Gone}]
    /\ stamp \in BOOLEAN /\ readStamp \in BOOLEAN
    /\ authed \in BOOLEAN /\ session \in {"none", "live", "dead"}
    /\ plan \in Plan \cup {NoPlan} /\ underway \in Patch \cup {NoPatch}
    /\ stage \in {"idle", "drift", "native", "write", "reread", "verify"}
    /\ stage # "idle" \/ underway # NoPatch => plan # NoPlan
    /\ read \in [Ids -> Policy \cup {Gone}]
    /\ before \in [Ids -> Native \cup {Gone}]
    /\ tries \in 0..2
    /\ cloudOk \in BOOLEAN
    /\ verdict \in [how: {"none", "error", "report"}, cloud: BOOLEAN, gateway: BOOLEAN]
    /\ written \in 0..2
    /\ alone \in BOOLEAN /\ moved \in BOOLEAN /\ replayed \in BOOLEAN

\* A plan that is applied again, after its answer was lost say, is written once
\* only, as long as nobody else edits a policy: the revision check sees the first
\* write.  It cannot see one that the cloud has still to execute, and callers
\* must not replay that (site_control.py 5-6, README.md 380-382): a plan that
\* passed the check while it was under way is exempt.
WrittenOnce == alone /\ ~replayed => written <= 1

\* A write of apply finds the policies of the preview in the cloud and changes
\* nothing but the applications of one, unless another edit, or the late write of
\* an earlier plan, came after apply read them (README.md 379, site_control.py
\* 189): drift before that read is refused.
WritesAsPreviewed ==
    [][cloud' # cloud /\ stage = "write" /\ stage' # "write" /\ ~moved
         => /\ cloud = plan.rows
            /\ cloud' = [cloud EXCEPT ![plan.id].apps = plan.after.apps]]_controlVars

\* As long as nobody else edits a policy, and no write of an earlier plan comes
\* through, a report says that the cloud is verified, whatever the update times;
\* and when it says so of the gateway, the policy is in force there with its new
\* applications and as it was otherwise (site_control.py 218-257).
ReportsInForce ==
    alone /\ verdict.how = "report" =>
        /\ verdict.cloud
        /\ verdict.gateway =>
             native[plan.id] = [before[plan.id] EXCEPT !.apps = plan.after.apps]
==============================================================================
