------------------------------ MODULE WanPrimary ------------------------------
(***************************************************************************)
(* The load-balance policy of a gateway's WAN lines and the calls that     *)
(* read it and move its master bit (wan_loadbalance.py) through            *)
(* GatewayClient.cmd_checked (gateway.py), which takes a read timeout of   *)
(* any command for its success.  The gateway applies what it is sent in    *)
(* its own time, and others save policies too.                             *)
(***************************************************************************)
EXTENDS Naturals, Sequences

CONSTANTS
    Lines,         \* interface names
    Bands,         \* the bandwidths of a line
    Settings,      \* the fields of a policy that are not lines
    OtherWans,     \* the policies that others save
    NoWan,         \* no policy: no answer, nothing to send, no result
    MaxPushed      \* bounds what the gateway has taken and not applied yet

Line == [ifname: Lines, m: BOOLEAN, band: Bands]
Wan == [list: SUBSET Line, settings: Settings]


Masters(w) == {l \in w.list : l.m}
\* One line has the bit, and no two have one name.
OneMaster(w) == /\ \E l \in w.list : Masters(w) = {l}
                /\ \A k, l \in w.list : k.ifname = l.ifname => k = l

ASSUME WanAssumption ==
    /\ OtherWans \subseteq Wan
    /\ \A w \in OtherWans : OneMaster(w)
    /\ NoWan \notin Wan
    /\ MaxPushed \in Nat \ {0}

VARIABLES
    wan,         \* the gateway's policy
    pushed,      \* the saves it has taken and not applied yet
    wanStep,     \* control state
    primary,     \* primary_ifname
    payload,     \* the save to send
    wanResult,   \* the policy that the last call returned
    wanEnd,      \* how the last call ended
    shown        \* history: the policies the gateway had during the last call

wanVars == <<wan, pushed, wanStep, primary, payload, wanResult, wanEnd, shown>>

WanInit ==
    /\ wan \in OtherWans
    /\ pushed = <<>>
    /\ wanStep = "idle" /\ primary \in Lines /\ payload = NoWan
    /\ wanResult = NoWan /\ wanEnd = "none" /\ shown = {}

-----------------------------------------------------------------------------
(* The policy. *)

\* An answer without data, which is all that a timed-out read leaves.
Blank == [list |-> {}, settings |-> CHOOSE s \in Settings : TRUE]

\* master_ifname, of a policy with at most one master.
HasMaster(w, line) == \E l \in Masters(w) : l.ifname = line

\* build_master_swap_payload: the bit on the line, and on no other.
Swap(w, line) == [w EXCEPT !.list = {[l EXCEPT !.m = l.ifname = line] : l \in w.list}]

\* Mutant: a line that is not configured is not refused.
KnownAlways(w, line) == TRUE

Known(w, line) == \E l \in w.list : l.ifname = line

-----------------------------------------------------------------------------
(* The calls. *)

WanEnds(how, result) ==
    /\ wanStep' = "idle" /\ wanEnd' = how /\ wanResult' = result /\ payload' = NoWan

\* get_wan_loadbalance or set_wan_primary is called.
WanCall(step, line) ==
    /\ wanStep = "idle" /\ step \in {"read", "confirm"}
    /\ wanStep' = step /\ primary' = line
    /\ wanEnd' = "none" /\ wanResult' = NoWan /\ shown' = {wan}
    /\ UNCHANGED <<wan, pushed, payload>>

\* What cmd_checked returns for a read: the policy, or nothing in time.
Answers == {wan, Blank}

\* The first read: already the master, or not a line, or a payload.
ReadMaster ==
    /\ wanStep = "read"
    /\ \E current \in Answers :
         \/ HasMaster(current, primary) /\ WanEnds("ok", current)
         \/ ~HasMaster(current, primary) /\ ~Known(current, primary) /\ WanEnds("error", NoWan)
         \/ /\ ~HasMaster(current, primary) /\ Known(current, primary)
            /\ payload' = Swap(current, primary)
            /\ wanStep' = "write" /\ UNCHANGED <<wanEnd, wanResult>>
    /\ UNCHANGED <<wan, pushed, primary, shown>>

\* A read is answered with an error, or the connection breaks.
WanReadFails ==
    /\ wanStep \in {"read", "confirm"}
    /\ WanEnds("error", NoWan)
    /\ UNCHANGED <<wan, pushed, primary, shown>>

\* devConfig.set: the gateway takes the save or not; the call goes on after an
\* answer or a timeout and raises otherwise.
WritePolicy ==
    /\ wanStep = "write"
    /\ \/ Len(pushed) < MaxPushed /\ pushed' = Append(pushed, payload)
       \/ UNCHANGED pushed
    /\ \/ WanEnds("error", NoWan)
       \/ wanStep' = "confirm" /\ UNCHANGED <<payload, wanEnd, wanResult>>
    /\ UNCHANGED <<wan, primary, shown>>

\* Mutant: when the confirmation times out, the write is taken as read.
ConfirmedOrSent == {wan, IF payload = NoWan THEN Blank ELSE payload}

Confirmed == Answers

\* get_wan_loadbalance: what is there now, or a policy with nothing in it.
ConfirmPolicy ==
    /\ wanStep = "confirm"
    /\ \E answer \in Confirmed : WanEnds("ok", answer)
    /\ UNCHANGED <<wan, pushed, primary, shown>>

-----------------------------------------------------------------------------
(* The gateway and its other users. *)

Saved(w) ==
    /\ wan' = w
    /\ shown' = IF wanStep = "idle" THEN shown ELSE shown \cup {w}
    /\ UNCHANGED <<wanStep, primary, payload, wanResult, wanEnd>>

\* The gateway applies the oldest save.
GatewaySaves ==
    /\ pushed # <<>>
    /\ Saved(Head(pushed)) /\ pushed' = Tail(pushed)

OthersSave(w) ==
    /\ w # wan
    /\ Saved(w) /\ UNCHANGED pushed

WanNext ==
    \/ \E step \in {"read", "confirm"}, line \in Lines : WanCall(step, line)
    \/ ReadMaster \/ WanReadFails \/ WritePolicy \/ ConfirmPolicy
    \/ GatewaySaves
    \/ \E w \in OtherWans : OthersSave(w)

WanSpec == WanInit /\ [][WanNext]_wanVars

-----------------------------------------------------------------------------
(* Properties. *)

\* Every variable keeps its type.
WanTypeOK ==
    /\ wan \in Wan
    /\ pushed \in Seq(Wan) /\ Len(pushed) <= MaxPushed
    /\ wanStep \in {"idle", "read", "write", "confirm"}
    /\ primary \in Lines
    /\ payload \in Wan \cup {NoWan}
    /\ wanStep = "write" => payload # NoWan
    /\ wanResult \in Wan \cup {NoWan}
    /\ wanEnd \in {"none", "ok", "error"}
    /\ shown \subseteq Wan

\* The gateway always has one master, among its lines: a read that timed out,
\* and comes back as a policy with nothing in it, is never swapped and saved
\* (wan_loadbalance.py 110-112).
AlwaysOneMaster == OneMaster(wan)

\* A call that returns a policy with a master returns one that the gateway had
\* during that call: a write that timed out never passes for done because it
\* was sent (wan_loadbalance.py 135-146).
MasterWasSeen ==
    wanEnd = "ok" /\ Masters(wanResult) # {} => wanResult \in shown
==============================================================================
