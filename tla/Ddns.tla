--------------------------------- MODULE Ddns ---------------------------------
(***************************************************************************)
(* get_ddns and enumerate_ddns (ddns.py 167-190): the DDNS bindings of     *)
(* many gateways, read one after another through the web session, while    *)
(* bindings are made and removed at the console and the session may end.   *)
(***************************************************************************)
EXTENDS WebSession, Naturals, FiniteSets

CONSTANTS
    Sns,         \* serial numbers
    Names,       \* host names
    Unbound      \* no binding: rr is empty

ASSUME DdnsAssumption == Unbound \notin Names

VARIABLES
    bound,       \* the cloud: [Sns -> Names \cup {Unbound}]
    ddnsStep,    \* control state of enumerate_ddns
    unread,      \* the serials that are still to be read
    records,     \* out: pairs of a serial and a name, or Unbound
    ddnsEnd,     \* how the last enumeration ended
    held         \* history: [Sns -> what was bound since the enumeration began]

ddnsVars == <<webVars, bound, ddnsStep, unread, records, ddnsEnd, held>>

Bindings == Names \cup {Unbound}

DdnsInit ==
    /\ WebInit
    /\ bound = [s \in Sns |-> Unbound]
    /\ ddnsStep = "idle" /\ unread = {} /\ records = {} /\ ddnsEnd = "none"
    /\ held = [s \in Sns |-> {}]

\* enumerate_ddns is called, in some order of the serials.
Enumerate(serials) ==
    /\ ddnsStep = "idle"
    /\ ddnsStep' = "next" /\ unread' = serials /\ records' = {} /\ ddnsEnd' = "none"
    /\ held' = [s \in Sns |-> {bound[s]}]
    /\ UNCHANGED <<webVars, bound>>

\* On to the next serial.
GoesPast(s) == unread' = unread \ {s} /\ UNCHANGED <<ddnsStep, ddnsEnd>>

\* The answer has data: a record with the binding, or without one.
ReadRecord(s) ==
    /\ ddnsStep = "next" /\ s \in unread
    /\ WebAnswers
    /\ records' = records \cup {<<s, bound[s]>>}
    /\ GoesPast(s)
    /\ UNCHANGED <<bound, held>>

\* Mutant: without data, the record of another gateway is kept.
KeepsLastRecord(s) == {<<s, r[2]>> : r \in records}

\* get_ddns without data: nothing looks at the code, and rr is empty, which the
\* caller takes for "unconfigured" (ddns.py 56-57, 168).
BlankRecord(s) == {<<s, Unbound>>}

\* The cloud declines the call: an error code and no data.
ReadBlank(s) ==
    /\ ddnsStep = "next" /\ s \in unread
    /\ WebDeclines
    /\ records' = records \cup BlankRecord(s)
    /\ GoesPast(s)
    /\ UNCHANGED <<bound, held>>

\* HTTPError, DdnsError or ValueError: the serial is left out.  A declined call
\* raises none of them.
SkipSerial(s) ==
    /\ ddnsStep = "next" /\ s \in unread
    /\ WebRaises
    /\ GoesPast(s)
    /\ UNCHANGED <<bound, records, held>>

\* A broken connection or a timeout is none of these: the enumeration raises.
Escape(s) ==
    /\ ddnsStep = "next" /\ s \in unread
    /\ WebRaises
    /\ ddnsStep' = "idle" /\ ddnsEnd' = "error" /\ records' = {} /\ unread' = {}
    /\ UNCHANGED <<bound, held>>

ReturnRecords ==
    /\ ddnsStep = "next" /\ unread = {}
    /\ ddnsStep' = "idle" /\ ddnsEnd' = "ok"
    /\ UNCHANGED <<webVars, bound, unread, records, held>>

EnumerationStep ==
    \/ \E s \in Sns : ReadRecord(s) \/ ReadBlank(s) \/ SkipSerial(s) \/ Escape(s)
    \/ ReturnRecords

\* At the console a name is bound or unbound.
Bind(s, b) ==
    /\ bound[s] # b
    /\ bound' = [bound EXCEPT ![s] = b]
    /\ held' = IF ddnsStep = "next" THEN [held EXCEPT ![s] = @ \cup {b}] ELSE held
    /\ UNCHANGED <<webVars, ddnsStep, unread, records, ddnsEnd>>

ConsoleSessionEnds ==
    SessionEnds /\ UNCHANGED <<bound, ddnsStep, unread, records, ddnsEnd, held>>

DdnsNext ==
    \/ \E serials \in SUBSET Sns : Enumerate(serials)
    \/ EnumerationStep
    \/ \E s \in Sns, b \in Bindings : Bind(s, b)
    \/ ConsoleSessionEnds

DdnsSpec == DdnsInit /\ [][DdnsNext]_ddnsVars

-----------------------------------------------------------------------------
(* Properties. *)

\* Every variable keeps its type, and no serial has two records.
DdnsTypeOK ==
    /\ authed \in BOOLEAN /\ session \in {"none", "live", "dead"}
    /\ bound \in [Sns -> Bindings]
    /\ ddnsStep \in {"idle", "next"} /\ ddnsEnd \in {"none", "ok", "error"}
    /\ unread \subseteq Sns
    /\ records \subseteq Sns \X Bindings
    /\ \A r, q \in records : r[1] = q[1] => r = q
    /\ held \in [Sns -> SUBSET Bindings]

\* A gateway is never shown with a name that it did not have at some moment of
\* the enumeration, nor with that of another (ddns.py 167-190).  Of a record
\* without a name nothing is said: it may stand for a call that was declined, as
\* every call is once the session that login set up has died (ddns.py 94-96).
NamesWereBound == \A r \in records : r[2] # Unbound => r[2] \in held[r[1]]
==============================================================================
