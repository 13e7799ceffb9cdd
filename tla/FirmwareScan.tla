----------------------------- MODULE FirmwareScan -----------------------------
(***************************************************************************)
(* scan_firmware and probe_firmware (firmware.py): a pool of workers reads *)
(* the login page of every target, each probe under a deadline of its own, *)
(* following few redirects on the same host, and asks the catalog about    *)
(* what the page shows.  A timeout bounds each wait of a call, not the sum.*)
(***************************************************************************)
EXTENDS FirmwareCatalog

CONSTANTS
    Targets,     \* the targets in order, each once
    Pages,       \* what a target's page shows
    Absent,      \* the page does not show a model, or a version
    Workers,
    TimeLimit,   \* timeout
    Hops,        \* _MAX_REDIRECT_HOPS
    Chunks,      \* the reads within _MAX_LOGIN_PAGE_BYTES
    Drips        \* the waits of one request or of one read, at most

Hosts == {Targets[i] : i \in DOMAIN Targets}
\* "framed": the response declares its length, or comes in chunks.
Page == [framed: BOOLEAN, ruijie: BOOLEAN,
         model: Models \cup {Absent}, version: Versions \cup {Absent}]

ASSUME ScanAssumption ==
    /\ Targets \in Seq(Hosts) /\ Pages \in [Hosts -> Page]
    /\ Workers \in Nat \ {0} /\ TimeLimit \in Nat \ {0} /\ Hops \in Nat
    /\ Chunks \in Nat \ {0} /\ Drips \in Nat \ {0}

VARIABLES
    scan,        \* "idle", "running", "ok" or "error"
    waiting,     \* the targets no worker has taken
    at,          \* [Hosts -> control state of the probe]
    spent,       \* [Hosts -> time since the probe started]
    allowed,     \* [Hosts -> the timeout in force]
    drips,       \* [Hosts -> waits since it was set]
    hops,        \* [Hosts -> redirects followed]
    chunks,      \* [Hosts -> chunks of the page read]
    found,       \* [Hosts -> the status of the result]
    whole        \* history: [Hosts -> the page was read to its end]

probeVars == <<at, spent, allowed, drips, hops, chunks, found, whole>>
scanVars == <<catalogVars, scan, waiting, probeVars>>

ForAll(v) == [t \in Hosts |-> v]
Busy == {t \in Hosts : at[t] \in {"open", "body"}}

ScanInit ==
    /\ CatalogInit
    /\ scan = "idle" /\ waiting = <<>>
    /\ at = ForAll("queued") /\ spent = ForAll(0) /\ allowed = ForAll(0) /\ drips = ForAll(0)
    /\ hops = ForAll(0) /\ chunks = ForAll(0) /\ found = ForAll("none")
    /\ whole = ForAll(FALSE)

\* scan_firmware is called.
Scan ==
    /\ scan # "running" /\ loaded = "ok"
    /\ scan' = "running" /\ waiting' = Targets
    /\ at' = ForAll("queued") /\ spent' = ForAll(0) /\ allowed' = ForAll(0)
    /\ drips' = ForAll(0) /\ hops' = ForAll(0) /\ chunks' = ForAll(0)
    /\ found' = ForAll("none") /\ whole' = ForAll(FALSE)
    /\ UNCHANGED catalogVars

Sets(t, s) == at' = [at EXCEPT ![t] = s]

\* The probe returns a result, or an exception escapes from it.
Gives(t, status) ==
    /\ Sets(t, "done") /\ found' = [found EXCEPT ![t] = status]
    /\ UNCHANGED <<allowed, drips>>

\* Mutant: every wait is given the whole of the timeout.
LeftAlways(t) == TimeLimit

\* _remaining_timeout
Left(t) == TimeLimit - spent'[t]

\* Time is left: a timeout of all of it.  None is left: TimeoutError.
Continues(t, s) ==
    LET left == Left(t)
    IN  \/ /\ left > 0
           /\ Sets(t, s) /\ allowed' = [allowed EXCEPT ![t] = left]
           /\ drips' = [drips EXCEPT ![t] = 0] /\ UNCHANGED found
        \/ left <= 0 /\ Gives(t, "unreachable")

\* A worker takes the next target; an address that is none ends the probe.
TakeTarget(valid) ==
    /\ scan = "running" /\ waiting # <<>> /\ Cardinality(Busy) < Workers
    /\ LET t == Head(waiting)
       IN  /\ waiting' = Tail(waiting)
           /\ UNCHANGED <<catalogVars, scan, spent, hops, chunks, whole>>
           /\ \/ ~valid /\ Gives(t, "invalid_target")
              \/ valid /\ Continues(t, "open")

\* d passes at the probe of t.
Elapse(t, d) ==
    /\ spent' = [spent EXCEPT ![t] = @ + d]
    /\ UNCHANGED <<catalogVars, scan, waiting>>

\* The connection is made, or some bytes arrive.
Drip(t, d) ==
    /\ t \in Busy /\ drips[t] + 1 < Drips
    /\ Elapse(t, d) /\ drips' = [drips EXCEPT ![t] = @ + 1]
    /\ UNCHANGED <<at, allowed, hops, chunks, found, whole>>

\* The request fails: the transport, an HTTP error, no time.
ProbeFails(t, d) ==
    /\ t \in Busy
    /\ Elapse(t, d) /\ Gives(t, "unreachable")
    /\ UNCHANGED <<hops, chunks, whole>>

\* What the page shows.
StatusOf(p) ==
    CASE ~p.ruijie -> "not_ruijie"
      [] p.ruijie /\ p.model = Absent -> "unrecognized"
      [] p.ruijie /\ p.model # Absent /\ p.version = Absent -> "manual_review"
      [] OTHER -> Evaluate(catalog, p.model, p.version).status

\* What becomes of a page that was read to its end.  A framed response closes
\* itself with its last bytes; the loop asks for more and finds no socket to
\* set a timeout on, an OSError.
PageStatus(t) == IF Pages[t].framed THEN "unreachable" ELSE StatusOf(Pages[t])

\* Mutant: a timeout in the body ends the page.
TimeoutStatusJudged(t) ==
    IF at[t] = "body" THEN StatusOf(Pages[t]) ELSE "unreachable"

TimeoutStatus(t) == "unreachable"

\* Mutant: only the body's reads time out.
WaitsEndInBody(t) == at[t] = "body"

\* The probe has a timeout in force.
WaitsEnd(t) == t \in Busy

\* Nothing arrives for as long as the timeout in force.
ProbeTimesOut(t) ==
    /\ WaitsEnd(t)
    /\ Elapse(t, allowed[t]) /\ Gives(t, TimeoutStatus(t))
    /\ UNCHANGED <<hops, chunks, whole>>

\* Something is raised that probe_firmware does not catch, say for a host name
\* that cannot be encoded.
ProbeEscapes(t, d) ==
    /\ at[t] = "open"
    /\ Elapse(t, d) /\ Gives(t, "raised")
    /\ UNCHANGED <<hops, chunks, whole>>

\* redirect_request: the target's own host, and not too often.
Follows(t, host) == host = t /\ hops[t] < Hops

\* http_error_302: the next request, with what time is left.
Redirected(t, d, host) ==
    /\ at[t] = "open"
    /\ Elapse(t, d)
    /\ \/ /\ Follows(t, host)
          /\ Continues(t, "open")
          /\ hops' = [hops EXCEPT ![t] = @ + 1]
       \/ ~Follows(t, host) /\ Gives(t, "unreachable") /\ UNCHANGED hops
    /\ UNCHANGED <<chunks, whole>>

\* The page begins: _read_login_page.
Opened(t, d) ==
    /\ at[t] = "open"
    /\ Elapse(t, d)
    /\ Continues(t, "body")
    /\ UNCHANGED <<hops, chunks, whole>>

\* A chunk was read; one too many makes the page unrecognized.
ChunkRead(t, d) ==
    /\ at[t] = "body"
    /\ Elapse(t, d)
    /\ chunks' = [chunks EXCEPT ![t] = @ + 1]
    /\ \/ chunks[t] = Chunks /\ Gives(t, "unrecognized")
       \/ chunks[t] < Chunks /\ Continues(t, "body")
    /\ UNCHANGED <<hops, whole>>

\* The page is complete.
PageRead(t, d) ==
    /\ at[t] = "body"
    /\ Elapse(t, d)
    /\ Gives(t, PageStatus(t))
    /\ whole' = [whole EXCEPT ![t] = TRUE]
    /\ UNCHANGED <<hops, chunks>>

\* The pool is left when no probe is running; list() raises what one raised.
ScanReturns ==
    /\ scan = "running" /\ waiting = <<>> /\ Busy = {}
    /\ scan' = IF \E t \in Hosts : found[t] = "raised" THEN "error" ELSE "ok"
    /\ UNCHANGED <<catalogVars, waiting, probeVars>>

ProbeAdvances(t) ==
    \E d \in 1..TimeLimit :
        /\ d <= allowed[t]
        /\ \/ Drip(t, d) \/ ProbeFails(t, d) \/ ProbeEscapes(t, d)
           \/ \E host \in Hosts : Redirected(t, d, host)
           \/ Opened(t, d) \/ ChunkRead(t, d) \/ PageRead(t, d)

ScanNext ==
    \/ Load /\ UNCHANGED <<scan, waiting, probeVars>>
    \/ Scan \/ ScanReturns
    \/ \E valid \in BOOLEAN : TakeTarget(valid)
    \/ \E t \in Hosts : ProbeAdvances(t) \/ ProbeTimesOut(t)

\* The workers run and their waits end; a target owes nothing.
Progress ==
    \/ \E valid \in BOOLEAN : TakeTarget(valid)
    \/ \E t \in Hosts : ProbeTimesOut(t)
    \/ ScanReturns
ScanFairness == WF_scanVars(Progress)

ScanSpec == ScanInit /\ [][ScanNext]_scanVars /\ ScanFairness

-----------------------------------------------------------------------------
(* Properties. *)

\* Every variable keeps its type.
ScanTypeOK ==
    /\ CatalogTypeOK
    /\ scan \in {"idle", "running", "ok", "error"}
    /\ waiting \in Seq(Hosts)
    /\ at \in [Hosts -> {"queued", "open", "body", "done"}]
    /\ spent \in [Hosts -> Nat] /\ allowed \in [Hosts -> 0..TimeLimit]
    /\ drips \in [Hosts -> 0..Drips] /\ hops \in [Hosts -> 0..Hops]
    /\ chunks \in [Hosts -> 0..Chunks + 1]
    /\ whole \in [Hosts -> BOOLEAN]

Judged == {"compliant", "update_required", "manual_review", "unsupported"}

\* A scan that returns has a result of its own for every target, judged only
\* by the catalog if its page was read to the end in time (firmware.py 360-391).
JudgedByWholePages ==
    /\ scan = "ok" => \A t \in Hosts : at[t] = "done"
    /\ \A t \in Hosts : found[t] \in Judged => whole[t]

\* A probe overruns its deadline by the waits of its last request or read at
\* most, each within the time that was left when it began (firmware.py 536-540).
ProbeBounded == \A t \in Hosts : spent[t] <= Drips * TimeLimit

\* "can be identified directly on the site LAN ... parses the model and version
\* exposed by the local login page" (README.md 93-96): a page that was read to
\* its end in time is not reported as one that could not be read (firmware.py 571-584).
PagesReadAreReported ==
    \A t \in Hosts : whole[t] /\ spent[t] < TimeLimit => found[t] # "unreachable"

\* Every scan ends, with fewer workers than targets and whatever these do.
ScanEnds == scan = "running" ~> scan # "running"
==============================================================================
