--------------------------- MODULE GatewayEvidence ---------------------------
(***************************************************************************)
(* Two read-only inspections of a gateway under a deadline.                *)
(* inspect_intercom_path (intercom_diagnostics.py) reads sections one      *)
(* after another and keeps what it gets; read_wan_configuration            *)
(* (wan_evidence.py) needs both of its sections.  A call is given a        *)
(* timeout, which bounds each of its waits and not their sum.              *)
(***************************************************************************)
EXTENDS Naturals, FiniteSets

CONSTANTS
    Sections,       \* sections of an intercom inspection, read in this order: 1..Sections
    Deadline,       \* deadline_seconds of an intercom inspection
    Cap,            \* the most that one of its calls is given
    WanDeadline,    \* deadline_seconds of a WAN read
    Pieces,         \* the pieces in which an answer arrives, at most
    Default         \* the timeout of a client that is given none

WanSections == 2    \* network and mllb

ASSUME EvidenceAssumption ==
    /\ Sections \in Nat /\ Deadline \in Nat \ {0} /\ WanDeadline \in Nat \ {0}
    /\ Cap \in Nat \ {0} /\ Pieces \in Nat \ {0}
    /\ Default \in Nat \ {0}

VARIABLES
    task,        \* the inspection
    now,         \* time since it was called
    section,     \* the section to read, or that is being read
    step,        \* control state
    limit,       \* the timeout of the call under way
    waits,       \* its waits that are over: for the connection, then for pieces
    evidence,    \* the sections that were read
    errors,      \* result["errors"]
    outcome,     \* how the inspection ended
    asked        \* history: the sections the gateway was asked for

evidenceVars == <<task, now, section, step, limit, waits, evidence, errors, outcome, asked>>

EvidenceInit ==
    /\ task \in {"intercom", "wan"}
    /\ now = 0 /\ section = 1 /\ step = "idle" /\ limit = 0 /\ waits = 0
    /\ evidence = {} /\ errors = {} /\ outcome = "none" /\ asked = {}

Due == IF task = "intercom" THEN Deadline ELSE WanDeadline
LastSection == IF task = "intercom" THEN Sections ELSE WanSections

\* Called; a WAN read wants the serial of the inventory first.
Inspect(t, rightSerial) ==
    /\ step = "idle"
    /\ task' = t /\ now' = 0 /\ section' = 1 /\ limit' = 0 /\ waits' = 0
    /\ evidence' = {} /\ errors' = {} /\ asked' = {}
    /\ IF t = "wan" /\ ~rightSerial THEN step' = "idle" /\ outcome' = "error"
                                    ELSE step' = "next" /\ outcome' = "none"

\* Mutant: each call is given the whole of the cap.
TimeoutAlwaysCap == Cap

\* What a call is given: what is left, of an intercom inspection a part of it.
Timeout == LET left == Due - now
           IN  IF task = "intercom" /\ Cap < left THEN Cap ELSE left

\* GatewayClient.cmd: no time is no timeout of its own.
Given == IF Timeout = 0 THEN Default ELSE Timeout

Late == now >= Due

\* Mutant: one section that fails costs those after it.
LoseSectionAndRest ==
    \/ /\ task = "wan" /\ step' = "idle" /\ outcome' = "error"
       /\ UNCHANGED <<section, errors>>
    \/ /\ task = "intercom" /\ step' = "next"
       /\ errors' = errors \cup section..LastSection /\ section' = LastSection + 1
       /\ UNCHANGED outcome

\* Mutant: one section that fails ends the inspection.
LoseSectionAndStop ==
    /\ errors' = errors \cup {section} /\ step' = "idle"
    /\ outcome' = (IF task = "wan" THEN "error" ELSE "result")
    /\ UNCHANGED section

\* A section is lost: a WAN read raises, an intercom inspection notes it.
LoseSection ==
    \/ /\ task = "wan" /\ step' = "idle" /\ outcome' = "error"
       /\ UNCHANGED <<section, errors>>
    \/ /\ task = "intercom" /\ step' = "next"
       /\ errors' = errors \cup {section} /\ section' = section + 1
       /\ UNCHANGED outcome

Ask ==
    /\ step = "next" /\ section <= LastSection /\ ~Late
    /\ step' = "call" /\ limit' = Given /\ waits' = 0
    /\ asked' = asked \cup {section}
    /\ UNCHANGED <<task, now, section, evidence, errors, outcome>>

\* Nothing is left of the deadline: the gateway is not asked.
Skip ==
    /\ step = "next" /\ section <= LastSection /\ Late
    /\ LoseSection
    /\ UNCHANGED <<task, now, limit, waits, evidence, asked>>

Waited(d) == now' = now + d /\ waits' = waits + 1

\* The connection is made, or a piece arrives.
Piece(d) ==
    /\ step = "call" /\ waits < Pieces
    /\ Waited(d)
    /\ UNCHANGED <<task, section, step, limit, evidence, errors, outcome, asked>>

\* The last piece arrives, of an answer with the section.
Answered(d) ==
    /\ step = "call" /\ waits \in 1..Pieces
    /\ Waited(d)
    /\ evidence' = evidence \cup {section} /\ section' = section + 1 /\ step' = "next"
    /\ UNCHANGED <<task, limit, errors, outcome, asked>>

\* The call fails, or its answer is an error, or does not have the section.
Refused(d) ==
    /\ step = "call" /\ waits \in 0..Pieces
    /\ Waited(d)
    /\ LoseSection
    /\ UNCHANGED <<task, limit, evidence, asked>>

\* Nothing arrives for as long as the call is given.
TimesOut == Refused(limit)

\* Every section was read or lost.  A WAN configuration may not be consistent.
Finish ==
    /\ step = "next" /\ section > LastSection
    /\ step' = "idle"
    /\ outcome' \in IF task = "wan" THEN {"result", "error"} ELSE {"result"}
    /\ UNCHANGED <<task, now, section, limit, waits, evidence, errors, asked>>

EvidenceNext ==
    \/ \E t \in {"intercom", "wan"}, rightSerial \in BOOLEAN : Inspect(t, rightSerial)
    \/ Ask \/ Skip \/ TimesOut \/ Finish
    \/ \E d \in 1..limit : Piece(d) \/ Answered(d) \/ Refused(d)

EvidenceSpec == EvidenceInit /\ [][EvidenceNext]_evidenceVars

-----------------------------------------------------------------------------
(* Properties. *)

\* Every variable keeps its type.
EvidenceTypeOK ==
    /\ task \in {"intercom", "wan"}
    /\ now \in Nat /\ section \in 1..LastSection + 1
    /\ limit \in 0..Due /\ waits \in 0..Pieces + 1
    /\ step \in {"idle", "next", "call"}
    /\ evidence \subseteq 1..LastSection /\ errors \subseteq 1..LastSection
    /\ asked \subseteq 1..LastSection
    /\ outcome \in {"none", "result", "error"}

\* The deadline is overrun by the waits of one call at most: Pieces times its
\* timeout, which shrinks as the deadline comes near (intercom_diagnostics.py 35-38).
\* (README.md 394-395 says "at most five seconds per call", as if an answer came in
\* one piece.)
Overrun == IF task = "intercom" THEN Pieces * Cap ELSE Pieces * WanDeadline
OverrunBounded == now <= Due + Overrun

\* An inspection that ended with a result accounts for each section once, and
\* a WAN result has both of its sections: a read that timed out is never taken
\* for an empty configuration (wan_evidence.py 71-75).
Accounted ==
    outcome = "result" =>
        /\ evidence \cup errors = 1..LastSection /\ evidence \cap errors = {}
        /\ task = "wan" => errors = {}
        /\ evidence \subseteq asked

\* A section that the gateway was never asked for comes after all that it was
\* asked for, and was given up after the deadline only: a failed section costs
\* no other (intercom_diagnostics.py 117-126).
OnlyLateSkipped ==
    \A s \in errors \ asked : now >= Due /\ \A t \in asked : t < s
==============================================================================
