---------------------------- MODULE DeadlineProofs ----------------------------
(***************************************************************************)
(* Proofs about what runs under a deadline whose timeouts bound the waits  *)
(* of a call and not their sum: the inspections of GatewayEvidence, for    *)
(* every deadline, cap, number of sections and of pieces of an answer; and *)
(* FirmwareScan with its catalog, for any number of targets and workers,   *)
(* every timeout and every catalog.                                        *)
(***************************************************************************)
EXTENDS GatewayEvidence, FirmwareScan, FiniteSetTheorems, TLAPS

-----------------------------------------------------------------------------
(* Arithmetic. *)

LEMMA Multiples ==
    ASSUME NEW a \in Nat, NEW b \in Nat, NEW c \in Nat, a <= b
    PROVE  a * c <= b * c /\ (a + 1) * c = a * c + c /\ a * c \in Nat
<1>1. (a + 1) * c = a * c + c /\ a * c \in Nat
  OBVIOUS
<1>2. b = a + (b - a) /\ b - a \in Nat
  OBVIOUS
<1>3. b * c = a * c + (b - a) * c /\ (b - a) * c \in Nat
  BY <1>2
<1> QED
  BY <1>1, <1>3

\* A set of numbers that is not empty has a least element.  If none were the
\* least, the numbers up to n with an element below them could be moved down
\* by one, into a smaller set.
LEMMA Least ==
    ASSUME NEW S \in SUBSET Nat, NEW n \in S
    PROVE  \E m \in S : \A k \in S : m <= k
<1> SUFFICES ASSUME \A m \in S : \E k \in S : k < m PROVE FALSE
  OBVIOUS
<1> DEFINE Above == {j \in 0..n : \E k \in S : k <= j}
           Down == [j \in Above |-> j - 1]
<1>1. IsFiniteSet(Above) /\ Cardinality(Above) \in Nat
  <2>1. IsFiniteSet(0..n)
    BY FS_Interval
  <2> QED
    BY <2>1, FS_Subset, FS_CardinalityType
<1>2. n \in Above
  OBVIOUS
<1>3. Down \in Injection(Above, Above \ {n})
  <2>1. ASSUME NEW j \in Above PROVE j - 1 \in Above \ {n}
    <3>1. PICK k \in S : k <= j
      OBVIOUS
    <3>2. PICK l \in S : l < k
      OBVIOUS
    <3> QED
      BY <3>1, <3>2
  <2>2. Down \in [Above -> Above \ {n}]
    BY <2>1
  <2>3. \A i, j \in Above : Down[i] = Down[j] => i = j
    OBVIOUS
  <2> QED
    BY <2>2, <2>3 DEF Injection, IsInjective
<1>4. IsFiniteSet(Above \ {n}) /\ Cardinality(Above \ {n}) = Cardinality(Above) - 1
  BY <1>1, <1>2, FS_RemoveElement
<1>5. Cardinality(Above) <= Cardinality(Above \ {n})
  BY <1>3, <1>4, FS_Injection
<1> QED
  BY <1>1, <1>4, <1>5

-----------------------------------------------------------------------------
(* Evidence: the invariant. *)

\* The sections before the one at hand are read or lost, each of them once.
Sorted ==
    step # "idle" =>
        /\ evidence \cup errors = 1..(section - 1) /\ evidence \cap errors = {}
        /\ evidence \subseteq asked
        /\ task = "wan" => errors = {}
        /\ outcome = "none"

\* The gateway is asked for one section after the other.
InOrder ==
    /\ step = "next" => asked \subseteq 1..(section - 1)
    /\ step = "call" => asked \subseteq 1..section /\ section \in asked /\ section <= LastSection

\* A call began with as much left as one of its waits may take, and each wait
\* that is over took that much at most.
OnTime ==
    step = "call" =>
        /\ now + limit <= Due + waits * limit
        /\ task = "intercom" => limit <= Cap

EvidenceTyped == EvidenceTypeOK /\ section \in Nat

EvidenceInv ==
    /\ EvidenceTyped /\ Sorted /\ InOrder /\ OnTime
    /\ OverrunBounded /\ Accounted /\ OnlyLateSkipped

-----------------------------------------------------------------------------
(* Evidence: the deadline. *)

LEMMA Sizes ==
    ASSUME EvidenceTyped
    PROVE  /\ Due \in Nat \ {0} /\ LastSection \in Nat /\ Overrun \in Nat /\ Pieces \in Nat
           /\ limit \in Nat /\ waits \in Nat
           /\ Due <= Deadline \/ Due = WanDeadline
BY EvidenceAssumption DEF EvidenceTyped, EvidenceTypeOK, Due, LastSection, WanSections, Overrun

\* What a wait of a call does to the clock: while the call goes on the next
\* wait is still paid for, and when it ends the overrun is bounded.
LEMMA WaitBounded ==
    ASSUME EvidenceInv, step = "call", waits <= Pieces, NEW d \in 0..limit
    PROVE  /\ now + d + limit <= Due + (waits + 1) * limit
           /\ now + d <= Due + Overrun
<1>1. /\ now \in Nat /\ limit \in Nat /\ waits \in Nat /\ Pieces \in Nat /\ Due \in Nat
      /\ limit <= Due /\ Cap \in Nat /\ WanDeadline \in Nat /\ task \in {"intercom", "wan"}
  BY Sizes, EvidenceAssumption DEF EvidenceInv, EvidenceTyped, EvidenceTypeOK
<1>2. now + limit <= Due + waits * limit /\ waits * limit \in Nat
      /\ (waits + 1) * limit = waits * limit + limit
  BY <1>1, Multiples DEF EvidenceInv, OnTime
<1>3. waits * limit <= Pieces * limit /\ Pieces * limit \in Nat
  BY <1>1, Multiples
<1>4. limit * Pieces <= Overrun
  <2>1. CASE task = "intercom"
    <3>1. limit <= Cap /\ Overrun = Pieces * Cap
      BY <2>1 DEF EvidenceInv, OnTime, Overrun
    <3>2. limit * Pieces <= Cap * Pieces
      BY <1>1, <3>1, Multiples
    <3> QED
      BY <1>1, <3>1, <3>2
  <2>2. CASE task = "wan"
    <3>1. limit <= WanDeadline /\ Overrun = Pieces * WanDeadline
      BY <1>1, <2>2 DEF Overrun, Due
    <3>2. limit * Pieces <= WanDeadline * Pieces
      BY <1>1, <3>1, Multiples
    <3> QED
      BY <1>1, <3>1, <3>2
  <2> QED
    BY <1>1, <2>1, <2>2
<1>5. limit * Pieces = Pieces * limit /\ Overrun \in Nat
  BY <1>1, Sizes DEF EvidenceInv
<1> QED
  BY <1>1, <1>2, <1>3, <1>4, <1>5

-----------------------------------------------------------------------------
(* Evidence: the steps. *)

LEMMA EvidenceInitInv == EvidenceInit => EvidenceInv
<1> SUFFICES ASSUME EvidenceInit PROVE EvidenceInv
  OBVIOUS
<1>1. EvidenceTyped
  BY EvidenceAssumption
     DEF EvidenceInit, EvidenceTyped, EvidenceTypeOK, Due, LastSection, WanSections
<1> QED
  BY <1>1, Sizes
     DEF EvidenceInit, EvidenceInv, Sorted, InOrder, OnTime, OverrunBounded, Accounted,
         OnlyLateSkipped

LEMMA InspectKeeps ==
    ASSUME EvidenceInv, NEW t \in {"intercom", "wan"}, NEW right \in BOOLEAN, Inspect(t, right)
    PROVE  EvidenceInv'
<1>1. EvidenceTyped'
  BY EvidenceAssumption DEF Inspect, EvidenceTyped, EvidenceTypeOK, Due, LastSection, WanSections
<1>2. Due' \in Nat /\ Overrun' \in Nat
  BY <1>1, EvidenceAssumption DEF EvidenceTyped, EvidenceTypeOK, Due, Overrun
<1>3. /\ now' = 0 /\ section' = 1 /\ evidence' = {} /\ errors' = {} /\ asked' = {}
      /\ step' \in {"idle", "next"} /\ outcome' \in {"error", "none"}
      /\ step' = "next" => outcome' = "none"
  BY DEF Inspect
<1>4. Sorted' /\ InOrder' /\ OnTime'
  BY <1>3 DEF Sorted, InOrder, OnTime
<1>5. OverrunBounded'
  BY <1>2, <1>3 DEF OverrunBounded, Due, Overrun
<1>6. Accounted' /\ OnlyLateSkipped'
  BY <1>3 DEF Accounted, OnlyLateSkipped
<1> QED
  BY <1>1, <1>4, <1>5, <1>6 DEF EvidenceInv

\* While time is left no section has been given up.
LEMMA AskKeeps ==
    ASSUME EvidenceInv, Ask
    PROVE  EvidenceInv'
<1>1. /\ now \in Nat /\ Due \in Nat \ {0} /\ now < Due /\ Cap \in Nat \ {0}
      /\ section \in Nat /\ section >= 1 /\ section <= LastSection /\ LastSection \in Nat
  BY Sizes, EvidenceAssumption DEF Ask, Late, EvidenceInv, EvidenceTyped, EvidenceTypeOK
<1>2. UNCHANGED <<task, now, section, evidence, errors, outcome>> /\ step' = "call" /\ waits' = 0
      /\ asked' = asked \cup {section} /\ limit' = Given /\ step = "next"
  BY DEF Ask
<1>3. Due' = Due /\ LastSection' = LastSection /\ Overrun' = Overrun
  BY <1>2 DEF Due, LastSection, Overrun
<1>4. /\ limit' \in 0..Due /\ now + limit' <= Due /\ (task = "intercom" => limit' <= Cap)
  BY <1>1, <1>2 DEF Given, Timeout
<1>5. errors \subseteq asked
  BY <1>1 DEF EvidenceInv, OnlyLateSkipped
<1>6. EvidenceTyped' /\ OnTime'
  <2>1. waits' * limit' = 0
    BY <1>1, <1>2, <1>4
  <2>2. EvidenceTyped'
    BY <1>1, <1>2, <1>3, <1>4, EvidenceAssumption DEF EvidenceInv, EvidenceTyped, EvidenceTypeOK
  <2> QED
    BY <1>1, <1>2, <1>3, <1>4, <2>1, <2>2 DEF OnTime
<1>7. Sorted' /\ InOrder'
  BY <1>1, <1>2, <1>3 DEF EvidenceInv, Sorted, InOrder
<1>8. OverrunBounded' /\ Accounted' /\ OnlyLateSkipped'
  BY <1>2, <1>3, <1>5, <1>7 DEF EvidenceInv, OverrunBounded, Accounted, OnlyLateSkipped, Sorted
<1> QED
  BY <1>6, <1>7, <1>8 DEF EvidenceInv

\* A section is lost, before it was asked for or after.
LEMMA LoseKeeps ==
    ASSUME EvidenceInv, LoseSection, UNCHANGED <<task, limit, evidence, asked>>,
           step \in {"next", "call"}, section <= LastSection,
           now' \in Nat, now <= now', now' <= Due + Overrun, waits' \in 0..Pieces + 1,
           section \notin asked => now >= Due
    PROVE  EvidenceInv'
<1>1. Due' = Due /\ LastSection' = LastSection /\ Overrun' = Overrun
  BY DEF Due, LastSection, Overrun
<1>2. /\ now \in Nat /\ Due \in Nat /\ section \in Nat /\ section >= 1 /\ LastSection \in Nat
      /\ task \in {"intercom", "wan"}
  BY Sizes DEF EvidenceInv, EvidenceTyped, EvidenceTypeOK
<1>3. OverrunBounded' /\ (step' # "call")
  BY <1>1 DEF OverrunBounded, LoseSection
<1>4. asked \subseteq 1..section /\ (step = "next" => asked \subseteq 1..(section - 1))
  BY <1>2 DEF EvidenceInv, InOrder
<1>5. CASE task = "wan"
  <2>1. step' = "idle" /\ outcome' = "error" /\ UNCHANGED <<section, errors>>
    BY <1>5 DEF LoseSection
  <2> QED
    BY <1>1, <1>2, <1>3, <2>1
       DEF EvidenceInv, EvidenceTyped, EvidenceTypeOK, Sorted, InOrder, OnTime, Accounted,
           OnlyLateSkipped
<1>6. CASE task = "intercom"
  <2>1. step' = "next" /\ errors' = errors \cup {section} /\ section' = section + 1
        /\ UNCHANGED outcome
    BY <1>6 DEF LoseSection
  <2>2. EvidenceTyped'
    BY <1>1, <1>2, <2>1 DEF EvidenceInv, EvidenceTyped, EvidenceTypeOK
  <2>3. Sorted'
    BY <1>2, <1>6, <2>1 DEF EvidenceInv, Sorted
  <2>4. InOrder' /\ OnTime'
    BY <1>2, <1>4, <2>1 DEF InOrder, OnTime
  <2>5. OnlyLateSkipped'
    <3>1. section \notin asked => \A t \in asked : t < section
      BY <1>2, <1>4
    <3> QED
      BY <1>1, <1>2, <2>1, <3>1 DEF EvidenceInv, OnlyLateSkipped
  <2>6. Accounted'
    BY <2>1 DEF EvidenceInv, Sorted, Accounted
  <2> QED
    BY <1>3, <2>2, <2>3, <2>4, <2>5, <2>6 DEF EvidenceInv
<1> QED
  BY <1>2, <1>5, <1>6

LEMMA SkipKeeps ==
    ASSUME EvidenceInv, Skip
    PROVE  EvidenceInv'
<1>1. /\ now' = now /\ waits' = waits /\ now \in Nat /\ waits \in 0..Pieces + 1 /\ now >= Due
      /\ now <= Due + Overrun
  BY DEF Skip, Late, EvidenceInv, EvidenceTyped, EvidenceTypeOK, OverrunBounded
<1> QED
  BY <1>1, LoseKeeps DEF Skip

LEMMA PieceKeeps ==
    ASSUME EvidenceInv, NEW d \in 1..limit, Piece(d)
    PROVE  EvidenceInv'
<1>1. now \in Nat /\ limit \in Nat /\ waits \in Nat /\ Pieces \in Nat /\ waits < Pieces
  BY Sizes DEF EvidenceInv, EvidenceTyped, EvidenceTypeOK, Piece
<1>2. /\ now' = now + d /\ waits' = waits + 1 /\ step = "call"
      /\ UNCHANGED <<task, section, step, limit, evidence, errors, outcome, asked>>
  BY DEF Piece, Waited
<1>3. Due' = Due /\ LastSection' = LastSection /\ Overrun' = Overrun
  BY <1>2 DEF Due, LastSection, Overrun
<1>4. now + d + limit <= Due + (waits + 1) * limit /\ now + d <= Due + Overrun
  BY <1>1, <1>2, WaitBounded
<1>5. EvidenceTyped' /\ OverrunBounded'
  BY <1>1, <1>2, <1>3, <1>4 DEF EvidenceInv, EvidenceTyped, EvidenceTypeOK, OverrunBounded
<1>6. OnTime'
  BY <1>2, <1>3, <1>4 DEF EvidenceInv, OnTime
<1>7. OnlyLateSkipped'
  BY <1>1, <1>2, <1>3, Sizes DEF EvidenceInv, OnlyLateSkipped
<1> QED
  BY <1>2, <1>3, <1>5, <1>6, <1>7 DEF EvidenceInv, Sorted, InOrder, Accounted

LEMMA AnsweredKeeps ==
    ASSUME EvidenceInv, NEW d \in 1..limit, Answered(d)
    PROVE  EvidenceInv'
<1>1. /\ now \in Nat /\ limit \in Nat /\ waits \in Nat /\ Pieces \in Nat /\ waits <= Pieces
      /\ section \in Nat /\ section >= 1 /\ LastSection \in Nat /\ Due \in Nat
  BY Sizes DEF EvidenceInv, EvidenceTyped, EvidenceTypeOK, Answered
<1>2. /\ now' = now + d /\ waits' = waits + 1 /\ step = "call"
      /\ evidence' = evidence \cup {section} /\ section' = section + 1 /\ step' = "next"
      /\ UNCHANGED <<task, limit, errors, outcome, asked>>
  BY DEF Answered, Waited
<1>3. Due' = Due /\ LastSection' = LastSection /\ Overrun' = Overrun
  BY <1>2 DEF Due, LastSection, Overrun
<1>4. now + d <= Due + Overrun
  BY <1>1, <1>2, WaitBounded
<1>5. section <= LastSection /\ section \in asked /\ asked \subseteq 1..section
  BY <1>2 DEF EvidenceInv, InOrder
<1>6. EvidenceTyped' /\ OverrunBounded'
  BY <1>1, <1>2, <1>3, <1>4, <1>5 DEF EvidenceInv, EvidenceTyped, EvidenceTypeOK, OverrunBounded
<1>7. Sorted' /\ InOrder' /\ OnTime'
  BY <1>1, <1>2, <1>5 DEF EvidenceInv, Sorted, InOrder, OnTime
<1>8. OnlyLateSkipped'
  BY <1>1, <1>2, <1>3 DEF EvidenceInv, OnlyLateSkipped
<1>9. Accounted'
  BY <1>2 DEF EvidenceInv, Sorted, Accounted
<1> QED
  BY <1>6, <1>7, <1>8, <1>9 DEF EvidenceInv

LEMMA RefusedKeeps ==
    ASSUME EvidenceInv, NEW d \in 0..limit, Refused(d)
    PROVE  EvidenceInv'
<1>1. now \in Nat /\ limit \in Nat /\ waits \in Nat /\ Pieces \in Nat /\ waits <= Pieces
  BY Sizes DEF EvidenceInv, EvidenceTyped, EvidenceTypeOK, Refused
<1>2. now' = now + d /\ waits' = waits + 1 /\ step = "call" /\ LoseSection
      /\ UNCHANGED <<task, limit, evidence, asked>>
  BY DEF Refused, Waited
<1>3. now + d <= Due + Overrun
  BY <1>1, <1>2, WaitBounded
<1>4. section <= LastSection /\ section \in asked
  BY <1>2 DEF EvidenceInv, InOrder
<1> QED
  BY <1>1, <1>2, <1>3, <1>4, LoseKeeps

LEMMA FinishKeeps ==
    ASSUME EvidenceInv, Finish
    PROVE  EvidenceInv'
<1>1. section = LastSection + 1 /\ LastSection \in Nat
  BY Sizes DEF Finish, EvidenceInv, EvidenceTyped, EvidenceTypeOK
<1>2. /\ step' = "idle" /\ step = "next"
      /\ UNCHANGED <<task, now, section, limit, waits, evidence, errors, asked>>
  BY DEF Finish
<1>3. Due' = Due /\ LastSection' = LastSection /\ Overrun' = Overrun
  BY <1>2 DEF Due, LastSection, Overrun
<1>5. outcome' \in {"result", "error"}
  BY DEF Finish
<1>4. Accounted'
  BY <1>1, <1>2, <1>3 DEF EvidenceInv, Sorted, Accounted
<1> QED
  BY <1>2, <1>3, <1>4, <1>5
     DEF EvidenceInv, EvidenceTyped, EvidenceTypeOK, Sorted, InOrder, OnTime, OverrunBounded,
         OnlyLateSkipped

LEMMA EvidenceStepKeeps == EvidenceInv /\ [EvidenceNext]_evidenceVars => EvidenceInv'
<1> SUFFICES ASSUME EvidenceInv, [EvidenceNext]_evidenceVars PROVE EvidenceInv'
  OBVIOUS
<1>1. limit \in Nat
  BY Sizes DEF EvidenceInv
<1>2. ASSUME NEW t \in {"intercom", "wan"}, NEW right \in BOOLEAN, Inspect(t, right)
      PROVE  EvidenceInv'
  BY <1>2, InspectKeeps
<1>3. ASSUME NEW d \in 1..limit, Piece(d) \/ Answered(d) \/ Refused(d) PROVE EvidenceInv'
  BY <1>1, <1>3, PieceKeeps, AnsweredKeeps, RefusedKeeps
<1>4. CASE TimesOut
  BY <1>1, <1>4, RefusedKeeps DEF TimesOut
<1>5. CASE UNCHANGED evidenceVars
  BY <1>5 DEF evidenceVars, EvidenceInv, EvidenceTyped, EvidenceTypeOK, Sorted, InOrder, OnTime,
              OverrunBounded, Accounted, OnlyLateSkipped, Due, LastSection, Overrun
<1> QED
  BY <1>2, <1>3, <1>4, <1>5, AskKeeps, SkipKeeps, FinishKeeps DEF EvidenceNext

LEMMA EvidenceInvHolds == EvidenceSpec => []EvidenceInv
BY EvidenceInitInv, EvidenceStepKeeps, PTL DEF EvidenceSpec

-----------------------------------------------------------------------------
(* Evidence: the theorems. *)

\* Every variable of an inspection keeps its type: no section is read, lost or
\* asked for that is none of the task's (intercom_diagnostics.py 44-130).
THEOREM EvidenceTypes == EvidenceSpec => []EvidenceTypeOK
BY EvidenceInvHolds, PTL DEF EvidenceInv, EvidenceTyped

\* However slowly the gateway answers, an inspection overruns its deadline by
\* the waits of one call at most (intercom_diagnostics.py 35-38, wan_evidence.py 82-88).
THEOREM OverrunStaysBounded == EvidenceSpec => []OverrunBounded
BY EvidenceInvHolds, PTL DEF EvidenceInv

\* A result accounts for each section once (wan_evidence.py 71-75).
THEOREM SectionsAccounted == EvidenceSpec => []Accounted
BY EvidenceInvHolds, PTL DEF EvidenceInv

\* A section is given up unasked after the deadline only
\* (intercom_diagnostics.py 117-126).
THEOREM SkippedOnlyWhenLate == EvidenceSpec => []OnlyLateSkipped
BY EvidenceInvHolds, PTL DEF EvidenceInv

-----------------------------------------------------------------------------
(* Firmware: the catalog. *)

\* A version of the catalog is found there.
LEMMA RunningFound ==
    ASSUME NEW c \in Catalog, NEW m, NEW v, NEW a \in ArtifactsOf(c), a.model = m, a.version = v
    PROVE  Running(c, m, v) # {}
<1> DEFINE S == {j \in DOMAIN c.artifacts : c.artifacts[j].model = m /\ c.artifacts[j].version = v}
<1>1. c.artifacts \in Seq(Artifact) /\ DOMAIN c.artifacts = 1..Len(c.artifacts)
  BY DEF Catalog
<1>2. PICK n \in DOMAIN c.artifacts : a = c.artifacts[n]
  BY DEF ArtifactsOf
<1>3. S \in SUBSET Nat /\ n \in S
  BY <1>1, <1>2
<1>4. PICK j \in S : \A k \in S : j <= k
  BY <1>3, Least
<1>5. \A k \in 1..(j - 1) : ~(c.artifacts[k].model = m /\ c.artifacts[k].version = v)
  BY <1>1, <1>4
<1>6. c.artifacts[j] \in Running(c, m, v)
  BY <1>4, <1>5 DEF Running, FirstOf
<1> QED
  BY <1>6

LEMMA PathsAreRules ==
    ASSUME NEW c \in Catalog, NEW m, NEW v, NEW r \in Paths(c, m, v)
    PROVE  r \in RulesOf(c) /\ r.model = m
BY DEF Paths, FirstOf, RulesOf

LEMMA UpdateAdvised ==
    ASSUME NEW c \in Catalog, Accepted(c), NEW m \in Models, NEW v \in Versions,
           Evaluate(c, m, v).status = "update_required"
    PROVE  /\ Evaluate(c, m, v).target.version # v
           /\ Evaluate(c, m, Evaluate(c, m, v).target.version).status = "compliant"
<1>1. Running(c, m, v) = {} /\ Paths(c, m, v) # {}
  BY DEF Evaluate, Decision
<1> DEFINE Leads(a) == \E r \in Paths(c, m, v) : a.id = r.target
           target == CHOOSE a \in ArtifactsOf(c) : Leads(a)
<1>2. Evaluate(c, m, v).target = target
  BY <1>1 DEF Evaluate, Decision
<1>3. \A r \in Paths(c, m, v) : \E a \in ArtifactsOf(c) : a.id = r.target /\ a.model = m
  BY PathsAreRules DEF Accepted, TargetsKnown
<1>4. \E a \in ArtifactsOf(c) : Leads(a)
  BY <1>1, <1>3
<1>5. target \in ArtifactsOf(c) /\ Leads(target)
  BY <1>4
<1> HIDE DEF target
<1>6. target.model = m
  <2>1. PICK a \in ArtifactsOf(c) : a.id = target.id /\ a.model = m
    BY <1>3, <1>5
  <2>2. a = target
    BY <1>5, <2>1 DEF Accepted, ArtifactsOf
  <2> QED
    BY <2>1, <2>2
<1>7. target.version # v
  BY <1>1, <1>5, <1>6, RunningFound
<1>8. Running(c, m, target.version) # {}
  BY <1>5, <1>6, RunningFound
<1>9. Evaluate(c, m, target.version).status = "compliant"
  BY <1>8 DEF Evaluate, Decision
<1> QED
  BY <1>2, <1>7, <1>9

-----------------------------------------------------------------------------
(* Firmware: the invariant. *)

\* What the catalog was accepted for stays so: it never changes.
CatalogInv == CatalogTypeOK /\ (loaded = "ok" => Accepted(catalog))

\* The timeout in force was what was left when it was set, and each of the
\* waits since then took that much at most.
Clocked ==
    /\ at \in [Hosts -> {"queued", "open", "body", "done"}]
    /\ spent \in [Hosts -> Nat] /\ allowed \in [Hosts -> 0..TimeLimit]
    /\ drips \in [Hosts -> 0..Drips]
    /\ \A t \in Busy : /\ drips[t] < Drips
                       /\ spent[t] + allowed[t] <= TimeLimit + drips[t] * allowed[t]
    /\ ProbeBounded

CountsKept ==
    /\ hops \in [Hosts -> 0..Hops]
    /\ chunks \in [Hosts -> 0..Chunks + 1]

\* Only a page that was read to its end was judged.
JudgedWhole ==
    /\ DOMAIN found = Hosts /\ found = [t \in DOMAIN found |-> found[t]]
    /\ whole \in [Hosts -> BOOLEAN]
    /\ \A t \in Hosts : found[t] \in Judged => whole[t]

\* Targets that no worker took wait; a scan that returned left none behind.
Queued ==
    /\ scan \in {"idle", "running", "ok", "error"}
    /\ waiting \in Seq(Hosts)
    /\ scan = "running" =>
         \A t \in Hosts : at[t] = "queued" => \E i \in DOMAIN waiting : waiting[i] = t
    /\ scan = "ok" => \A t \in Hosts : at[t] = "done"

ScanInv == CatalogInv /\ Clocked /\ CountsKept /\ JudgedWhole /\ Queued

LEMMA Limits ==
    /\ TimeLimit \in Nat \ {0} /\ Drips \in Nat \ {0} /\ Drips * TimeLimit \in Nat
    /\ TimeLimit <= Drips * TimeLimit
<1>1. TimeLimit \in Nat \ {0} /\ Drips \in Nat \ {0}
  BY ScanAssumption
<1>2. 1 * TimeLimit <= Drips * TimeLimit /\ Drips * TimeLimit \in Nat
  BY <1>1, Multiples
<1> QED
  BY <1>1, <1>2

\* Where a wait leaves the clock of a probe.
LEMMA WaitInTime ==
    ASSUME Clocked, NEW t \in Busy, NEW d \in 0..allowed[t]
    PROVE  /\ spent[t] + d \in Nat /\ spent[t] + d <= Drips * TimeLimit
           /\ spent[t] + d + allowed[t] <= TimeLimit + (drips[t] + 1) * allowed[t]
<1>1. /\ spent[t] \in Nat /\ allowed[t] \in Nat /\ allowed[t] <= TimeLimit /\ drips[t] \in Nat
      /\ drips[t] < Drips /\ TimeLimit \in Nat /\ Drips \in Nat
      /\ spent[t] + allowed[t] <= TimeLimit + drips[t] * allowed[t]
  BY Limits DEF Clocked, Busy
<1>2. /\ (drips[t] + 1) * allowed[t] = drips[t] * allowed[t] + allowed[t]
      /\ drips[t] * allowed[t] \in Nat
  BY <1>1, Multiples
<1>3. drips[t] * allowed[t] <= drips[t] * TimeLimit
  <2>1. allowed[t] * drips[t] <= TimeLimit * drips[t]
    BY <1>1, Multiples
  <2> QED
    BY <1>1, <2>1
<1>4. (drips[t] + 1) * TimeLimit <= Drips * TimeLimit
      /\ (drips[t] + 1) * TimeLimit = drips[t] * TimeLimit + TimeLimit
      /\ drips[t] * TimeLimit \in Nat /\ Drips * TimeLimit \in Nat
  BY <1>1, Multiples
<1> QED
  BY <1>1, <1>2, <1>3, <1>4

-----------------------------------------------------------------------------
(* Firmware: the steps. *)

LEMMA ScanInitInv == ScanInit => ScanInv
<1> SUFFICES ASSUME ScanInit PROVE ScanInv
  OBVIOUS
<1>1. CatalogInv
  BY CatalogAssumption DEF ScanInit, CatalogInit, CatalogInv, CatalogTypeOK
<1>2. Clocked
  BY Limits DEF ScanInit, Clocked, ForAll, Busy, ProbeBounded
<1>3. CountsKept
  BY ScanAssumption DEF ScanInit, CountsKept, ForAll
<1>4. JudgedWhole
  BY DEF ScanInit, JudgedWhole, ForAll, Judged
<1>5. Queued
  BY DEF ScanInit, Queued
<1> QED
  BY <1>1, <1>2, <1>3, <1>4, <1>5 DEF ScanInv

LEMMA ScanKeeps ==
    ASSUME ScanInv, Scan
    PROVE  ScanInv'
<1>1. CatalogInv'
  BY DEF Scan, ScanInv, CatalogInv, CatalogTypeOK, catalogVars
<1>2. Clocked'
  BY Limits DEF Scan, Clocked, ForAll, Busy, ProbeBounded
<1>3. CountsKept'
  BY ScanAssumption DEF Scan, CountsKept, ForAll
<1>4. JudgedWhole'
  BY DEF Scan, JudgedWhole, ForAll, Judged
<1>5. Queued'
  BY ScanAssumption DEF Scan, Queued, Hosts
<1> QED
  BY <1>1, <1>2, <1>3, <1>4, <1>5 DEF ScanInv

\* A probe gives a result, or goes on with all the time that is left.
LEMMA MovesOnTime ==
    ASSUME Clocked, NEW t \in Hosts, NEW n \in Nat, n <= Drips * TimeLimit,
           spent' = [spent EXCEPT ![t] = n],
           \/ \E status : Gives(t, status)
           \/ \E s \in {"open", "body"} : Continues(t, s)
    PROVE  Clocked'
<1>1. /\ at \in [Hosts -> {"queued", "open", "body", "done"}]
      /\ spent \in [Hosts -> Nat] /\ allowed \in [Hosts -> 0..TimeLimit]
      /\ drips \in [Hosts -> 0..Drips]
      /\ TimeLimit \in Nat /\ Drips \in Nat \ {0}
  BY Limits DEF Clocked
<1>2. spent' \in [Hosts -> Nat] /\ ProbeBounded' /\ spent'[t] = n
  BY <1>1 DEF Clocked, ProbeBounded
<1>3. ASSUME NEW status, Gives(t, status) PROVE Clocked'
  <2>1. at' = [at EXCEPT ![t] = "done"] /\ UNCHANGED <<allowed, drips>>
    BY <1>3 DEF Gives, Sets
  <2>2. at' \in [Hosts -> {"queued", "open", "body", "done"}]
        /\ \A u \in Hosts : u \in Busy' => u \in Busy /\ u # t
    BY <1>1, <2>1 DEF Busy
  <2>3. \A u \in Hosts \ {t} : spent'[u] = spent[u]
    BY <1>1
  <2>4. Busy' \subseteq Hosts
    BY DEF Busy
  <2> QED
    BY <1>1, <1>2, <2>1, <2>2, <2>3, <2>4 DEF Clocked
<1>4. ASSUME NEW s \in {"open", "body"}, Continues(t, s), TimeLimit - n > 0 PROVE Clocked'
  <2>1. /\ at' = [at EXCEPT ![t] = s] /\ allowed' = [allowed EXCEPT ![t] = TimeLimit - n]
        /\ drips' = [drips EXCEPT ![t] = 0]
    BY <1>1, <1>2, <1>4 DEF Continues, Sets, Left
  <2>2. /\ at' \in [Hosts -> {"queued", "open", "body", "done"}]
        /\ allowed' \in [Hosts -> 0..TimeLimit] /\ drips' \in [Hosts -> 0..Drips]
    BY <1>1, <1>4, <2>1
  <2>3. ASSUME NEW u \in Busy'
        PROVE  drips'[u] < Drips
               /\ spent'[u] + allowed'[u] <= TimeLimit + drips'[u] * allowed'[u]
    <3>1. u \in Hosts
      BY DEF Busy
    <3>2. CASE u = t
      <4>1. drips'[t] = 0 /\ allowed'[t] = TimeLimit - n /\ 0 * (TimeLimit - n) = 0
        BY <1>1, <2>1
      <4> QED
        BY <1>1, <1>2, <3>2, <4>1
    <3>3. CASE u # t
      BY <1>1, <2>1, <3>1, <3>3 DEF Clocked, Busy
    <3> QED
      BY <3>2, <3>3
  <2> QED
    BY <1>2, <2>2, <2>3 DEF Clocked
<1> QED
  BY <1>2, <1>3, <1>4 DEF Continues, Left

\* A result is no judgement unless the page was read.
LEMMA MovesJudged ==
    ASSUME JudgedWhole, NEW t \in Hosts, whole' \in {whole, [whole EXCEPT ![t] = TRUE]},
           \/ \E status : Gives(t, status) /\ (status \in Judged => whole'[t])
           \/ \E s \in {"open", "body"} : Continues(t, s)
    PROVE  JudgedWhole'
<1>1. whole' \in [Hosts -> BOOLEAN] /\ \A u \in Hosts : whole[u] => whole'[u]
  BY DEF JudgedWhole
<1>2. ASSUME NEW status, found' = [found EXCEPT ![t] = status], status \in Judged => whole'[t]
      PROVE  JudgedWhole'
  <2>1. /\ DOMAIN found' = Hosts /\ found' = [u \in DOMAIN found' |-> found'[u]]
        /\ found'[t] = status /\ \A u \in Hosts \ {t} : found'[u] = found[u]
    BY <1>2 DEF JudgedWhole
  <2> QED
    BY <1>1, <1>2, <2>1 DEF JudgedWhole
<1>3. CASE found' = found
  BY <1>1, <1>3 DEF JudgedWhole
<1> QED
  BY <1>2, <1>3 DEF Continues, Gives, Judged

\* A probe that runs was not queued, and does not return to the queue.
LEMMA MovesQueued ==
    ASSUME Clocked, Queued, NEW t \in Busy, UNCHANGED <<scan, waiting>>,
           \/ \E status : Gives(t, status)
           \/ \E s \in {"open", "body"} : Continues(t, s)
    PROVE  Queued'
<1>1. PICK s \in {"open", "body", "done"} : at' = [at EXCEPT ![t] = s]
  BY DEF Continues, Gives, Sets
<1>2. /\ t \in Hosts /\ at[t] \in {"open", "body"}
      /\ at \in [Hosts -> {"queued", "open", "body", "done"}]
  BY DEF Busy, Clocked
<1>3. at'[t] = s /\ \A u \in Hosts \ {t} : at'[u] = at[u]
  BY <1>1, <1>2
<1> QED
  BY <1>2, <1>3 DEF Queued

LEMMA MovesKeep ==
    ASSUME ScanInv, NEW t \in Busy, NEW d \in 0..allowed[t], Elapse(t, d), CountsKept',
           whole' \in {whole, [whole EXCEPT ![t] = TRUE]},
           \/ \E status : Gives(t, status) /\ (status \in Judged => whole'[t])
           \/ \E s \in {"open", "body"} : Continues(t, s)
    PROVE  ScanInv'
<1>1. t \in Hosts /\ UNCHANGED <<catalog, loaded, scan, waiting>>
      /\ spent' = [spent EXCEPT ![t] = spent[t] + d]
  BY DEF Busy, Elapse, catalogVars
<1>2. spent[t] + d \in Nat /\ spent[t] + d <= Drips * TimeLimit
  BY WaitInTime DEF ScanInv
<1>3. Clocked'
  BY <1>1, <1>2, MovesOnTime DEF ScanInv
<1>4. JudgedWhole'
  BY <1>1, MovesJudged DEF ScanInv
<1>5. Queued'
  BY <1>1, MovesQueued DEF ScanInv
<1>6. CatalogInv'
  BY <1>1 DEF ScanInv, CatalogInv, CatalogTypeOK
<1> QED
  BY <1>3, <1>4, <1>5, <1>6 DEF ScanInv

LEMMA TakeKeeps ==
    ASSUME ScanInv, NEW valid \in BOOLEAN, TakeTarget(valid)
    PROVE  ScanInv'
<1> DEFINE t == Head(waiting)
<1>1. /\ waiting \in Seq(Hosts) /\ waiting # <<>> /\ scan = "running" /\ scan' = "running"
      /\ waiting' = Tail(waiting)
      /\ UNCHANGED <<catalog, loaded, spent, hops, chunks, whole>>
  BY DEF TakeTarget, ScanInv, Queued, catalogVars
<1>2. /\ t \in Hosts /\ Tail(waiting) \in Seq(Hosts) /\ t = waiting[1]
      /\ \A i \in DOMAIN waiting : i # 1 => /\ i - 1 \in DOMAIN Tail(waiting)
                                            /\ Tail(waiting)[i - 1] = waiting[i]
  BY <1>1
<1>3. Gives(t, "invalid_target") \/ Continues(t, "open")
  BY DEF TakeTarget
<1> HIDE DEF t
<1>4. Clocked'
  <2>1. spent[t] \in Nat /\ spent[t] <= Drips * TimeLimit /\ spent' = [spent EXCEPT ![t] = spent[t]]
    BY <1>1, <1>2 DEF ScanInv, Clocked, ProbeBounded
  <2> QED
    BY <1>2, <1>3, <2>1, MovesOnTime DEF ScanInv
<1>5. JudgedWhole'
  BY <1>1, <1>2, <1>3, MovesJudged DEF ScanInv, Judged
<1>6. Queued'
  <2>1. PICK s \in {"open", "done"} : at' = [at EXCEPT ![t] = s]
    BY <1>3 DEF Continues, Gives, Sets
  <2>2. at'[t] # "queued" /\ \A u \in Hosts \ {t} : at'[u] = at[u]
    BY <1>2, <2>1 DEF ScanInv, Clocked
  <2>3. ASSUME NEW u \in Hosts, at'[u] = "queued"
        PROVE  \E i \in DOMAIN waiting' : waiting'[i] = u
    <3>1. PICK i \in DOMAIN waiting : waiting[i] = u
      BY <1>1, <2>2, <2>3 DEF ScanInv, Queued
    <3>2. i # 1
      BY <1>2, <2>2, <2>3, <3>1
    <3> QED
      BY <1>1, <1>2, <3>1, <3>2
  <2> QED
    BY <1>1, <1>2, <2>3 DEF Queued
<1>7. CatalogInv' /\ CountsKept'
  BY <1>1 DEF ScanInv, CatalogInv, CatalogTypeOK, CountsKept
<1> QED
  BY <1>4, <1>5, <1>6, <1>7 DEF ScanInv

LEMMA DripKeeps ==
    ASSUME ScanInv, NEW t \in Hosts, NEW d \in 1..TimeLimit, d <= allowed[t], Drip(t, d)
    PROVE  ScanInv'
<1>1. /\ t \in Busy /\ drips[t] + 1 < Drips
      /\ spent' = [spent EXCEPT ![t] = spent[t] + d] /\ drips' = [drips EXCEPT ![t] = drips[t] + 1]
      /\ UNCHANGED <<catalog, loaded, scan, waiting, at, allowed, hops, chunks, found, whole>>
  BY DEF Drip, Elapse, catalogVars
<1>2. /\ spent \in [Hosts -> Nat] /\ allowed \in [Hosts -> 0..TimeLimit]
      /\ drips \in [Hosts -> 0..Drips] /\ TimeLimit \in Nat /\ Drips \in Nat /\ d \in 0..allowed[t]
  BY Limits DEF ScanInv, Clocked
<1>3. /\ spent[t] + d \in Nat /\ spent[t] + d <= Drips * TimeLimit
      /\ spent[t] + d + allowed[t] <= TimeLimit + (drips[t] + 1) * allowed[t]
  BY <1>1, <1>2, WaitInTime DEF ScanInv
<1>4. Clocked'
  <2>1. /\ spent' \in [Hosts -> Nat] /\ drips' \in [Hosts -> 0..Drips] /\ Busy' = Busy
        /\ spent'[t] = spent[t] + d /\ drips'[t] = drips[t] + 1
        /\ \A u \in Hosts \ {t} : spent'[u] = spent[u] /\ drips'[u] = drips[u]
    BY <1>1, <1>2, <1>3 DEF Busy
  <2>2. ASSUME NEW u \in Busy
        PROVE  drips'[u] < Drips /\ spent'[u] + allowed[u] <= TimeLimit + drips'[u] * allowed[u]
    <3>1. CASE u = t
      BY <1>1, <1>3, <2>1, <3>1
    <3>2. CASE u # t
      BY <2>1, <3>2 DEF ScanInv, Clocked, Busy
    <3> QED
      BY <3>1, <3>2
  <2>3. ProbeBounded'
    BY <1>3, <2>1 DEF ScanInv, Clocked, ProbeBounded
  <2> QED
    BY <1>1, <2>1, <2>2, <2>3 DEF ScanInv, Clocked
<1>5. JudgedWhole'
  BY <1>1 DEF ScanInv, JudgedWhole
<1> QED
  BY <1>1, <1>4, <1>5 DEF ScanInv, CatalogInv, CatalogTypeOK, CountsKept, Queued

\* A call that fails or is answered: what is read in part is no judgement.
LEMMA CallsKeepScan ==
    ASSUME ScanInv, NEW t \in Hosts, NEW d \in 0..allowed[t],
           \/ ProbeFails(t, d) \/ ProbeEscapes(t, d) \/ Opened(t, d)
           \/ \E host \in Hosts : Redirected(t, d, host)
           \/ ProbeTimesOut(t) /\ d = allowed[t]
    PROVE  ScanInv'
<1>1. t \in Busy /\ Elapse(t, d) /\ UNCHANGED <<chunks, whole>>
  BY DEF ProbeFails, ProbeEscapes, Opened, Redirected, ProbeTimesOut, WaitsEnd, Busy
<1>2. \/ \E status : Gives(t, status) /\ (status \in Judged => whole'[t])
      \/ \E s \in {"open", "body"} : Continues(t, s)
  BY DEF ProbeFails, ProbeEscapes, Opened, Redirected, ProbeTimesOut, TimeoutStatus, Judged
<1>3. hops' \in [Hosts -> 0..Hops]
  <2>1. hops \in [Hosts -> 0..Hops] /\ Hops \in Nat
    BY ScanAssumption DEF ScanInv, CountsKept
  <2>2. \/ hops' = hops
        \/ hops[t] < Hops /\ hops' = [hops EXCEPT ![t] = hops[t] + 1]
    BY DEF ProbeFails, ProbeEscapes, Opened, Redirected, ProbeTimesOut, Follows
  <2> QED
    BY <2>1, <2>2
<1> QED
  BY <1>1, <1>2, <1>3, MovesKeep DEF ScanInv, CountsKept

LEMMA BodyKeeps ==
    ASSUME ScanInv, NEW t \in Hosts, NEW d \in 0..allowed[t], ChunkRead(t, d) \/ PageRead(t, d)
    PROVE  ScanInv'
<1>1. t \in Busy /\ Elapse(t, d) /\ UNCHANGED hops
  BY DEF ChunkRead, PageRead, Busy
<1>2. chunks \in [Hosts -> 0..Chunks + 1] /\ whole \in [Hosts -> BOOLEAN] /\ Chunks \in Nat
  BY ScanAssumption DEF ScanInv, CountsKept, JudgedWhole
<1>3. CASE ChunkRead(t, d)
  <2>1. chunks' \in [Hosts -> 0..Chunks + 1]
    BY <1>2, <1>3 DEF ChunkRead
  <2>2. whole' = whole
    BY <1>3 DEF ChunkRead
  <2>3. Gives(t, "unrecognized") \/ Continues(t, "body")
    BY <1>3 DEF ChunkRead
  <2> QED
    BY <1>1, <2>1, <2>2, <2>3, MovesKeep DEF ScanInv, CountsKept, Judged
<1>4. CASE PageRead(t, d)
  <2>1. whole' = [whole EXCEPT ![t] = TRUE] /\ chunks' = chunks /\ Gives(t, PageStatus(t))
    BY <1>4 DEF PageRead
  <2>2. whole'[t]
    BY <1>2, <2>1
  <2> QED
    BY <1>1, <2>1, <2>2, MovesKeep DEF ScanInv, CountsKept
<1> QED
  BY <1>3, <1>4

LEMMA ReturnsKeep ==
    ASSUME ScanInv, ScanReturns
    PROVE  ScanInv'
<1>1. /\ UNCHANGED <<catalog, loaded, waiting, at, spent, allowed, drips, hops, chunks, found,
                     whole>>
      /\ waiting = <<>> /\ Busy = {} /\ scan = "running" /\ scan' \in {"ok", "error"}
  BY DEF ScanReturns, catalogVars, probeVars
<1>2. \A t \in Hosts : at[t] = "done"
  BY <1>1 DEF ScanInv, Queued, Clocked, Busy
<1>3. Queued'
  BY <1>1, <1>2 DEF ScanInv, Queued
<1>4. JudgedWhole'
  BY <1>1 DEF ScanInv, JudgedWhole
<1>5. Clocked' /\ CountsKept'
  BY <1>1 DEF ScanInv, Clocked, CountsKept, Busy, ProbeBounded
<1> QED
  BY <1>1, <1>3, <1>4, <1>5 DEF ScanInv, CatalogInv, CatalogTypeOK

LEMMA LoadKeeps ==
    ASSUME ScanInv, Load, UNCHANGED <<scan, waiting, probeVars>>
    PROVE  ScanInv'
<1>1. /\ catalog' = catalog /\ loaded' = IF Accepted(catalog) THEN "ok" ELSE "refused"
      /\ UNCHANGED <<scan, waiting, at, spent, allowed, drips, hops, chunks, found, whole>>
  BY DEF Load, probeVars
<1>2. CatalogInv'
  BY <1>1 DEF ScanInv, CatalogInv, CatalogTypeOK, Accepted, TargetsKnown
<1>3. JudgedWhole'
  BY <1>1 DEF ScanInv, JudgedWhole
<1>4. Clocked' /\ CountsKept'
  BY <1>1 DEF ScanInv, Clocked, CountsKept, Busy, ProbeBounded
<1> QED
  BY <1>1, <1>2, <1>3, <1>4 DEF ScanInv, Queued

LEMMA ScanStepKeeps == ScanInv /\ [ScanNext]_scanVars => ScanInv'
<1> SUFFICES ASSUME ScanInv, [ScanNext]_scanVars PROVE ScanInv'
  OBVIOUS
<1>1. ASSUME NEW t \in Hosts, ProbeAdvances(t) PROVE ScanInv'
  <2>1. PICK d \in 1..TimeLimit :
          /\ d <= allowed[t]
          /\ \/ Drip(t, d) \/ ProbeFails(t, d) \/ ProbeEscapes(t, d)
             \/ \E host \in Hosts : Redirected(t, d, host)
             \/ Opened(t, d) \/ ChunkRead(t, d) \/ PageRead(t, d)
    BY <1>1 DEF ProbeAdvances
  <2>2. d \in 0..allowed[t]
    BY <2>1, Limits DEF ScanInv, Clocked
  <2> QED
    BY <2>1, <2>2, DripKeeps, CallsKeepScan, BodyKeeps
<1>2. ASSUME NEW t \in Hosts, ProbeTimesOut(t) PROVE ScanInv'
  <2>1. allowed[t] \in 0..allowed[t]
    BY Limits DEF ScanInv, Clocked
  <2> QED
    BY <1>2, <2>1, CallsKeepScan
<1>3. ASSUME NEW valid \in BOOLEAN, TakeTarget(valid) PROVE ScanInv'
  BY <1>3, TakeKeeps
<1>4. CASE UNCHANGED scanVars
  <2>1. UNCHANGED <<catalog, loaded, scan, waiting, at, spent, allowed, drips, hops, chunks, found,
                    whole>>
    BY <1>4 DEF scanVars, catalogVars, probeVars
  <2>2. JudgedWhole'
    BY <2>1 DEF ScanInv, JudgedWhole
  <2>3. Clocked' /\ CountsKept'
    BY <2>1 DEF ScanInv, Clocked, CountsKept, Busy, ProbeBounded
  <2> QED
    BY <2>1, <2>2, <2>3
       DEF ScanInv, CatalogInv, CatalogTypeOK, Accepted, TargetsKnown, Queued
<1> QED
  BY <1>1, <1>2, <1>3, <1>4, ScanKeeps, ReturnsKeep, LoadKeeps DEF ScanNext

LEMMA ScanInvHolds == ScanSpec => []ScanInv
BY ScanInitInv, ScanStepKeeps, PTL DEF ScanSpec

-----------------------------------------------------------------------------
(* Firmware: the theorems. *)

\* The types of a scan: no redirect and no chunk is counted past its limit
\* (firmware.py 571-584).
THEOREM ScanTyped == ScanSpec => []ScanTypeOK
<1>1. ScanInv => ScanTypeOK
  BY DEF ScanInv, ScanTypeOK, CatalogInv, Clocked, CountsKept, JudgedWhole, Queued
<1> QED
  BY <1>1, ScanInvHolds, PTL

\* Whatever catalog is accepted, an update is advised at most once
\* (firmware.py 254-280).
THEOREM AdviceEnds == ScanSpec => []AdviceConverges
<1>1. ScanInv => AdviceConverges
  BY UpdateAdvised DEF ScanInv, CatalogInv, CatalogTypeOK, AdviceConverges
<1> QED
  BY <1>1, ScanInvHolds, PTL

\* A judgement comes of a page read to its end, and a scan that returns leaves
\* no target out, with any number of targets and workers (firmware.py 360-391).
THEOREM WholePagesJudged == ScanSpec => []JudgedByWholePages
<1>1. ScanInv => JudgedByWholePages
  BY DEF ScanInv, Queued, JudgedWhole, JudgedByWholePages
<1> QED
  BY <1>1, ScanInvHolds, PTL

\* For every timeout and however the bytes of an answer drip in, a probe ends
\* within as many timeouts as one call has waits (firmware.py 536-540).
THEOREM ProbesBounded == ScanSpec => []ProbeBounded
<1>1. ScanInv => ProbeBounded
  BY DEF ScanInv, Clocked
<1> QED
  BY <1>1, ScanInvHolds, PTL

-----------------------------------------------------------------------------
(* Firmware: a scan runs down. *)

\* A probe that waits has a timeout, and a scan has a catalog.
Armed == /\ \A t \in Busy : allowed[t] > 0
         /\ scan = "running" => loaded = "ok"

\* The step of a worker: the next target is taken, or time passes at a probe.
RunsDown ==
    /\ \A t \in Hosts : spent'[t] >= spent[t]
    /\ \/ waiting # <<>> /\ waiting' = Tail(waiting)
       \/ waiting' = waiting /\ \E t \in Hosts : spent'[t] > spent[t]

LEMMA MovesArm ==
    ASSUME Clocked, Armed, NEW t \in Hosts, UNCHANGED <<scan, loaded>>, spent'[t] \in Nat,
           \/ UNCHANGED <<at, allowed>>
           \/ \E status : Gives(t, status)
           \/ \E s \in {"open", "body"} : Continues(t, s)
    PROVE  Armed'
<1>1. /\ at \in [Hosts -> {"queued", "open", "body", "done"}]
      /\ allowed \in [Hosts -> 0..TimeLimit]
  BY DEF Clocked
<1>2. CASE UNCHANGED <<at, allowed>>
  BY <1>2 DEF Armed, Busy
<1>3. ASSUME NEW status, Gives(t, status) PROVE Armed'
  <2>1. at' = [at EXCEPT ![t] = "done"] /\ allowed' = allowed
    BY <1>3 DEF Gives, Sets
  <2>2. \A u \in Hosts : u \in Busy' => u \in Busy
    BY <1>1, <2>1 DEF Busy
  <2> QED
    BY <2>1, <2>2 DEF Armed, Busy
<1>4. ASSUME NEW s \in {"open", "body"}, Continues(t, s), Left(t) > 0 PROVE Armed'
  <2>1. at' = [at EXCEPT ![t] = s] /\ allowed' = [allowed EXCEPT ![t] = Left(t)]
    BY <1>4, Limits DEF Continues, Sets, Left
  <2>2. \A u \in Hosts : u \in Busy' => allowed'[u] > 0
    <3> SUFFICES ASSUME NEW u \in Hosts, u \in Busy' PROVE allowed'[u] > 0
      OBVIOUS
    <3>1. CASE u = t
      BY <1>1, <1>4, <2>1, <3>1
    <3>2. CASE u # t
      BY <1>1, <2>1, <3>2 DEF Armed, Busy
    <3> QED
      BY <3>1, <3>2
  <2> QED
    BY <2>2 DEF Armed, Busy
<1> QED
  BY <1>2, <1>3, <1>4 DEF Continues

LEMMA ProbeRunsDown ==
    ASSUME ScanInv, Armed, NEW t \in Hosts, ProbeAdvances(t) \/ ProbeTimesOut(t)
    PROVE  Armed' /\ RunsDown
<1>1. spent \in [Hosts -> Nat] /\ allowed \in [Hosts -> 0..TimeLimit] /\ TimeLimit \in Nat
  BY Limits DEF ScanInv, Clocked
<1>2. PICK d \in Nat \ {0} :
        /\ Elapse(t, d)
        /\ \/ UNCHANGED <<at, allowed>>
           \/ \E status : Gives(t, status)
           \/ \E s \in {"open", "body"} : Continues(t, s)
  <2>1. CASE ProbeTimesOut(t)
    <3>1. allowed[t] \in Nat \ {0}
      BY <1>1, <2>1 DEF ProbeTimesOut, WaitsEnd, Armed
    <3> QED
      BY <2>1, <3>1 DEF ProbeTimesOut
  <2>2. CASE ProbeAdvances(t)
    <3>1. PICK d \in 1..TimeLimit :
            \/ Drip(t, d) \/ ProbeFails(t, d) \/ ProbeEscapes(t, d)
            \/ \E host \in Hosts : Redirected(t, d, host)
            \/ Opened(t, d) \/ ChunkRead(t, d) \/ PageRead(t, d)
      BY <2>2 DEF ProbeAdvances
    <3>2. d \in Nat \ {0}
      BY <1>1
    <3> QED
      BY <3>1, <3>2 DEF Drip, ProbeFails, ProbeEscapes, Redirected, Opened, ChunkRead, PageRead
  <2> QED
    BY <2>1, <2>2
<1>3. /\ UNCHANGED <<scan, waiting, loaded>>
      /\ spent' = [spent EXCEPT ![t] = spent[t] + d]
  BY <1>2 DEF Elapse, catalogVars
<1>4. Armed'
  BY <1>1, <1>2, <1>3, MovesArm DEF ScanInv
<1>5. RunsDown
  <2>1. spent'[t] = spent[t] + d /\ \A u \in Hosts \ {t} : spent'[u] = spent[u]
    BY <1>1, <1>3
  <2>2. ASSUME NEW u \in Hosts PROVE spent'[u] >= spent[u]
    <3>1. spent[u] \in Nat /\ spent[t] \in Nat
      BY <1>1
    <3> QED
      BY <2>1, <3>1
  <2> QED
    BY <1>1, <1>3, <2>1, <2>2 DEF RunsDown
<1> QED
  BY <1>4, <1>5

LEMMA ArmedStep ==
    ASSUME ScanInv, Armed, [ScanNext]_scanVars
    PROVE  /\ Armed'
           /\ scan = "running" /\ scan' = "running" => RunsDown \/ UNCHANGED scanVars
<1>1. ASSUME NEW t \in Hosts, ProbeAdvances(t) \/ ProbeTimesOut(t) PROVE Armed' /\ RunsDown
  BY <1>1, ProbeRunsDown
<1>2. ASSUME NEW valid \in BOOLEAN, TakeTarget(valid) PROVE Armed' /\ RunsDown
  <2>1. /\ Head(waiting) \in Hosts /\ waiting # <<>> /\ waiting' = Tail(waiting)
        /\ UNCHANGED <<scan, loaded, spent>> /\ spent \in [Hosts -> Nat]
        /\ \/ Gives(Head(waiting), "invalid_target")
           \/ Continues(Head(waiting), "open")
    BY <1>2 DEF TakeTarget, ScanInv, Queued, Clocked, catalogVars
  <2>2. Armed'
    BY <2>1, MovesArm DEF ScanInv
  <2> QED
    BY <2>1, <2>2 DEF RunsDown
<1>3. CASE Scan
  BY <1>3 DEF Scan, Armed, Busy, ForAll, catalogVars
<1>4. CASE ScanReturns
  BY <1>4 DEF ScanReturns, Armed, Busy, catalogVars, probeVars
<1>5. CASE Load /\ UNCHANGED <<scan, waiting, probeVars>>
  <2>1. scan = "running" => UNCHANGED scanVars
    BY <1>5 DEF Armed, ScanInv, CatalogInv, Load, scanVars, catalogVars
  <2>2. scan = "running" => loaded' = "ok"
    BY <2>1 DEF Armed, scanVars, catalogVars
  <2> QED
    BY <1>5, <2>1, <2>2 DEF Armed, Busy, probeVars
<1>6. CASE UNCHANGED scanVars
  BY <1>6 DEF Armed, Busy, scanVars, catalogVars, probeVars
<1> QED
  BY <1>1, <1>2, <1>3, <1>4, <1>5, <1>6 DEF ScanNext

\* Each step of a running scan takes a target from the queue or spends time at a
\* probe, and none gives back either: with ProbeBounded every scan has an end to
\* the steps it can take, whatever the targets answer and however many they are
\* (firmware.py 360-391, 536-540).
THEOREM ScansRunDown ==
    ScanSpec => [][scan = "running" /\ scan' = "running" => RunsDown]_scanVars
<1>1. ScanInit => Armed
  BY DEF ScanInit, Armed, Busy, ForAll
<1>2. ScanSpec => []Armed
  BY <1>1, ScanInvHolds, ArmedStep, PTL DEF ScanSpec
<1>3. ScanInv /\ Armed /\ [ScanNext]_scanVars
        => [scan = "running" /\ scan' = "running" => RunsDown]_scanVars
  BY ArmedStep
<1> QED
  BY <1>2, <1>3, ScanInvHolds, PTL DEF ScanSpec
===============================================================================
