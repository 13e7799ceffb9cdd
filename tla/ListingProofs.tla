---------------------------- MODULE ListingProofs ----------------------------
(***************************************************************************)
(* Proofs about the reads of lists that change while they are read: the    *)
(* paginated listings of LegacyLists and the fleet of FleetDevices, for    *)
(* every page size, page limit, number of entries, groups and changes to   *)
(* them, and the DDNS enumeration of Ddns, for any number of gateways and  *)
(* names.                                                                  *)
(***************************************************************************)
EXTENDS LegacyLists, FleetDevices, Ddns, FiniteSetTheorems, SequenceTheorems, TLAPS

-----------------------------------------------------------------------------
(* Ddns. *)

\* What is held while an enumeration runs includes what is bound; a serial that
\* is to be read has no record yet.
DdnsInv ==
    /\ DdnsTypeOK /\ NamesWereBound
    /\ ddnsStep = "next" => \A s \in Sns : bound[s] \in held[s]
    /\ \A r \in records : r[1] \notin unread

LEMMA DdnsInitInv == DdnsInit => DdnsInv
BY DEF DdnsInit, WebInit, DdnsInv, DdnsTypeOK, NamesWereBound, Bindings

LEMMA SessionTyped ==
    ASSUME DdnsTypeOK, LoginReturns \/ LoginRaises \/ SessionEnds \/ UNCHANGED webVars
    PROVE  authed' \in BOOLEAN /\ session' \in {"none", "live", "dead"}
BY DEF DdnsTypeOK, LoginReturns, LoginRaises, SessionEnds, webVars

LEMMA EnumerateKeeps ==
    ASSUME DdnsInv, NEW serials \in SUBSET Sns, Enumerate(serials)
    PROVE  DdnsInv'
<1>1. authed' \in BOOLEAN /\ session' \in {"none", "live", "dead"}
  BY SessionTyped DEF DdnsInv, Enumerate
<1> QED
  BY <1>1 DEF Enumerate, DdnsInv, DdnsTypeOK, NamesWereBound

\* A record of a serial that was still unread: the only one that it has.
LEMMA RecordKeeps ==
    ASSUME DdnsInv, NEW s \in Sns, ReadRecord(s) \/ ReadBlank(s)
    PROVE  DdnsInv'
<1>1. authed' \in BOOLEAN /\ session' \in {"none", "live", "dead"}
  BY SessionTyped DEF DdnsInv, ReadRecord, ReadBlank, WebAnswers, WebDeclines
<1>2. PICK b \in Bindings :
         /\ records' = records \cup {<<s, b>>}
         /\ b = Unbound \/ b \in held[s]
  BY DEF ReadRecord, ReadBlank, BlankRecord, DdnsInv, DdnsTypeOK, Bindings
<1>3. /\ s \in unread /\ unread' = unread \ {s}
      /\ ddnsStep = "next" /\ UNCHANGED <<ddnsStep, ddnsEnd, bound, held>>
  BY DEF ReadRecord, ReadBlank, GoesPast
<1>4. \A r \in records : r[1] # s
  BY <1>3 DEF DdnsInv
<1>5. DdnsTypeOK'
  BY <1>1, <1>2, <1>3, <1>4 DEF DdnsInv, DdnsTypeOK
<1>6. NamesWereBound'
  BY <1>2, <1>3 DEF DdnsInv, NamesWereBound
<1> QED
  BY <1>2, <1>3, <1>4, <1>5, <1>6 DEF DdnsInv

LEMMA LeavingKeeps ==
    ASSUME DdnsInv, NEW s \in Sns, SkipSerial(s) \/ Escape(s)
    PROVE  DdnsInv'
<1>1. authed' \in BOOLEAN /\ session' \in {"none", "live", "dead"}
  BY SessionTyped DEF DdnsInv, SkipSerial, Escape, WebRaises
<1> QED
  BY <1>1 DEF SkipSerial, Escape, GoesPast, DdnsInv, DdnsTypeOK, NamesWereBound

LEMMA ConsoleKeeps ==
    ASSUME DdnsInv,
           \/ \E s \in Sns, b \in Bindings : Bind(s, b)
           \/ ConsoleSessionEnds \/ ReturnRecords \/ UNCHANGED ddnsVars
    PROVE  DdnsInv'
<1>1. authed' \in BOOLEAN /\ session' \in {"none", "live", "dead"}
  BY SessionTyped DEF DdnsInv, Bind, ConsoleSessionEnds, ReturnRecords, ddnsVars
<1>2. ASSUME NEW s \in Sns, NEW b \in Bindings, Bind(s, b) PROVE DdnsInv'
  <2>1. /\ bound' = [bound EXCEPT ![s] = b] /\ bound \in [Sns -> Bindings]
        /\ held \in [Sns -> SUBSET Bindings]
        /\ UNCHANGED <<ddnsStep, unread, records, ddnsEnd>>
    BY <1>2 DEF Bind, DdnsInv, DdnsTypeOK
  <2>2. /\ held' \in [Sns -> SUBSET Bindings] /\ \A t \in Sns : held[t] \subseteq held'[t]
        /\ ddnsStep = "next" => b \in held'[s]
    BY <1>2, <2>1 DEF Bind
  <2>3. DdnsTypeOK'
    BY <1>1, <2>1, <2>2 DEF DdnsInv, DdnsTypeOK
  <2>4. NamesWereBound'
    BY <2>1, <2>2 DEF DdnsInv, DdnsTypeOK, NamesWereBound
  <2> QED
    BY <2>1, <2>2, <2>3, <2>4 DEF DdnsInv
<1>3. CASE ConsoleSessionEnds \/ ReturnRecords \/ UNCHANGED ddnsVars
  BY <1>1, <1>3
     DEF ConsoleSessionEnds, ReturnRecords, ddnsVars, DdnsInv, DdnsTypeOK, NamesWereBound
<1> QED
  BY <1>2, <1>3

LEMMA DdnsStepKeeps == DdnsInv /\ [DdnsNext]_ddnsVars => DdnsInv'
BY EnumerateKeeps, RecordKeeps, LeavingKeeps, ConsoleKeeps DEF DdnsNext, EnumerationStep

LEMMA DdnsInvHolds == DdnsSpec => []DdnsInv
BY DdnsInitInv, DdnsStepKeeps, PTL DEF DdnsSpec

\* A name that the enumeration shows was bound to that very gateway while it
\* ran, however bindings and the session change meanwhile (ddns.py 167-190).
THEOREM NamesStayTrue == DdnsSpec => []NamesWereBound
<1>1. DdnsInv => NamesWereBound
  BY DEF DdnsInv
<1> QED
  BY <1>1, DdnsInvHolds, PTL

\* Every variable keeps its type, and no gateway has two records
\* (ddns.py 178-190).
THEOREM DdnsTyped == DdnsSpec => []DdnsTypeOK
<1>1. DdnsInv => DdnsTypeOK
  BY DEF DdnsInv
<1> QED
  BY <1>1, DdnsInvHolds, PTL

-----------------------------------------------------------------------------
(* Lists without repetition. *)

Distinct(l) == \A i, j \in DOMAIN l : l[i] = l[j] => i = j

LEMMA Product ==
    ASSUME NEW a \in Nat, NEW n \in Nat
    PROVE  a * n \in Nat /\ (a + 1) * n = a * n + n
OBVIOUS

\* A list without repetition has as many entries as members.
LEMMA MembersCounted ==
    ASSUME NEW S, NEW l \in Seq(S), Distinct(l)
    PROVE  IsFiniteSet(ToSet(l)) /\ Cardinality(ToSet(l)) = Len(l)
<1>1. Len(l) \in Nat /\ DOMAIN l = 1..Len(l)
  OBVIOUS
<1>2. l \in Bijection(1..Len(l), ToSet(l))
  BY <1>1 DEF Distinct, ToSet, Bijection, Injection, Surjection, IsInjective
<1>3. ExistsBijection(1..Len(l), ToSet(l))
  BY <1>2 DEF ExistsBijection
<1> QED
  BY <1>1, <1>3, FS_CountingElements, FS_NatBijection

LEMMA OrderTyped ==
    ASSUME NEW l \in Seq(Devices), Distinct(l)
    PROVE  l \in Orders
<1>1. Len(l) \in Nat /\ DOMAIN l = 1..Len(l) /\ ToSet(l) \in SUBSET Devices
  BY DEF ToSet
<1>2. Cardinality(ToSet(l)) = Len(l)
  BY MembersCounted
<1>3. l \in [1..Len(l) -> ToSet(l)]
  BY <1>1 DEF ToSet
<1>4. l \in SetToSeqs(ToSet(l))
  BY <1>1, <1>2, <1>3 DEF SetToSeqs, Distinct
<1> QED
  BY <1>1, <1>4 DEF Orders

LEMMA OrderSeq ==
    ASSUME NEW l \in Orders
    PROVE  l \in Seq(Devices) /\ Distinct(l)
<1>1. PICK S \in SUBSET Devices : l \in SetToSeqs(S)
  BY DEF Orders
<1>2. l \in [1..Cardinality(S) -> Devices]
  BY <1>1 DEF SetToSeqs
<1>3. Distinct(l)
  BY <1>1 DEF SetToSeqs, Distinct
<1>4. Cardinality(S) \in Nat
  BY CloudAssumption, FS_Subset, FS_CardinalityType
<1> QED
  BY <1>2, <1>3, <1>4


-----------------------------------------------------------------------------
(* The account. *)

\* What is there throughout is there, as long as it is not retired or moved.
AccountInv == CloudTypeOK /\ stable \subseteq ToSet(listing)

\* A list without the entry at one place.
LEMMA WithoutOne ==
    ASSUME NEW S, NEW l \in Seq(S), NEW k \in 1..Len(l)
    PROVE  /\ RemoveAt(l, k) \in Seq(S) /\ DOMAIN RemoveAt(l, k) = 1..(Len(l) - 1)
           /\ \A i \in 1..(k - 1) : RemoveAt(l, k)[i] = l[i]
           /\ \A i \in k..(Len(l) - 1) : RemoveAt(l, k)[i] = l[i + 1]
<1> DEFINE left == SubSeq(l, 1, k - 1)
           right == SubSeq(l, k + 1, Len(l))
<1>1. k \in Nat /\ Len(l) \in Nat /\ 1 <= k /\ k <= Len(l)
  OBVIOUS
<1>2. left \in Seq(S) /\ Len(left) = k - 1 /\ \A i \in 1..(k - 1) : left[i] = l[i]
  BY <1>1
<1>3. /\ right \in Seq(S) /\ Len(right) = Len(l) - k
      /\ \A i \in 1..(Len(l) - k) : right[i] = l[k + i]
  BY <1>1
<1>4. RemoveAt(l, k) = left \o right
  BY DEF RemoveAt
<1> HIDE DEF left, right
<1>5. /\ left \o right \in Seq(S) /\ Len(left \o right) = Len(left) + Len(right)
      /\ \A i \in 1..(Len(left) + Len(right)) :
           (left \o right)[i] = IF i <= Len(left) THEN left[i] ELSE right[i - Len(left)]
  BY <1>2, <1>3, ConcatProperties
<1>6. \A i \in 1..(k - 1) : (left \o right)[i] = l[i]
  BY <1>1, <1>2, <1>3, <1>5
<1>7. ASSUME NEW i \in k..(Len(l) - 1) PROVE (left \o right)[i] = l[i + 1]
  <2>1. i - (k - 1) \in 1..(Len(l) - k) /\ k + (i - (k - 1)) = i + 1
    BY <1>1
  <2>2. (left \o right)[i] = right[i - (k - 1)]
    BY <1>1, <1>2, <1>3, <1>5, <2>1
  <2> QED
    BY <1>3, <2>1, <2>2
<1>8. DOMAIN (left \o right) = 1..(Len(l) - 1)
  BY <1>1, <1>2, <1>3, <1>5
<1> QED
  BY <1>4, <1>5, <1>6, <1>7, <1>8

\* What a change of the account leaves of it.
LEMMA ChurnKeeps ==
    ASSUME AccountInv, Churn
    PROVE  /\ AccountInv'
           /\ changes' # 0
           /\ departures' = 0 => /\ departures = 0 /\ stable' = stable
                                 /\ ToSet(listing) \subseteq ToSet(listing')
                                 /\ \A i \in DOMAIN listing' : listing'[i] \in ToSet(listing) =>
                                      \E j \in DOMAIN listing : j <= i /\ listing[j] = listing'[i]
<1>1. /\ listing \in Seq(Devices) /\ Distinct(listing)
      /\ changes \in 0..MaxChanges /\ departures \in 0..changes /\ MaxChanges \in Nat
      /\ Len(listing) \in Nat /\ DOMAIN listing = 1..Len(listing)
      /\ home \in [Devices -> GroupSet] /\ blind \in BOOLEAN
      /\ stable \subseteq ToSet(listing) /\ stable \subseteq Devices /\ everListed \subseteq Devices
  BY OrderSeq, CloudAssumption DEF AccountInv, CloudTypeOK
<1>2. PICK d \in Devices : Adopt(d) \/ Retire(d) \/ Move(d)
  BY DEF Churn
<1>3. /\ changes' \in 0..MaxChanges /\ changes' # 0 /\ changes' = changes + 1
      /\ departures + 1 \in 0..changes' /\ departures \in 0..changes' /\ departures + 1 # 0
  BY <1>1, <1>2 DEF Adopt, Retire, Move, Change
<1>4. home' \in [Devices -> GroupSet]
  BY <1>1, <1>2 DEF Adopt, Retire, Move
<1>5. CASE Adopt(d)
  <2>1. /\ d \notin ToSet(listing) /\ UNCHANGED <<blind, stable, departures>>
        /\ everListed' = everListed \cup {d}
    BY <1>5 DEF Adopt
  <2>2. CASE listing' = <<d>> \o listing
    <3>1. /\ listing' \in Seq(Devices) /\ Len(listing') = Len(listing) + 1
          /\ DOMAIN listing' = 1..(Len(listing) + 1)
          /\ listing'[1] = d /\ \A i \in 1..Len(listing) : listing'[i + 1] = listing[i]
      BY <1>1, <2>2
    <3>2. \A i \in DOMAIN listing' :
             i = 1 \/ (i - 1 \in 1..Len(listing) /\ listing'[i] = listing[i - 1])
      BY <1>1, <3>1
    <3>3. Distinct(listing')
      BY <1>1, <2>1, <3>1, <3>2 DEF Distinct, ToSet
    <3>4. ToSet(listing) \subseteq ToSet(listing')
      BY <1>1, <3>1 DEF ToSet
    <3>5. ASSUME NEW i \in DOMAIN listing', listing'[i] \in ToSet(listing)
          PROVE  \E j \in DOMAIN listing : j <= i /\ listing[j] = listing'[i]
      BY <1>1, <2>1, <3>1, <3>2, <3>5
    <3>6. listing' \in Orders
      BY <3>1, <3>3, OrderTyped
    <3> QED
      BY <1>1, <1>3, <1>4, <2>1, <3>4, <3>5, <3>6 DEF AccountInv, CloudTypeOK
  <2>3. CASE listing' = Append(listing, d)
    <3>1. /\ listing' \in Seq(Devices) /\ Len(listing') = Len(listing) + 1
          /\ DOMAIN listing' = 1..(Len(listing) + 1)
          /\ listing'[Len(listing) + 1] = d /\ \A i \in 1..Len(listing) : listing'[i] = listing[i]
      BY <1>1, <2>3
    <3>2. Distinct(listing')
      BY <1>1, <2>1, <3>1 DEF Distinct, ToSet
    <3>3. ToSet(listing) \subseteq ToSet(listing')
      BY <1>1, <3>1 DEF ToSet
    <3>4. ASSUME NEW i \in DOMAIN listing', listing'[i] \in ToSet(listing)
          PROVE  \E j \in DOMAIN listing : j <= i /\ listing[j] = listing'[i]
      BY <1>1, <2>1, <3>1, <3>4
    <3>5. listing' \in Orders
      BY <3>1, <3>2, OrderTyped
    <3> QED
      BY <1>1, <1>3, <1>4, <2>1, <3>3, <3>4, <3>5 DEF AccountInv, CloudTypeOK
  <2> QED
    BY <1>5, <2>2, <2>3 DEF Adopt
<1>6. CASE Retire(d)
  <2>1. PICK k \in DOMAIN listing : listing[k] = d /\ listing' = RemoveAt(listing, k)
    BY <1>6 DEF Retire
  <2>2. /\ listing' \in Seq(Devices) /\ DOMAIN listing' = 1..(Len(listing) - 1)
        /\ \A i \in 1..(k - 1) : listing'[i] = listing[i]
        /\ \A i \in k..(Len(listing) - 1) : listing'[i] = listing[i + 1]
    <3>1. listing \in Seq(Devices) /\ k \in 1..Len(listing)
      BY <1>1
    <3>2. /\ RemoveAt(listing, k) \in Seq(Devices)
          /\ DOMAIN RemoveAt(listing, k) = 1..(Len(listing) - 1)
          /\ \A i \in 1..(k - 1) : RemoveAt(listing, k)[i] = listing[i]
          /\ \A i \in k..(Len(listing) - 1) : RemoveAt(listing, k)[i] = listing[i + 1]
      BY ONLY <3>1, WithoutOne, Zenon
    <3> QED
      BY ONLY <2>1, <3>2, Zenon
  <2>3. Distinct(listing')
    <3> SUFFICES ASSUME NEW i \in DOMAIN listing', NEW j \in DOMAIN listing',
                        listing'[i] = listing'[j]
                 PROVE  i = j
      BY DEF Distinct
    <3>1. k \in 1..Len(listing) /\ i \in 1..(Len(listing) - 1) /\ j \in 1..(Len(listing) - 1)
      BY <1>1, <2>2
    <3>2. \A n \in 1..(Len(listing) - 1) : \E m \in 1..Len(listing) :
             listing'[n] = listing[m] /\ ((m = n /\ n < k) \/ (m = n + 1 /\ k <= n))
      <4> TAKE n \in 1..(Len(listing) - 1)
      <4>1. CASE n < k
        <5>1. n \in 1..(k - 1) /\ n \in 1..Len(listing)
          BY <1>1, <3>1, <4>1
        <5> QED
          BY <2>2, <4>1, <5>1
      <4>2. CASE k <= n
        <5>1. n \in k..(Len(listing) - 1) /\ n + 1 \in 1..Len(listing)
          BY <1>1, <3>1, <4>2
        <5> QED
          BY <2>2, <4>2, <5>1
      <4> QED
        BY <1>1, <3>1, <4>1, <4>2
    <3>3. PICK m \in 1..Len(listing), n \in 1..Len(listing) :
            /\ listing'[i] = listing[m] /\ ((m = i /\ i < k) \/ (m = i + 1 /\ k <= i))
            /\ listing'[j] = listing[n] /\ ((n = j /\ j < k) \/ (n = j + 1 /\ k <= j))
      BY <3>1, <3>2
    <3>4. m = n
      BY <1>1, <3>3 DEF Distinct
    <3> QED
      BY <3>1, <3>3, <3>4
  <2>4. ASSUME NEW e \in ToSet(listing), e # d PROVE e \in ToSet(listing')
    <3>1. PICK i \in 1..Len(listing) : listing[i] = e /\ i # k
      BY <1>1, <2>1, <2>4 DEF ToSet
    <3>2. CASE i < k
      BY <1>1, <2>2, <3>1, <3>2 DEF ToSet
    <3>3. CASE i > k
      <4>1. i - 1 \in k..(Len(listing) - 1) /\ listing'[i - 1] = e /\ i - 1 \in DOMAIN listing'
        BY <1>1, <2>1, <2>2, <3>1, <3>3
      <4> QED
        BY <4>1 DEF ToSet
    <3> QED
      BY <1>1, <3>1, <3>2, <3>3
  <2>5. listing' \in Orders /\ stable' = stable \ {d} /\ departures' = departures + 1
        /\ UNCHANGED <<home, blind, everListed>>
    BY <1>6, <2>2, <2>3, OrderTyped DEF Retire
  <2> QED
    BY <1>1, <1>3, <2>4, <2>5 DEF AccountInv, CloudTypeOK
<1>7. CASE Move(d)
  BY <1>1, <1>3, <1>4, <1>7 DEF Move, AccountInv, CloudTypeOK
<1> QED
  BY <1>2, <1>5, <1>6, <1>7


-----------------------------------------------------------------------------
(* One page. *)

\* The entries of a page that begins behind the first k of a list.
IsPage(e, l, k) ==
    /\ e \in Seq(Devices)
    /\ Len(e) = IF Len(l) <= k THEN 0
                ELSE IF Len(l) <= k + ListPerPage THEN Len(l) - k ELSE ListPerPage
    /\ \A i \in 1..Len(e) : k + i \in DOMAIN l /\ e[i] = l[k + i]

LEMMA PageShows ==
    ASSUME NEW l \in Seq(Devices), NEW n \in Nat
    PROVE  n * ListPerPage \in Nat /\ IsPage(PageOf(l, n + 1, ListPerPage), l, n * ListPerPage)
<1> DEFINE k == n * ListPerPage
           last == IF (n + 1) * ListPerPage < Len(l) THEN (n + 1) * ListPerPage ELSE Len(l)
<1>1. ListPerPage \in Nat \ {0} /\ Len(l) \in Nat
  BY LegacyAssumption
<1>2. k \in Nat /\ (n + 1) * ListPerPage = k + ListPerPage /\ (n + 1) - 1 = n
  BY <1>1, Product
<1>3. PageOf(l, n + 1, ListPerPage) = SubSeq(l, k + 1, last)
  BY <1>2 DEF PageOf
<1>4. last = IF k + ListPerPage < Len(l) THEN k + ListPerPage ELSE Len(l)
  BY <1>2
<1> HIDE DEF k, last
<1>5. k + 1 \in Int /\ last \in Int /\ last <= Len(l)
  BY <1>1, <1>2, <1>4
<1>6. \A i \in (k + 1)..last : l[i] \in Devices
  BY <1>1, <1>2, <1>5
<1>7. /\ SubSeq(l, k + 1, last) \in Seq(Devices)
      /\ Len(SubSeq(l, k + 1, last)) = IF k + 1 <= last THEN last - (k + 1) + 1 ELSE 0
      /\ \A i \in 1..(last - (k + 1) + 1) : SubSeq(l, k + 1, last)[i] = l[k + 1 + i - 1]
  BY <1>5, <1>6, SubSeqProperties
<1>8. ASSUME NEW i \in 1..Len(SubSeq(l, k + 1, last))
      PROVE  k + i \in DOMAIN l /\ SubSeq(l, k + 1, last)[i] = l[k + i]
  <2>1. i \in 1..(last - (k + 1) + 1) /\ k + 1 + i - 1 = k + i /\ k + i \in 1..Len(l)
    BY <1>1, <1>2, <1>5, <1>7
  <2> QED
    BY <1>7, <2>1
<1>9. Len(SubSeq(l, k + 1, last)) = IF Len(l) <= k THEN 0
        ELSE IF Len(l) <= k + ListPerPage THEN Len(l) - k ELSE ListPerPage
  BY <1>1, <1>2, <1>4, <1>7
<1>10. k = n * ListPerPage
  BY DEF k
<1> QED
  BY <1>2, <1>3, <1>7, <1>8, <1>9, <1>10 DEF IsPage

\* Entries of a page behind those listed so far.
LEMMA PageAppends ==
    ASSUME NEW s \in Seq(Devices), NEW e \in Seq(Devices)
    PROVE  /\ s \o e \in Seq(Devices) /\ Len(s \o e) = Len(s) + Len(e)
           /\ \A i \in 1..(Len(s) + Len(e)) :
                (s \o e)[i] = IF i <= Len(s) THEN s[i] ELSE e[i - Len(s)]
           /\ ToSet(s \o e) = ToSet(s) \cup ToSet(e)
           /\ Distinct(s) /\ Distinct(e) /\ ToSet(s) \cap ToSet(e) = {} => Distinct(s \o e)
<1>1. /\ s \o e \in Seq(Devices) /\ Len(s \o e) = Len(s) + Len(e)
      /\ \A i \in 1..(Len(s) + Len(e)) :
           (s \o e)[i] = IF i <= Len(s) THEN s[i] ELSE e[i - Len(s)]
  BY ConcatProperties
<1>2. /\ Len(s) \in Nat /\ Len(e) \in Nat /\ DOMAIN s = 1..Len(s) /\ DOMAIN e = 1..Len(e)
      /\ DOMAIN (s \o e) = 1..(Len(s) + Len(e))
  BY <1>1
<1>3. ASSUME NEW i \in 1..Len(s) PROVE i \in 1..(Len(s) + Len(e)) /\ (s \o e)[i] = s[i]
  BY <1>1, <1>2
<1>4. ASSUME NEW i \in 1..Len(e)
      PROVE  Len(s) + i \in 1..(Len(s) + Len(e)) /\ (s \o e)[Len(s) + i] = e[i]
  <2>1. Len(s) + i \in 1..(Len(s) + Len(e)) /\ ~(Len(s) + i <= Len(s)) /\ Len(s) + i - Len(s) = i
    BY <1>2
  <2> QED
    BY <1>1, <2>1
<1>5. ASSUME NEW i \in 1..(Len(s) + Len(e))
      PROVE  \/ i \in 1..Len(s) /\ (s \o e)[i] = s[i]
             \/ i - Len(s) \in 1..Len(e) /\ (s \o e)[i] = e[i - Len(s)]
  BY <1>1, <1>2
<1>6. ToSet(s \o e) = ToSet(s) \cup ToSet(e)
  <2>1. ToSet(s) \subseteq ToSet(s \o e)
    BY <1>2, <1>3 DEF ToSet
  <2>2. ToSet(e) \subseteq ToSet(s \o e)
    BY <1>2, <1>4 DEF ToSet
  <2>3. ToSet(s \o e) \subseteq ToSet(s) \cup ToSet(e)
    BY <1>2, <1>5 DEF ToSet
  <2> QED
    BY <2>1, <2>2, <2>3
<1>7. ASSUME Distinct(s), Distinct(e), ToSet(s) \cap ToSet(e) = {} PROVE Distinct(s \o e)
  <2> SUFFICES ASSUME NEW i \in 1..(Len(s) + Len(e)), NEW j \in 1..(Len(s) + Len(e)),
                      (s \o e)[i] = (s \o e)[j]
               PROVE  i = j
    BY <1>2 DEF Distinct
  <2>1. CASE i \in 1..Len(s) /\ (s \o e)[i] = s[i]
    <3>1. j \in 1..Len(s) /\ (s \o e)[j] = s[j]
      BY <1>2, <1>5, <1>7, <2>1 DEF ToSet
    <3> QED
      BY <1>2, <1>7, <2>1, <3>1 DEF Distinct
  <2>2. CASE i - Len(s) \in 1..Len(e) /\ (s \o e)[i] = e[i - Len(s)]
    <3>1. j - Len(s) \in 1..Len(e) /\ (s \o e)[j] = e[j - Len(s)]
      BY <1>2, <1>5, <1>7, <2>2 DEF ToSet
    <3>2. i - Len(s) = j - Len(s)
      BY <1>2, <1>7, <2>2, <3>1 DEF Distinct
    <3> QED
      BY <1>2, <3>2
  <2> QED
    BY <1>5, <2>1, <2>2
<1> QED
  BY <1>1, <1>6, <1>7


-----------------------------------------------------------------------------
(* The listings. *)

\* What n pages have gathered: no client twice; nothing that is not there, nor
\* less of what stays than they reach over, unless something left; the first
\* entries of an account at rest, or the one page that a stuck endpoint shows.
Gathered(l, n) ==
    /\ l \in Seq(Devices)
    /\ kind = "clients" => Distinct(l)
    /\ departures = 0 =>
         /\ ToSet(l) \subseteq ToSet(listing)
         /\ ~stuck => \A i \in DOMAIN listing :
              i <= n * ListPerPage /\ listing[i] \in stable => listing[i] \in ToSet(l)
    /\ changes = 0 =>
         /\ ~stuck =>
              /\ Len(l) = IF Len(listing) <= n * ListPerPage THEN Len(listing)
                                                              ELSE n * ListPerPage
              /\ \A i \in 1..Len(l) : i \in DOMAIN listing /\ l[i] = listing[i]
         /\ stuck /\ kind = "clients" => l = <<>> \/ (l # <<>> /\ IsPage(l, listing, 0))

\* What a list that is returned shows.
Told(l) ==
    /\ changes = 0 /\ (stuck => kind = "clients") => l = listing
    /\ departures = 0 /\ ~stuck => stable \subseteq ToSet(l)

ListInv ==
    /\ AccountInv /\ ListTypeOK
    /\ listPhase = "reading" => pagesAsked < ListMaxPages /\ Gathered(listed, pagesAsked)
    /\ listResult = "ok" => listPhase = "idle" /\ Told(listed)

LEMMA ListInitInv == ListInit => ListInv
<1> SUFFICES ASSUME ListInit PROVE ListInv
  OBVIOUS
<1>1. MaxChanges \in Nat /\ ListMaxPages \in Nat /\ 0 \in 0..MaxChanges /\ 0 \in 0..ListMaxPages
      /\ 0 \in 0..0
  BY LegacyAssumption, CloudAssumption
<1>2. changes \in 0..MaxChanges /\ departures \in 0..changes
  BY <1>1 DEF ListInit, CloudInit
<1>3. listing \in Orders /\ home \in [Devices -> GroupSet] /\ stable = {} /\ everListed = {}
  BY DEF ListInit, CloudInit
<1>4. blind \in BOOLEAN
  BY DEF ListInit, CloudInit
<1>5. AccountInv
  BY <1>2, <1>3, <1>4 DEF AccountInv, CloudTypeOK
<1> QED
  <2>1. pagesAsked \in 0..ListMaxPages /\ listed \in Seq(Devices)
    BY <1>1, EmptySeq DEF ListInit
  <2>2. ListTypeOK
    BY <1>5, <2>1 DEF ListInit, AccountInv, ListTypeOK
  <2> QED
    BY <1>5, <2>2 DEF ListInit, ListInv

LEMMA StartKeeps ==
    ASSUME ListInv, ListStart
    PROVE  ListInv'
<1>1. /\ changes' = 0 /\ departures' = 0 /\ stable' = ToSet(listing) /\ everListed' = ToSet(listing)
      /\ UNCHANGED <<listing, home, blind>> /\ kind' \in ListKinds
      /\ listPhase' = "reading" /\ pagesAsked' = 0 /\ listed' = <<>>
      /\ stuck' \in BOOLEAN /\ listResult' = "none"
  BY LegacyAssumption DEF ListStart, Observe
<1>2. /\ listing \in Seq(Devices) /\ Distinct(listing) /\ ToSet(listing) \subseteq Devices
      /\ MaxChanges \in Nat /\ ListMaxPages \in Nat \ {0} /\ 0 < ListMaxPages
      /\ 0 * ListPerPage = 0 /\ Len(listing) \in Nat /\ DOMAIN listing = 1..Len(listing)
  <2>1. listing \in Seq(Devices) /\ Distinct(listing)
    BY OrderSeq DEF ListInv, AccountInv, CloudTypeOK
  <2> QED
    BY <2>1, LegacyAssumption, CloudAssumption DEF ToSet
<1>3. AccountInv' /\ ListTypeOK'
  BY <1>1, <1>2 DEF ListInv, AccountInv, ListTypeOK, CloudTypeOK
<1>4. Gathered(listed, pagesAsked)'
  BY <1>1, <1>2 DEF Gathered, Distinct, ToSet
<1> QED
  BY <1>1, <1>2, <1>3, <1>4 DEF ListInv

\* The page that is shown is one of the account's, or the first one again.
LEMMA EntriesShown ==
    ASSUME ListInv, listPhase = "reading"
    PROVE  /\ pagesAsked * ListPerPage \in Nat
           /\ IsPage(ListEntries, listing, IF stuck THEN 0 ELSE pagesAsked * ListPerPage)
<1>1. pagesAsked \in Nat /\ kind \in ListKinds /\ listing \in Seq(Devices)
  BY LegacyAssumption, OrderSeq DEF ListInv, AccountInv, ListTypeOK, CloudTypeOK
<1>2. PageIndex(kind, pagesAsked) - ApiBase(kind) + 1 = pagesAsked + 1 /\ ~(pagesAsked + 1 < 1)
  BY <1>1 DEF PageIndex, ApiBase, ListKinds
<1>3. ListEntries = PageOf(listing, IF stuck THEN 0 + 1 ELSE pagesAsked + 1, ListPerPage)
  BY <1>2 DEF ListEntries
<1>4. 0 * ListPerPage = 0
  BY LegacyAssumption
<1> QED
  BY <1>1, <1>3, <1>4, PageShows

LEMMA PageOfAccount ==
    ASSUME NEW e, NEW k \in Nat, listing \in Seq(Devices), Distinct(listing), IsPage(e, listing, k)
    PROVE  Distinct(e) /\ ToSet(e) \subseteq ToSet(listing)
<1>1. /\ e \in Seq(Devices) /\ DOMAIN e = 1..Len(e) /\ Len(e) \in Nat
      /\ \A i \in 1..Len(e) : k + i \in DOMAIN listing /\ e[i] = listing[k + i]
  BY DEF IsPage
<1>2. ToSet(e) \subseteq ToSet(listing)
  BY <1>1 DEF ToSet
<1>3. ASSUME NEW i \in 1..Len(e), NEW j \in 1..Len(e), e[i] = e[j] PROVE i = j
  <2>1. k + i = k + j
    BY <1>1, <1>3 DEF Distinct
  <2> QED
    BY <1>1, <2>1
<1> QED
  BY <1>1, <1>2, <1>3 DEF Distinct

\* A page of m entries behind the first k of n.
LEMMA PageReaches ==
    ASSUME NEW k \in Nat, NEW n \in Nat, NEW per \in Nat \ {0}, NEW m \in Nat,
           m = IF n <= k THEN 0 ELSE IF n <= k + per THEN n - k ELSE per
    PROVE  /\ \A i \in 1..n : i <= k + per /\ ~(i <= k) => i - k \in 1..m /\ k + (i - k) = i
           /\ (IF n <= k THEN n ELSE k) + m = IF n <= k + per THEN n ELSE k + per
           /\ \A i \in 1..((IF n <= k THEN n ELSE k) + m) :
                i \in 1..n /\ (i <= (IF n <= k THEN n ELSE k) \/ (i - k \in 1..m /\ ~(n <= k)))
OBVIOUS

\* A page is taken in: the entries reach over one page more.
LEMMA TakenGathered ==
    ASSUME ListInv, listPhase = "reading", ListEntries # <<>>, ~Repeated(ListEntries)
    PROVE  Gathered(listed \o ListEntries, pagesAsked + 1) /\ listed \o ListEntries # <<>>
<1> DEFINE e == ListEntries
           l == listed
           k == pagesAsked * ListPerPage
<1>1. /\ listing \in Seq(Devices) /\ Distinct(listing) /\ Gathered(l, pagesAsked)
      /\ l \in Seq(Devices) /\ Len(l) \in Nat /\ DOMAIN l = 1..Len(l)
      /\ Len(listing) \in Nat /\ DOMAIN listing = 1..Len(listing)
      /\ pagesAsked \in Nat /\ ListPerPage \in Nat \ {0} /\ stuck \in BOOLEAN
  BY LegacyAssumption, OrderSeq DEF ListInv, AccountInv, ListTypeOK, CloudTypeOK
<1>2. /\ k \in Nat /\ IsPage(e, listing, IF stuck THEN 0 ELSE k)
      /\ (pagesAsked + 1) * ListPerPage = k + ListPerPage
  BY <1>1, EntriesShown, Product
<1>3. /\ e \in Seq(Devices) /\ Len(e) \in Nat /\ DOMAIN e = 1..Len(e) /\ Distinct(e) /\ e # <<>>
      /\ ToSet(e) \subseteq ToSet(listing)
  <2>1. e \in Seq(Devices)
    BY <1>2 DEF IsPage
  <2>2. (IF stuck THEN 0 ELSE k) \in Nat
    BY <1>2
  <2>3. Distinct(e) /\ ToSet(e) \subseteq ToSet(listing)
    BY <1>1, <1>2, <2>2, PageOfAccount
  <2> QED
    BY <2>1, <2>3
<1>4. kind = "clients" => ToSet(l) \cap ToSet(e) = {}
  BY DEF Repeated
<1> HIDE DEF e, l, k
<1>5. /\ l \o e \in Seq(Devices) /\ Len(l \o e) = Len(l) + Len(e)
      /\ \A i \in 1..(Len(l) + Len(e)) :
           (l \o e)[i] = IF i <= Len(l) THEN l[i] ELSE e[i - Len(l)]
      /\ ToSet(l \o e) = ToSet(l) \cup ToSet(e)
      /\ Distinct(l) /\ Distinct(e) /\ ToSet(l) \cap ToSet(e) = {} => Distinct(l \o e)
  BY <1>1, <1>3, PageAppends
<1>reach. ~stuck =>
         /\ \A i \in 1..Len(listing) :
              i <= k + ListPerPage /\ ~(i <= k) => i - k \in 1..Len(e) /\ k + (i - k) = i
         /\ (IF Len(listing) <= k THEN Len(listing) ELSE k) + Len(e)
              = IF Len(listing) <= k + ListPerPage THEN Len(listing) ELSE k + ListPerPage
         /\ \A i \in 1..((IF Len(listing) <= k THEN Len(listing) ELSE k) + Len(e)) :
              /\ i \in 1..Len(listing)
              /\ \/ i <= (IF Len(listing) <= k THEN Len(listing) ELSE k)
                 \/ i - k \in 1..Len(e) /\ ~(Len(listing) <= k)
  <2>1. ~stuck => Len(e) = IF Len(listing) <= k THEN 0
                           ELSE IF Len(listing) <= k + ListPerPage THEN Len(listing) - k
                           ELSE ListPerPage
    BY <1>2 DEF IsPage
  <2> QED
    BY <1>1, <1>2, <1>3, <2>1, PageReaches
<1>6. kind = "clients" => Distinct(l \o e)
  BY <1>1, <1>3, <1>4, <1>5 DEF Gathered
<1>7. departures = 0 => ToSet(l \o e) \subseteq ToSet(listing)
  BY <1>1, <1>3, <1>5 DEF Gathered
<1>8. ASSUME departures = 0, ~stuck, NEW i \in DOMAIN listing, i <= k + ListPerPage,
             listing[i] \in stable
      PROVE  listing[i] \in ToSet(l \o e)
  <2>1. CASE i <= k
    BY <1>1, <1>5, <1>8, <2>1 DEF Gathered, k
  <2>2. CASE ~(i <= k)
    <3>1. i - k \in 1..Len(e) /\ k + (i - k) = i
      BY <1>1, <1>8, <1>reach, <2>2
    <3>3. e[i - k] = listing[k + (i - k)]
      BY <1>2, <1>8, <3>1 DEF IsPage
    <3>2. listing[i] \in ToSet(e)
      BY <1>3, <3>1, <3>3 DEF ToSet
    <3> QED
      BY <1>5, <3>2
  <2> QED
    BY <2>1, <2>2
<1>9. ASSUME changes = 0, ~stuck
      PROVE  /\ Len(l \o e) = IF Len(listing) <= k + ListPerPage THEN Len(listing)
                                                                 ELSE k + ListPerPage
             /\ \A i \in 1..Len(l \o e) : i \in DOMAIN listing /\ (l \o e)[i] = listing[i]
  <2>1. /\ Len(l) = IF Len(listing) <= k THEN Len(listing) ELSE k
        /\ \A i \in 1..Len(l) : i \in DOMAIN listing /\ l[i] = listing[i]
    BY <1>1, <1>9 DEF Gathered, k
  <2>2. \A i \in 1..Len(e) : k + i \in DOMAIN listing /\ e[i] = listing[k + i]
    BY <1>2, <1>9 DEF IsPage
  <2>3. Len(l \o e) = IF Len(listing) <= k + ListPerPage THEN Len(listing) ELSE k + ListPerPage
    BY <1>5, <1>9, <1>reach, <2>1
  <2>4. ASSUME NEW i \in 1..Len(l \o e) PROVE i \in DOMAIN listing /\ (l \o e)[i] = listing[i]
    <3>1. /\ i \in 1..(Len(l) + Len(e)) /\ i \in DOMAIN listing
          /\ i <= Len(l) \/ (i - k \in 1..Len(e) /\ ~(Len(listing) <= k))
      BY <1>1, <1>5, <1>9, <1>reach, <2>1
    <3>2. CASE i <= Len(l)
      <4>1. i \in 1..Len(l)
        BY <1>1, <3>1, <3>2
      <4> QED
        BY <1>5, <2>1, <3>1, <3>2, <4>1
    <3>3. CASE ~(i <= Len(l))
      <4>1. i - k \in 1..Len(e) /\ Len(l) = k
        BY <2>1, <3>1, <3>3
      <4>2. k + (i - k) = i
        BY <1>2, <3>1
      <4> QED
        BY <1>5, <2>2, <3>1, <3>3, <4>1, <4>2
    <3> QED
      BY <3>2, <3>3
  <2> QED
    BY <2>3, <2>4
<1>10. ASSUME changes = 0, stuck, kind = "clients" PROVE IsPage(l \o e, listing, 0)
  <2>1. IsPage(e, listing, 0) /\ 1 \in 1..Len(e) /\ e[1] \in ToSet(e)
    BY <1>2, <1>3, <1>10 DEF ToSet
  <2>2. l = <<>>
    <3> SUFFICES ASSUME l # <<>>, IsPage(l, listing, 0) PROVE FALSE
      BY <1>1, <1>10 DEF Gathered
    <3>1. 1 \in 1..Len(l) /\ l[1] = listing[0 + 1] /\ e[1] = listing[0 + 1]
      BY <1>1, <2>1 DEF IsPage
    <3>2. e[1] \in ToSet(l)
      BY <1>1, <3>1 DEF ToSet
    <3> QED
      BY <1>4, <1>10, <2>1, <3>2
  <2>3. l \o e = e
    BY <1>3, <2>2, ConcatEmptySeq
  <2> QED
    BY <2>1, <2>3
<1>11. l \o e # <<>>
  <2>1. Len(e) # 0
    BY <1>3
  <2> QED
    BY <1>1, <1>3, <1>5, <2>1
<1>12. Gathered(l \o e, pagesAsked + 1)
  BY <1>2, <1>5, <1>6, <1>7, <1>8, <1>9, <1>10, <1>11 DEF Gathered
<1> QED
  BY <1>11, <1>12 DEF l, e


\* A list that is complete, by the count or by a short page, tells no less than
\* what it should.
LEMMA CompleteTold ==
    ASSUME ListInv, listPhase = "reading", ListEntries # <<>>, ~Repeated(ListEntries),
           ListComplete(ListEntries, listed \o ListEntries)
    PROVE  Told(listed \o ListEntries)
<1> DEFINE e == ListEntries
           l == listed \o ListEntries
           k == pagesAsked * ListPerPage
<1>1. /\ listing \in Seq(Devices) /\ Distinct(listing) /\ stable \subseteq ToSet(listing)
      /\ Len(listing) \in Nat /\ DOMAIN listing = 1..Len(listing)
      /\ pagesAsked \in Nat /\ ListPerPage \in Nat \ {0} /\ stuck \in BOOLEAN
      /\ kind \in ListKinds /\ changes \in Nat /\ departures \in 0..changes
  BY LegacyAssumption, CloudAssumption, OrderSeq DEF ListInv, AccountInv, ListTypeOK, CloudTypeOK
<1>2. /\ k \in Nat /\ IsPage(e, listing, IF stuck THEN 0 ELSE k)
      /\ (pagesAsked + 1) * ListPerPage = k + ListPerPage
  BY <1>1, EntriesShown, Product
<1>3. Gathered(l, pagesAsked + 1)
  BY TakenGathered
<1>4. l \in Seq(Devices) /\ Len(l) \in Nat /\ DOMAIN l = 1..Len(l)
  BY <1>3 DEF Gathered
<1>5. CASE kind = "clients"
  <2>1. Distinct(l) /\ Len(l) >= Len(listing)
    BY <1>3, <1>5 DEF Gathered, ListComplete
  <2>2. ASSUME departures = 0 PROVE ToSet(l) = ToSet(listing) /\ Len(l) = Len(listing)
    <3>1. ToSet(l) \subseteq ToSet(listing)
      BY <1>3, <2>2 DEF Gathered
    <3>2. /\ IsFiniteSet(ToSet(listing)) /\ Cardinality(ToSet(listing)) = Len(listing)
          /\ IsFiniteSet(ToSet(l)) /\ Cardinality(ToSet(l)) = Len(l)
      BY <1>1, <1>4, <2>1, MembersCounted
    <3>3. /\ Cardinality(ToSet(l)) <= Cardinality(ToSet(listing))
          /\ Cardinality(ToSet(l)) = Cardinality(ToSet(listing)) => ToSet(l) = ToSet(listing)
      <4>1. ToSet(l) \in SUBSET ToSet(listing)
        BY <3>1
      <4> QED
        BY <3>2, <4>1, FS_Subset
    <3>4. Len(l) = Len(listing)
      <4>1. Len(l) <= Len(listing) /\ Len(listing) <= Len(l)
        BY <2>1, <3>2, <3>3
      <4>2. Len(l) \in Nat /\ Len(listing) \in Nat
        BY <1>1, <1>4
      <4> HIDE DEF l
      <4> QED
        BY <4>1, <4>2
    <3> QED
      BY <3>2, <3>3, <3>4
  <2>3. departures = 0 => stable \subseteq ToSet(l)
    BY <1>1, <2>2
  <2>4. ASSUME changes = 0 PROVE l = listing
    <3>1. departures = 0
      BY <1>1, <2>4
    <3>2. Len(l) = Len(listing)
      BY <2>2, <3>1
    <3>3. CASE ~stuck
      <4>1. \A i \in 1..Len(l) : l[i] = listing[i]
        BY <1>3, <2>4, <3>3 DEF Gathered
      <4> QED
        BY <1>1, <1>4, <3>2, <4>1, SeqEqual
    <3>4. CASE stuck
      <4>1. IsPage(l, listing, 0)
        BY <1>3, <1>5, <2>4, <3>4, TakenGathered DEF Gathered
      <4>2. ASSUME NEW i \in 1..Len(l) PROVE l[i] = listing[i]
        BY <4>1 DEF IsPage
      <4> QED
        BY <1>1, <1>4, <3>2, <4>2, SeqEqual
    <3> QED
      BY <1>1, <3>3, <3>4
  <2> QED
    BY <2>3, <2>4 DEF Told
<1>6. CASE kind # "clients"
  <2>1. ~stuck => Len(listing) <= k + ListPerPage
    <3> SUFFICES ASSUME ~stuck PROVE Len(listing) <= k + ListPerPage
      OBVIOUS
    <3>1. Len(e) < ListPerPage
      BY <1>6 DEF ListComplete
    <3>2. Len(e) = IF Len(listing) <= k THEN 0
                   ELSE IF Len(listing) <= k + ListPerPage THEN Len(listing) - k ELSE ListPerPage
      BY <1>2 DEF IsPage
    <3>3. k \in Nat /\ Len(listing) \in Nat /\ ListPerPage \in Nat
      BY <1>1, <1>2
    <3> HIDE DEF e, k
    <3> QED
      BY <3>1, <3>2, <3>3
  <2>2. departures = 0 /\ ~stuck => stable \subseteq ToSet(l)
    <3> SUFFICES ASSUME departures = 0, ~stuck, NEW d \in stable PROVE d \in ToSet(l)
      OBVIOUS
    <3>1. PICK i \in 1..Len(listing) : listing[i] = d
      BY <1>1 DEF ToSet
    <3>2. i <= k + ListPerPage
      BY <1>1, <1>2, <2>1, <3>1
    <3> QED
      BY <1>1, <1>2, <1>3, <3>1, <3>2 DEF Gathered
  <2>3. ASSUME changes = 0, ~stuck PROVE l = listing
    <3>1. Len(l) = Len(listing) /\ \A i \in 1..Len(l) : l[i] = listing[i]
      BY <1>2, <1>3, <2>1, <2>3 DEF Gathered
    <3> QED
      BY <1>1, <1>4, <3>1, SeqEqual
  <2> QED
    BY <1>1, <1>6, <2>2, <2>3 DEF Told
<1> QED
  BY <1>5, <1>6

\* An empty page lies behind everything that there is.
LEMMA EmptyTold ==
    ASSUME ListInv, listPhase = "reading", ListEntries = <<>>
    PROVE  Told(listed)
<1> DEFINE k == pagesAsked * ListPerPage
<1>1. /\ listing \in Seq(Devices) /\ stable \subseteq ToSet(listing) /\ listed \in Seq(Devices)
      /\ Len(listing) \in Nat /\ DOMAIN listing = 1..Len(listing)
      /\ ListPerPage \in Nat \ {0} /\ stuck \in BOOLEAN /\ Gathered(listed, pagesAsked)
      /\ changes \in Nat /\ departures \in 0..changes
  BY LegacyAssumption, CloudAssumption, OrderSeq DEF ListInv, AccountInv, ListTypeOK, CloudTypeOK
<1>2. k \in Nat /\ IsPage(<<>>, listing, IF stuck THEN 0 ELSE k)
  BY EntriesShown
<1>3. Len(listing) <= IF stuck THEN 0 ELSE k
  BY <1>1, <1>2 DEF IsPage
<1>4. departures = 0 /\ ~stuck => stable \subseteq ToSet(listed)
  <2> SUFFICES ASSUME departures = 0, ~stuck, NEW d \in stable PROVE d \in ToSet(listed)
    OBVIOUS
  <2>1. PICK i \in 1..Len(listing) : listing[i] = d
    BY <1>1 DEF ToSet
  <2>2. i <= k
    BY <1>1, <1>2, <1>3, <2>1
  <2> QED
    BY <1>1, <2>1, <2>2 DEF Gathered
<1>5. ASSUME changes = 0, ~stuck PROVE listed = listing
  <2>1. Len(listed) = Len(listing) /\ \A i \in 1..Len(listed) : listed[i] = listing[i]
    BY <1>1, <1>2, <1>3, <1>5 DEF Gathered
  <2> QED
    BY <1>1, <2>1, SeqEqual
<1>6. ASSUME changes = 0, stuck, kind = "clients" PROVE listed = listing
  <2>1. Len(listing) = 0 /\ listing = <<>>
    BY <1>1, <1>3, <1>6
  <2>2. ~IsPage(listed, listing, 0) \/ listed = <<>>
    <3> SUFFICES ASSUME IsPage(listed, listing, 0) PROVE listed = <<>>
      OBVIOUS
    <3>1. Len(listed) = 0
      BY <1>1, <2>1 DEF IsPage
    <3> QED
      BY <1>1, <3>1
  <2> QED
    BY <1>1, <1>6, <2>1, <2>2 DEF Gathered
<1> QED
  BY <1>1, <1>4, <1>5, <1>6 DEF Told

\* The steps that leave the account alone.
LEMMA ClientKeeps ==
    ASSUME ListInv, listPhase = "reading", UNCHANGED <<cloud, kind, stuck>>,
           listPhase' \in {"idle", "reading"}, pagesAsked' = pagesAsked + 1,
           listResult' \in {"none", "ok", "error"}, listed' \in Seq(Devices),
           listPhase' = "reading" => ~LastListPage /\ Gathered(listed', pagesAsked'),
           listResult' = "ok" => listPhase' = "idle" /\ Told(listed')
    PROVE  ListInv'
<1>1. UNCHANGED <<listing, home, blind, changes, stable, everListed, departures, kind, stuck>>
  BY DEF cloud
<1>2. /\ pagesAsked' \in 0..ListMaxPages
      /\ ~LastListPage => pagesAsked' < ListMaxPages
  BY LegacyAssumption DEF ListInv, ListTypeOK, LastListPage
<1>3. AccountInv'
  BY <1>1 DEF ListInv, AccountInv, CloudTypeOK
<1>4. ListTypeOK'
  BY <1>1, <1>2, <1>3 DEF ListInv, ListTypeOK, AccountInv
<1>5. listPhase' = "reading" => Gathered(listed, pagesAsked)'
  BY <1>1 DEF Gathered
<1>6. listResult' = "ok" => listPhase' = "idle" /\ Told(listed)'
  BY <1>1 DEF Told
<1> QED
  BY <1>2, <1>3, <1>4, <1>5, <1>6 DEF ListInv

LEMMA PageKeeps ==
    ASSUME ListInv, ReadPage \/ ListRequestFails
    PROVE  ListInv'
<1> DEFINE e == ListEntries
<1>1. listPhase = "reading" /\ UNCHANGED <<cloud, kind, stuck>> /\ listResult # "ok"
  BY DEF ReadPage, ListRequestFails, ListInv
<1>2. CASE ListRaises
  BY <1>1, <1>2, ClientKeeps DEF ListRaises
<1>3. CASE e = <<>> /\ ListReturns /\ UNCHANGED listed
  <2>1. Told(listed') /\ listed' \in Seq(Devices)
    BY <1>1, <1>3, EmptyTold DEF ListInv, ListTypeOK
  <2> QED
    BY <1>1, <1>3, <2>1, ClientKeeps DEF ListReturns
<1>4. CASE e # <<>> /\ ~Repeated(e) /\ listed' = listed \o e
  <2>1. Gathered(listed', pagesAsked + 1) /\ listed' \in Seq(Devices)
    BY <1>1, <1>4, TakenGathered DEF Gathered
  <2>2. CASE ListComplete(e, listed') /\ ListReturns
    <3>1. Told(listed')
      BY <1>1, <1>4, <2>2, CompleteTold
    <3> QED
      BY <1>1, <2>1, <2>2, <3>1, ClientKeeps DEF ListReturns
  <2>3. CASE ~LastListPage /\ pagesAsked' = pagesAsked + 1 /\ UNCHANGED <<listPhase, listResult>>
    <3>1. listResult' \in {"none", "ok", "error"}
      BY <2>3 DEF ListInv, ListTypeOK
    <3> QED
      BY <1>1, <2>1, <2>3, <3>1, ClientKeeps
  <2>4. CASE ListRaises
    BY <1>2, <2>4
  <2> QED
    BY <1>1, <1>2, <1>4, <2>2, <2>3 DEF ReadPage, ListRequestFails
<1> QED
  BY <1>2, <1>3, <1>4 DEF ReadPage, ListRequestFails

LEMMA OthersKeepListing ==
    ASSUME ListInv, ListOthers
    PROVE  ListInv'
<1>1. /\ listPhase = "reading" /\ listResult # "ok"
      /\ UNCHANGED <<kind, listPhase, pagesAsked, listed, stuck, listResult>>
  BY DEF ListOthers, listClient, ListInv
<1>2. /\ AccountInv' /\ changes' # 0
      /\ departures' = 0 => /\ departures = 0 /\ stable' = stable
                            /\ ToSet(listing) \subseteq ToSet(listing')
                            /\ \A i \in DOMAIN listing' : listing'[i] \in ToSet(listing) =>
                                 \E j \in DOMAIN listing : j <= i /\ listing[j] = listing'[i]
  BY ChurnKeeps DEF ListOthers, ListInv
<1>3. ListTypeOK'
  BY <1>1, <1>2 DEF ListInv, ListTypeOK, AccountInv
<1>4. Gathered(listed, pagesAsked) /\ stable \subseteq ToSet(listing)
      /\ pagesAsked * ListPerPage \in Nat /\ listing \in Seq(Devices)
  BY <1>1, EntriesShown, OrderSeq DEF ListInv, AccountInv, CloudTypeOK
<1>5. ASSUME departures' = 0, ~stuck, NEW i \in DOMAIN listing',
             i <= pagesAsked * ListPerPage, listing'[i] \in stable
      PROVE  listing'[i] \in ToSet(listed)
  <2>1. PICK j \in DOMAIN listing : j <= i /\ listing[j] = listing'[i]
    BY <1>2, <1>4, <1>5
  <2>2. j <= pagesAsked * ListPerPage
    <3>1. j \in Nat /\ i \in Nat
      <4>1. listing' \in Seq(Devices)
        BY <1>2, OrderSeq DEF AccountInv, CloudTypeOK
      <4> QED
        BY <1>4, <4>1
    <3> QED
      BY <1>4, <1>5, <2>1, <3>1
  <2> QED
    BY <1>2, <1>4, <1>5, <2>1, <2>2 DEF Gathered
<1>6. Gathered(listed, pagesAsked)'
  BY <1>1, <1>2, <1>4, <1>5 DEF Gathered
<1>7. pagesAsked' < ListMaxPages
  BY <1>1 DEF ListInv
<1> QED
  BY <1>1, <1>2, <1>3, <1>6, <1>7 DEF ListInv

LEMMA ListStepKeeps == ListInv /\ [ListNext]_listVars => ListInv'
<1>1. ASSUME ListInv, UNCHANGED listVars PROVE ListInv'
  <2>1. UNCHANGED <<listing, home, blind, changes, stable, everListed, departures, kind, listPhase,
                    pagesAsked, listed, stuck, listResult>>
    BY <1>1 DEF listVars, listClient, cloud
  <2>2. AccountInv'
    BY <1>1, <2>1 DEF ListInv, AccountInv, CloudTypeOK
  <2>3. ListTypeOK'
    BY <1>1, <2>1, <2>2 DEF ListInv, ListTypeOK, AccountInv
  <2> QED
    BY <1>1, <2>1, <2>2, <2>3 DEF ListInv, Gathered, Told
<1> QED
  BY <1>1, StartKeeps, PageKeeps, OthersKeepListing DEF ListNext

LEMMA ListInvHolds == ListSpec => []ListInv
BY ListInitInv, ListStepKeeps, PTL DEF ListSpec

-----------------------------------------------------------------------------
(* The listings: the theorems. *)

\* Every variable keeps its type, and no listing asks for more pages than its
\* limit, whatever the endpoint answers (client.py 670, 724, 953).
THEOREM ListTyped == ListSpec => []ListTypeOK
<1>1. ListInv => ListTypeOK
  BY DEF ListInv
<1> QED
  BY <1>1, ListInvHolds, PTL

\* An account at rest is listed exactly and in order by each of the three
\* methods, for every page size and limit (client.py 670, 724, 953).
THEOREM RestListedExactly == ListSpec => []ExactAtRest
<1>1. ListInv => ExactAtRest
  BY DEF ListInv, Told, ExactAtRest
<1> QED
  BY <1>1, ListInvHolds, PTL

\* A listing that is returned lists every entry that was there throughout,
\* unless another one left meanwhile, however many arrived (client.py 670-681,
\* 724-741, 953-963).
THEOREM ArrivalsHideNothing == ListSpec => []OnlyDeparturesHide
<1>1. ListInv => OnlyDeparturesHide
  BY DEF ListInv, Told, OnlyDeparturesHide
<1> QED
  BY <1>1, ListInvHolds, PTL


-----------------------------------------------------------------------------
(* The fleet.  A count and the absence of duplicates make what is collected of
   a target the target itself: as many devices, all of them in it. *)

\* The devices that a request for the current target ranges over.
InTarget ==
    IF phase = "root" THEN (IF blind THEN {} ELSE ToSet(listing))
                      ELSE {d \in ToSet(listing) : home[d] = Head(todo)}

LEMMA RemovedOne ==
    ASSUME NEW S, NEW l \in Seq(S), Distinct(l), NEW k \in 1..Len(l)
    PROVE  ToSet(RemoveAt(l, k)) = ToSet(l) \ {l[k]}
<1>1. /\ RemoveAt(l, k) \in Seq(S) /\ DOMAIN RemoveAt(l, k) = 1..(Len(l) - 1)
      /\ \A i \in 1..(k - 1) : RemoveAt(l, k)[i] = l[i]
      /\ \A i \in k..(Len(l) - 1) : RemoveAt(l, k)[i] = l[i + 1]
      /\ Len(l) \in Nat /\ DOMAIN l = 1..Len(l) /\ k \in Nat /\ 1 <= k /\ k <= Len(l)
  <2>1. Len(l) \in Nat /\ DOMAIN l = 1..Len(l) /\ k \in Nat /\ 1 <= k /\ k <= Len(l)
    OBVIOUS
  <2> QED
    BY <2>1, WithoutOne, SMTT(60)
<1> DEFINE r == RemoveAt(l, k)
<1> HIDE DEF r
<1>2. ASSUME NEW i \in 1..(Len(l) - 1) PROVE r[i] \in ToSet(l) \ {l[k]}
  <2>1. CASE i < k
    <3>1. i \in 1..(k - 1) /\ i \in 1..Len(l) /\ i # k
      BY <1>1, <2>1
    <3> QED
      BY <1>1, <3>1 DEF r, ToSet, Distinct
  <2>2. CASE ~(i < k)
    <3>1. i \in k..(Len(l) - 1) /\ i + 1 \in 1..Len(l) /\ i + 1 # k
      BY <1>1, <2>2
    <3> QED
      BY <1>1, <3>1 DEF r, ToSet, Distinct
  <2> QED
    BY <2>1, <2>2
<1>3. ASSUME NEW i \in 1..Len(l), i # k PROVE \E j \in 1..(Len(l) - 1) : r[j] = l[i]
  <2>1. CASE i < k
    <3>1. i \in 1..(k - 1) /\ i \in 1..(Len(l) - 1)
      BY <1>1, <2>1
    <3> QED
      BY <1>1, <3>1 DEF r
  <2>2. CASE ~(i < k)
    <3>1. i - 1 \in k..(Len(l) - 1) /\ i - 1 \in 1..(Len(l) - 1) /\ (i - 1) + 1 = i
      BY <1>1, <1>3, <2>2
    <3> QED
      BY <1>1, <3>1 DEF r
  <2> QED
    BY <2>1, <2>2
<1>4. ToSet(r) \subseteq ToSet(l) \ {l[k]}
  BY <1>1, <1>2 DEF ToSet, r
<1>5. ASSUME NEW e \in ToSet(l), e # l[k] PROVE e \in ToSet(r)
  <2>1. PICK i \in 1..Len(l) : l[i] = e /\ i # k
    BY <1>1, <1>5 DEF ToSet
  <2>2. PICK j \in 1..(Len(l) - 1) : r[j] = e
    BY <1>3, <2>1
  <2>3. DOMAIN r = 1..(Len(l) - 1)
    BY <1>1 DEF r
  <2> QED
    BY <2>2, <2>3 DEF ToSet
<1> QED
  BY <1>4, <1>5 DEF r

\* The entries of a page are entries of the list, each once.
LEMMA PageIn ==
    ASSUME NEW l \in Seq(Devices), Distinct(l), NEW p \in Nat \ {0}, NEW n \in Nat \ {0}
    PROVE  /\ PageOf(l, p, n) \in Seq(Devices) /\ Distinct(PageOf(l, p, n))
           /\ ToSet(PageOf(l, p, n)) \subseteq ToSet(l)
<1> DEFINE k == (p - 1) * n
           last == IF p * n < Len(l) THEN p * n ELSE Len(l)
<1>1. k \in Nat /\ p * n \in Nat /\ Len(l) \in Nat
  <2>1. p - 1 \in Nat
    OBVIOUS
  <2> QED
    BY <2>1, Product
<1>2. PageOf(l, p, n) = SubSeq(l, k + 1, last)
  BY DEF PageOf
<1>3. last \in Int /\ last <= Len(l)
  BY <1>1
<1> HIDE DEF k, last
<1>4. \A i \in (k + 1)..last : l[i] \in Devices
  BY <1>1, <1>3
<1>5. /\ SubSeq(l, k + 1, last) \in Seq(Devices)
      /\ Len(SubSeq(l, k + 1, last)) = IF k + 1 <= last THEN last - (k + 1) + 1 ELSE 0
      /\ \A i \in 1..(last - (k + 1) + 1) : SubSeq(l, k + 1, last)[i] = l[k + 1 + i - 1]
  BY <1>1, <1>3, <1>4, SubSeqProperties
<1> DEFINE s == SubSeq(l, k + 1, last)
<1> HIDE DEF s
<1>6. ASSUME NEW i \in 1..Len(s) PROVE k + i \in 1..Len(l) /\ s[i] = l[k + i]
  <2>1. i \in 1..(last - (k + 1) + 1) /\ k + 1 + i - 1 = k + i /\ k + i \in 1..Len(l)
    BY <1>1, <1>3, <1>5 DEF s
  <2> QED
    BY <1>5, <2>1 DEF s
<1>7. s \in Seq(Devices) /\ Len(s) \in Nat /\ DOMAIN s = 1..Len(s) /\ DOMAIN l = 1..Len(l)
  BY <1>5 DEF s
<1>8. Distinct(s)
  <2> SUFFICES ASSUME NEW i \in 1..Len(s), NEW j \in 1..Len(s), s[i] = s[j] PROVE i = j
    BY <1>7 DEF Distinct
  <2>1. k + i = k + j
    BY <1>6, <1>7 DEF Distinct
  <2> QED
    BY <1>1, <1>7, <2>1
<1>9. ToSet(s) \subseteq ToSet(l)
  BY <1>6, <1>7 DEF ToSet
<1> QED
  BY <1>2, <1>7, <1>8, <1>9 DEF s

\* The listing of a group has its devices, each once: the rank of a place among
\* the places of the group numbers them.
LEMMA GroupListed ==
    ASSUME listing \in Seq(Devices), Distinct(listing), NEW g
    PROVE  /\ GroupListing(g) \in Seq(Devices) /\ Distinct(GroupListing(g))
           /\ ToSet(GroupListing(g)) = {d \in ToSet(listing) : home[d] = g}
<1> DEFINE places == {i \in DOMAIN listing : home[listing[i]] = g}
           Upto(i) == {j \in places : j <= i}
           rank == [i \in places |-> Cardinality(Upto(i))]
           n == Cardinality(places)
           Place(k) == CHOOSE i \in places : Cardinality(Upto(i)) = k
<1>1. /\ DOMAIN listing = 1..Len(listing) /\ Len(listing) \in Nat
      /\ places \subseteq 1..Len(listing) /\ IsFiniteSet(places) /\ n \in Nat
  <2>1. DOMAIN listing = 1..Len(listing) /\ Len(listing) \in Nat
    OBVIOUS
  <2>2. IsFiniteSet(1..Len(listing))
    BY <2>1, FS_Interval
  <2>3. places \in SUBSET (1..Len(listing))
    BY <2>1
  <2>4. IsFiniteSet(places)
    BY <2>2, <2>3, FS_Subset
  <2> QED
    BY <2>1, <2>3, <2>4, FS_CardinalityType
<1>2. \A i \in places : home[listing[i]] = g
  OBVIOUS
<1>3. \A i \in DOMAIN listing : home[listing[i]] = g => i \in places
  OBVIOUS
<1>4. GroupListing(g) = [k \in 1..n |-> listing[Place(k)]]
  BY DEF GroupListing
<1> HIDE DEF places
<1>5. ASSUME NEW i \in places
      PROVE  /\ IsFiniteSet(Upto(i)) /\ i \in Upto(i) /\ Upto(i) \subseteq places
             /\ Cardinality(Upto(i)) \in 1..n
  <2>1. Upto(i) \in SUBSET places /\ i \in Upto(i)
    BY <1>1
  <2>2. IsFiniteSet(Upto(i)) /\ Cardinality(Upto(i)) <= n
    BY <1>1, <2>1, FS_Subset
  <2>3. Cardinality(Upto(i)) \in Nat /\ Cardinality(Upto(i)) # 0
    BY <2>1, <2>2, FS_CardinalityType, FS_EmptySet
  <2> QED
    BY <1>1, <2>1, <2>2, <2>3
<1>6. ASSUME NEW i \in places, NEW j \in places, Cardinality(Upto(i)) = Cardinality(Upto(j))
      PROVE  i = j
  <2>1. i \in Nat /\ j \in Nat /\ \A m \in places : m \in Nat
    BY <1>1
  <2>2. ASSUME i <= j, NEW m \in places, m <= i PROVE m <= j
    BY <2>1, <2>2
  <2>3. ASSUME j <= i, NEW m \in places, m <= j PROVE m <= i
    BY <2>1, <2>3
  <2>4. Upto(i) = Upto(j)
    <3>1. CASE i <= j
      <4>1. Upto(i) \in SUBSET Upto(j)
        BY <2>2, <3>1
      <4> QED
        BY <1>5, <1>6, <4>1, FS_Subset
    <3>2. CASE j <= i
      <4>1. Upto(j) \in SUBSET Upto(i)
        BY <2>3, <3>2
      <4> QED
        BY <1>5, <1>6, <4>1, FS_Subset
    <3> QED
      BY <2>1, <3>1, <3>2
  <2>5. i \in Upto(j) /\ j \in Upto(i)
    BY <1>5, <2>4
  <2> QED
    BY <2>1, <2>5
<1>7. rank \in Injection(places, 1..n)
  BY <1>5, <1>6 DEF Injection, IsInjective
<1>8. rank \in Surjection(places, 1..n)
  <2>1. IsFiniteSet(1..n) /\ Cardinality(1..n) = n
    BY <1>1, FS_Interval
  <2> QED
    BY <1>7, <2>1, FS_Injection
<1>9. ASSUME NEW k \in 1..n
      PROVE  Place(k) \in places /\ Cardinality(Upto(Place(k))) = k
  <2>1. \E i \in places : Cardinality(Upto(i)) = k
    BY <1>8 DEF Surjection
  <2> QED
    BY <2>1
<1>10. ASSUME NEW i \in places PROVE \E k \in 1..n : Place(k) = i
  BY <1>5, <1>6, <1>9
<1> HIDE DEF Place, n
<1> DEFINE s == [k \in 1..n |-> listing[Place(k)]]
<1>11. ASSUME NEW k \in 1..n
       PROVE  s[k] = listing[Place(k)] /\ Place(k) \in DOMAIN listing /\ s[k] \in Devices
  <2>1. Place(k) \in 1..Len(listing)
    BY <1>1, <1>9
  <2>2. listing[Place(k)] \in Devices
    BY <2>1
  <2> QED
    BY <1>1, <2>1, <2>2
<1>12. s \in Seq(Devices) /\ DOMAIN s = 1..n
  BY <1>1, <1>11
<1> HIDE DEF s
<1>13. Distinct(s)
  <2> SUFFICES ASSUME NEW k \in 1..n, NEW m \in 1..n, s[k] = s[m] PROVE k = m
    BY <1>12 DEF Distinct
  <2>1. Place(k) = Place(m)
    BY <1>11 DEF Distinct
  <2> QED
    BY <1>9, <2>1
<1>14. ASSUME NEW d \in ToSet(s) PROVE d \in ToSet(listing) /\ home[d] = g
  <2>1. PICK k \in 1..n : s[k] = d
    BY <1>12 DEF ToSet
  <2>2. d = listing[Place(k)] /\ Place(k) \in DOMAIN listing /\ home[listing[Place(k)]] = g
    BY <1>2, <1>9, <1>11, <2>1
  <2> QED
    BY <2>2 DEF ToSet
<1>15. ASSUME NEW d \in ToSet(listing), home[d] = g PROVE d \in ToSet(s)
  <2>1. PICK i \in DOMAIN listing : listing[i] = d
    BY DEF ToSet
  <2>2. PICK k \in 1..n : Place(k) = i
    BY <1>3, <1>10, <1>15, <2>1
  <2> QED
    BY <1>11, <1>12, <2>1, <2>2 DEF ToSet
<1> QED
  BY <1>4, <1>12, <1>13, <1>14, <1>15 DEF s

\* What a target lists: its devices, each once.
LEMMA TargetListed ==
    ASSUME AccountInv
    PROVE  /\ Target \in Seq(Devices) /\ Distinct(Target) /\ ToSet(Target) = InTarget
           /\ IsFiniteSet(InTarget) /\ Cardinality(InTarget) = Len(Target)
           /\ InTarget \subseteq Devices
<1>1. listing \in Seq(Devices) /\ Distinct(listing) /\ ToSet(listing) \subseteq Devices
  <2>1. listing \in Seq(Devices) /\ Distinct(listing)
    BY OrderSeq DEF AccountInv, CloudTypeOK
  <2> QED
    BY <2>1 DEF ToSet
<1>2. <<>> \in Seq(Devices) /\ Distinct(<<>>) /\ ToSet(<<>>) = {}
  BY EmptySeq DEF Distinct, ToSet
<1>3. Target \in Seq(Devices) /\ Distinct(Target) /\ ToSet(Target) = InTarget
  <2>1. CASE phase = "root" /\ blind
    BY <1>2, <2>1 DEF Target, RootListing, InTarget
  <2>2. CASE phase = "root" /\ ~blind
    BY <1>1, <2>2 DEF Target, RootListing, InTarget
  <2>3. CASE phase # "root"
    <3>1. Target = GroupListing(Head(todo))
      BY <2>3 DEF Target
    <3>2. InTarget = {d \in ToSet(listing) : home[d] = Head(todo)}
      BY <2>3 DEF InTarget
    <3> QED
      BY <1>1, <3>1, <3>2, GroupListed
  <2> QED
    BY <2>1, <2>2, <2>3
<1>4. InTarget \subseteq Devices
  BY <1>1 DEF InTarget
<1> QED
  BY <1>3, <1>4, MembersCounted

LEMMA SerialsAdded ==
    ASSUME NEW s \in Seq(Found), NEW t \in Seq(Found)
    PROVE  /\ s \o t \in Seq(Found) /\ Len(s \o t) = Len(s) + Len(t)
           /\ Serials(s \o t) = Serials(s) \cup Serials(t)
<1>1. /\ s \o t \in Seq(Found) /\ Len(s \o t) = Len(s) + Len(t)
      /\ \A i \in 1..(Len(s) + Len(t)) :
           (s \o t)[i] = IF i <= Len(s) THEN s[i] ELSE t[i - Len(s)]
  BY ConcatProperties
<1>2. /\ Len(s) \in Nat /\ Len(t) \in Nat /\ DOMAIN s = 1..Len(s) /\ DOMAIN t = 1..Len(t)
      /\ DOMAIN (s \o t) = 1..(Len(s) + Len(t))
  BY <1>1
<1>3. ASSUME NEW i \in 1..Len(s) PROVE i \in 1..(Len(s) + Len(t)) /\ (s \o t)[i] = s[i]
  BY <1>1, <1>2
<1>4. ASSUME NEW i \in 1..Len(t)
      PROVE  Len(s) + i \in 1..(Len(s) + Len(t)) /\ (s \o t)[Len(s) + i] = t[i]
  <2>1. Len(s) + i \in 1..(Len(s) + Len(t)) /\ ~(Len(s) + i <= Len(s)) /\ Len(s) + i - Len(s) = i
    BY <1>2
  <2> QED
    BY <1>1, <2>1
<1>5. ASSUME NEW i \in 1..(Len(s) + Len(t))
      PROVE  \/ i \in 1..Len(s) /\ (s \o t)[i] = s[i]
             \/ i - Len(s) \in 1..Len(t) /\ (s \o t)[i] = t[i - Len(s)]
  BY <1>1, <1>2
<1>6. Serials(s) \subseteq Serials(s \o t)
  BY <1>2, <1>3 DEF Serials
<1>7. Serials(t) \subseteq Serials(s \o t)
  BY <1>2, <1>4 DEF Serials
<1>8. Serials(s \o t) \subseteq Serials(s) \cup Serials(t)
  BY <1>2, <1>5 DEF Serials
<1> QED
  BY <1>1, <1>6, <1>7, <1>8

\* The entries of one page: devices of the target, each once.
LEMMA EntriesIn ==
    ASSUME AccountInv, page \in Nat \ {0}
    PROVE  /\ Entries \in Seq(Found) /\ Serials(Entries) \subseteq InTarget
           /\ IsFiniteSet(Serials(Entries)) /\ Cardinality(Serials(Entries)) = Len(Entries)
<1> DEFINE p == PageOf(Target, page, PerPage)
<1>1. p \in Seq(Devices) /\ Distinct(p) /\ ToSet(p) \subseteq InTarget
  BY TargetListed, PageIn, FleetAssumption
<1>2. Entries = [i \in DOMAIN p |-> [dev |-> p[i], group |-> home[p[i]]]]
  BY DEF Entries
<1> HIDE DEF p
<1>3. DOMAIN p = 1..Len(p) /\ Len(p) \in Nat /\ \A i \in 1..Len(p) : p[i] \in Devices
  BY <1>1
<1>4. home \in [Devices -> GroupSet]
  BY DEF AccountInv, CloudTypeOK
<1>5. /\ Entries \in Seq(Found) /\ Len(Entries) = Len(p) /\ DOMAIN Entries = 1..Len(p)
      /\ \A i \in 1..Len(p) : Entries[i].dev = p[i]
  <2>1. \A i \in 1..Len(p) : [dev |-> p[i], group |-> home[p[i]]] \in Found
    BY <1>3, <1>4 DEF Found
  <2> QED
    BY <1>2, <1>3, <2>1
<1>6. Serials(Entries) = ToSet(p)
  BY <1>3, <1>5 DEF Serials, ToSet
<1> QED
  BY <1>1, <1>5, <1>6, MembersCounted

-----------------------------------------------------------------------------
(* The fleet: the inductive invariant. *)

\* The types of the client's variables.
ClientTyped ==
    /\ phase \in {"idle", "root", "below", "partition"}
    /\ todo \in Seq(GroupSet) /\ (phase = "below" => todo # <<>>)
    /\ page \in 1..MaxPages
    /\ expected \in Nat \cup {Unset} /\ (expected = Unset => got = <<>>)
    /\ got \in Seq(Found) /\ IsFiniteSet(Serials(got)) /\ Len(got) = Cardinality(Serials(got))
    /\ collected \in Seq(Found)
    /\ result \in {"none", "ok", "error"}

\* As long as nothing changed, what is listed is what is stable.
StillThere == changes = 0 /\ phase # "idle" => stable = ToSet(listing) /\ everListed = stable

\* What was got of a target is in it, or the target is of another size by now:
\* then the next page is rejected.
Counted ==
    Collecting /\ expected # Unset =>
        /\ changes = 0 => expected = Cardinality(InTarget)
        /\ OneDeviceChanged /\ expected = Cardinality(InTarget) => Serials(got) \subseteq InTarget

\* A blind root shows nothing; what is stable is in the groups to come or
\* collected; in the end all of it is collected.
Collected ==
    OneDeviceChanged =>
        /\ phase = "root" /\ blind => got = <<>>
        /\ phase = "below" => \A d \in stable : home[d] \in ToSet(todo) \/ d \in Serials(collected)
        /\ phase = "partition" => stable \subseteq Serials(collected)
        /\ phase = "idle" /\ result = "ok" => stable \subseteq Serials(collected)

FleetInv == AccountInv /\ ClientTyped /\ agreed \in BOOLEAN /\ StillThere /\ Counted /\ Collected

LEMMA NothingFound ==
    <<>> \in Seq(Found) /\ Serials(<<>>) = {} /\ Len(<<>>) = 0
      /\ IsFiniteSet({}) /\ Cardinality({}) = 0
BY EmptySeq, FS_EmptySet DEF Serials

LEMMA FleetInitInv == Init => FleetInv
<1> SUFFICES ASSUME Init PROVE FleetInv
  OBVIOUS
<1>1. MaxChanges \in Nat /\ 0 \in 0..MaxChanges /\ 0 \in 0..0 /\ 1 \in 1..MaxPages
  BY CloudAssumption, FleetAssumption
<1>2. AccountInv
  <2>1. changes \in 0..MaxChanges /\ departures \in 0..changes
    BY <1>1 DEF Init, CloudInit
  <2>2. listing \in Orders /\ home \in [Devices -> GroupSet] /\ stable = {} /\ everListed = {}
        /\ blind \in BOOLEAN
    BY DEF Init, CloudInit
  <2> QED
    BY <2>1, <2>2 DEF AccountInv, CloudTypeOK
<1>3. ClientTyped
  <2>1. page \in 1..MaxPages
    BY <1>1 DEF Init
  <2>2. todo \in Seq(GroupSet)
    BY EmptySeq DEF Init
  <2> QED
    BY <2>1, <2>2, NothingFound DEF Init, ClientTyped
<1> QED
  BY <1>2, <1>3 DEF Init, FleetInv, StillThere, Counted, Collecting, Collected

-----------------------------------------------------------------------------
(* The fleet: the account changes. *)

\* One device comes, and the targets have no fewer devices; or it leaves its
\* target, which has one fewer.  What stays stable stays in its group.
LEMMA ChurnTarget ==
    ASSUME AccountInv, Churn, UNCHANGED client
    PROVE  /\ \/ InTarget \subseteq InTarget'
              \/ \E d \in InTarget : InTarget' = InTarget \ {d}
           /\ stable' \subseteq stable /\ \A d \in stable' : home'[d] = home[d]
           /\ blind' = blind
<1>1. /\ listing \in Seq(Devices) /\ Distinct(listing) /\ DOMAIN listing = 1..Len(listing)
      /\ home \in [Devices -> GroupSet] /\ stable \subseteq ToSet(listing)
      /\ stable \subseteq Devices /\ ToSet(listing) \subseteq Devices
  <2>1. listing \in Seq(Devices) /\ Distinct(listing)
    BY OrderSeq DEF AccountInv, CloudTypeOK
  <2>2. DOMAIN listing = 1..Len(listing) /\ ToSet(listing) \subseteq Devices
    BY <2>1 DEF ToSet
  <2> QED
    BY <2>1, <2>2 DEF AccountInv, CloudTypeOK
<1>2. PICK d \in Devices : Adopt(d) \/ Retire(d) \/ Move(d)
  BY DEF Churn
<1>3. phase' = phase /\ todo' = todo
  BY DEF client
<1>4. CASE Adopt(d)
  <2>1. /\ d \notin ToSet(listing) /\ UNCHANGED <<blind, stable>>
        /\ \A e \in Devices : e # d => home'[e] = home[e]
    BY <1>1, <1>4 DEF Adopt
  <2>2. ToSet(listing) \subseteq ToSet(listing')
    <3>1. CASE listing' = <<d>> \o listing
      <4>1. /\ DOMAIN listing' = 1..(Len(listing) + 1)
            /\ \A i \in 1..Len(listing) : listing'[i + 1] = listing[i] /\ i + 1 \in DOMAIN listing'
        BY <1>1, <3>1
      <4> QED
        BY <1>1, <4>1 DEF ToSet
    <3>2. CASE listing' = Append(listing, d)
      <4>1. \A i \in 1..Len(listing) : listing'[i] = listing[i] /\ i \in DOMAIN listing'
        BY <1>1, <3>2
      <4> QED
        BY <1>1, <4>1 DEF ToSet
    <3> QED
      BY <1>4, <3>1, <3>2 DEF Adopt
  <2>3. InTarget \subseteq InTarget'
    BY <1>1, <1>3, <2>1, <2>2 DEF InTarget
  <2> QED
    BY <1>1, <2>1, <2>3
<1>5. CASE Retire(d)
  <2>1. PICK k \in DOMAIN listing : listing[k] = d /\ listing' = RemoveAt(listing, k)
    BY <1>5 DEF Retire
  <2>2. ToSet(listing') = ToSet(listing) \ {d}
    BY <1>1, <2>1, RemovedOne
  <2>3. UNCHANGED <<home, blind>> /\ stable' = stable \ {d}
    BY <1>5 DEF Retire
  <2>4. InTarget' = InTarget \ {d}
    BY <1>3, <2>2, <2>3 DEF InTarget
  <2> QED
    BY <2>3, <2>4
<1>6. CASE Move(d)
  <2>1. /\ UNCHANGED <<listing, blind>> /\ stable' = stable \ {d} /\ home'[d] # home[d]
        /\ \A e \in Devices : e # d => home'[e] = home[e]
    BY <1>1, <1>6 DEF Move
  <2>2. CASE phase = "root" \/ home[d] # Head(todo) \/ d \notin ToSet(listing)
    <3>1. InTarget \subseteq InTarget'
      BY <1>1, <1>3, <2>1, <2>2 DEF InTarget
    <3> QED
      BY <1>1, <2>1, <3>1
  <2>3. CASE ~(phase = "root") /\ home[d] = Head(todo) /\ d \in ToSet(listing)
    <3>1. InTarget' = InTarget \ {d} /\ d \in InTarget
      BY <1>1, <1>3, <2>1, <2>3 DEF InTarget
    <3> QED
      BY <1>1, <2>1, <3>1
  <2> QED
    BY <2>2, <2>3
<1> QED
  BY <1>2, <1>4, <1>5, <1>6

\* If one device changed after this change, then none had before, and this was
\* not the hierarchy.
LEMMA FirstChange ==
    ASSUME FleetInv, phase # "idle", Churn \/ RootGoesBlind, OneDeviceChanged'
    PROVE  changes = 0 /\ OneDeviceChanged /\ Churn
<1>1. changes \in Nat /\ changes' = changes + 1
  <2>1. Change
    BY DEF Churn, RootGoesBlind, Adopt, Retire, Move
  <2>2. changes \in 0..MaxChanges /\ MaxChanges \in Nat
    BY CloudAssumption DEF FleetInv, AccountInv, CloudTypeOK
  <2> QED
    BY <2>1, <2>2 DEF Change
<1>2. changes = 0
  BY <1>1 DEF OneDeviceChanged
<1>3. everListed \ stable = {} /\ Cardinality({}) = 0
  BY <1>2, FS_EmptySet DEF FleetInv, StillThere
<1>4. CASE RootGoesBlind
  <2>1. everListed' \ stable' = {}
    BY <1>3, <1>4 DEF RootGoesBlind
  <2>2. changes' = Cardinality(everListed' \ stable')
    BY DEF OneDeviceChanged
  <2>3. changes' = 0
    BY <1>3, <2>1, <2>2
  <2> QED
    BY <1>1, <1>2, <2>3
<1> QED
  BY <1>2, <1>3, <1>4 DEF OneDeviceChanged

LEMMA ClientStill ==
    ASSUME ClientTyped, UNCHANGED client
    PROVE  ClientTyped'
BY DEF ClientTyped, client, Serials

LEMMA OthersKeepFleet ==
    ASSUME FleetInv, Others
    PROVE  FleetInv'
<1>1. /\ phase # "idle" /\ UNCHANGED client /\ (Churn \/ RootGoesBlind)
      /\ AccountInv /\ changes \in 0..MaxChanges /\ MaxChanges \in Nat /\ departures \in 0..changes
  BY CloudAssumption DEF Others, FleetInv, AccountInv, CloudTypeOK
<1>2. AccountInv' /\ changes' # 0
  <2>1. CASE Churn
    BY <1>1, <2>1, ChurnKeeps
  <2>2. CASE RootGoesBlind
    <3>1. changes' \in 0..MaxChanges /\ changes' # 0 /\ departures' \in 0..changes'
      BY <1>1, <2>2 DEF RootGoesBlind, Change
    <3> QED
      BY <1>1, <2>2, <3>1 DEF RootGoesBlind, AccountInv, CloudTypeOK
  <2> QED
    BY <1>1, <2>1, <2>2
<1>3. ClientTyped' /\ agreed' \in BOOLEAN
  BY <1>1, ClientStill DEF FleetInv, client
<1>4. /\ phase' = phase /\ expected' = expected /\ got' = got /\ todo' = todo /\ result' = result
      /\ collected' = collected
  BY <1>1 DEF client
<1>5. ASSUME OneDeviceChanged' PROVE Counted' /\ Collected'
  <2>1. changes = 0 /\ OneDeviceChanged /\ Churn
    BY <1>1, <1>5, FirstChange
  <2>2. /\ InTarget \subseteq InTarget' \/ \E d \in InTarget : InTarget' = InTarget \ {d}
        /\ stable' \subseteq stable /\ \A d \in stable' : home'[d] = home[d]
        /\ blind' = blind
    BY <1>1, <2>1, ChurnTarget
  <2>3. Collected'
    BY <1>4, <2>1, <2>2 DEF FleetInv, Collected
  <2>4. ASSUME Collecting', expected' # Unset, expected' = Cardinality(InTarget')
        PROVE  Serials(got') \subseteq InTarget'
    <3>1. /\ expected = Cardinality(InTarget) /\ Serials(got) \subseteq InTarget
          /\ Serials(got') = Serials(got)
      BY <1>4, <2>1, <2>4 DEF FleetInv, Counted, Collecting
    <3>2. IsFiniteSet(InTarget) /\ Cardinality(InTarget) \in Nat
      BY <1>1, TargetListed, FS_CardinalityType
    <3>3. ASSUME NEW d \in InTarget, InTarget' = InTarget \ {d} PROVE FALSE
      <4>1. Cardinality(InTarget') = Cardinality(InTarget) - 1
        BY <3>2, <3>3, FS_RemoveElement
      <4>2. Cardinality(InTarget') = Cardinality(InTarget)
        BY <1>4, <2>4, <3>1
      <4> QED
        BY <3>2, <4>1, <4>2
    <3> QED
      BY <2>2, <3>1, <3>3
  <2> QED
    BY <1>2, <2>3, <2>4 DEF Counted
<1>6. ASSUME ~OneDeviceChanged' PROVE Counted' /\ Collected'
  BY <1>2, <1>6 DEF Counted, Collected
<1> QED
  BY <1>2, <1>3, <1>5, <1>6 DEF FleetInv, StillThere

-----------------------------------------------------------------------------
(* The fleet: the collection. *)

LEMMA CloudStill ==
    ASSUME AccountInv, UNCHANGED cloud
    PROVE  /\ AccountInv' /\ OneDeviceChanged' = OneDeviceChanged
           /\ UNCHANGED <<listing, home, blind, changes, stable, everListed>>
BY DEF AccountInv, CloudTypeOK, cloud, OneDeviceChanged

\* An error: nothing is collected, nothing is returned.
LEMMA FailKeeps ==
    ASSUME FleetInv, Fail, UNCHANGED cloud, agreed' \in BOOLEAN
    PROVE  FleetInv'
<1>1. AccountInv'
  BY CloudStill DEF FleetInv
<1>2. 1 \in 1..MaxPages /\ <<>> \in Seq(GroupSet)
  BY FleetAssumption, EmptySeq
<1>3. ClientTyped'
  BY <1>2, NothingFound DEF Fail, NewTarget, ClientTyped
<1> QED
  BY <1>1, <1>3 DEF Fail, FleetInv, StillThere, Counted, Collecting, Collected

LEMMA FleetStartKeeps ==
    ASSUME FleetInv, Start
    PROVE  FleetInv'
<1>1. /\ changes' = 0 /\ departures' = 0 /\ stable' = ToSet(listing) /\ everListed' = ToSet(listing)
      /\ UNCHANGED <<listing, home, blind>>
      /\ phase' = "root" /\ todo' = <<>> /\ page' = 1 /\ expected' = Unset /\ got' = <<>>
      /\ collected' = <<>> /\ result' = "none" /\ agreed' = TRUE
  BY DEF Start, Observe, NewTarget
<1>2. listing \in Seq(Devices) /\ ToSet(listing) \subseteq Devices
  <2>1. listing \in Seq(Devices)
    BY OrderSeq DEF FleetInv, AccountInv, CloudTypeOK
  <2> QED
    BY <2>1 DEF ToSet
<1>3. 0 \in 0..MaxChanges /\ 0 \in 0..0 /\ 1 \in 1..MaxPages /\ <<>> \in Seq(GroupSet)
  BY CloudAssumption, FleetAssumption, EmptySeq
<1>4. AccountInv'
  BY <1>1, <1>2, <1>3 DEF FleetInv, AccountInv, CloudTypeOK
<1>5. ClientTyped'
  BY <1>1, <1>3, NothingFound DEF ClientTyped
<1> QED
  BY <1>1, <1>4, <1>5 DEF FleetInv, StillThere, Counted, Collected

\* A target whose devices are complete.
LEMMA DoneKeeps ==
    ASSUME FleetInv, Collecting, NEW devices \in Seq(Found), TargetDone(devices),
           UNCHANGED cloud, agreed' \in BOOLEAN,
           OneDeviceChanged => InTarget \cap stable \subseteq Serials(devices),
           OneDeviceChanged /\ phase = "root" /\ blind => devices = <<>>
    PROVE  FleetInv'
<1>1. /\ AccountInv' /\ OneDeviceChanged' = OneDeviceChanged
      /\ UNCHANGED <<listing, home, blind, changes, stable, everListed>>
  BY CloudStill DEF FleetInv
<1>2. 1 \in 1..MaxPages /\ Groups \in Seq(GroupSet) /\ GroupSet = ToSet(Groups)
  BY FleetAssumption DEF GroupSet
<1>3. stable \subseteq ToSet(listing) /\ stable \subseteq Devices /\ home \in [Devices -> GroupSet]
      /\ ClientTyped /\ Collected /\ StillThere
  BY DEF FleetInv, AccountInv, CloudTypeOK
<1>4. CASE Fail
  BY <1>4, FailKeeps
<1>5. CASE /\ phase = "root" /\ devices = <<>> /\ Groups # <<>>
           /\ phase' = "below" /\ todo' = Groups
           /\ NewTarget
           /\ UNCHANGED <<collected, result>>
  <2>1. ClientTyped'
    BY <1>2, <1>3, <1>5, NothingFound DEF ClientTyped, NewTarget
  <2>2. \A d \in stable' : home'[d] \in ToSet(todo')
    BY <1>1, <1>2, <1>3, <1>5
  <2>3. Collected'
    BY <1>5, <2>2 DEF Collected
  <2> QED
    BY <1>1, <1>3, <1>5, <2>1, <2>3 DEF FleetInv, StillThere, Counted, NewTarget
<1>6. CASE /\ phase = "root" /\ (devices # <<>> \/ Groups = <<>>)
           /\ phase' = "partition" /\ collected' = devices
           /\ NewTarget
           /\ UNCHANGED <<todo, result>>
  <2>1. ClientTyped'
    BY <1>2, <1>3, <1>6, NothingFound DEF ClientTyped, NewTarget
  <2>2. ASSUME OneDeviceChanged PROVE stable \subseteq Serials(devices)
    <3>1. CASE devices # <<>>
      BY <1>3, <1>6, <2>2, <3>1 DEF InTarget
    <3>2. CASE Groups = <<>>
      <4>1. GroupSet = {}
        BY <1>2, <3>2 DEF ToSet
      <4> QED
        BY <1>3, <4>1
    <3> QED
      BY <1>6, <3>1, <3>2
  <2>3. Collected'
    BY <1>1, <1>6, <2>2 DEF Collected
  <2> QED
    BY <1>1, <1>3, <1>6, <2>1, <2>3
       DEF FleetInv, StillThere, Counted, Collecting, NewTarget
<1>7. CASE /\ phase = "below"
           /\ collected' = collected \o devices
           /\ todo' = NextTodo(devices)
           /\ phase' = (IF todo' = <<>> THEN "partition" ELSE "below")
           /\ NewTarget
           /\ UNCHANGED result
  <2>1. /\ collected \in Seq(Found) /\ collected' \in Seq(Found)
        /\ Serials(collected') = Serials(collected) \cup Serials(devices)
    BY <1>3, <1>7, SerialsAdded DEF ClientTyped
  <2>2. todo \in Seq(GroupSet) /\ todo # <<>> /\ todo' = Tail(todo)
    BY <1>3, <1>7 DEF ClientTyped, NextTodo
  <2>3. /\ todo' \in Seq(GroupSet) /\ DOMAIN todo = 1..Len(todo) /\ Len(todo) \in Nat
        /\ DOMAIN todo' = 1..(Len(todo) - 1) /\ Head(todo) = todo[1]
        /\ \A i \in 1..(Len(todo) - 1) : todo'[i] = todo[i + 1]
    BY <2>2
  <2>4. ASSUME NEW g \in ToSet(todo), g # Head(todo) PROVE g \in ToSet(todo')
    <3>1. PICK i \in 1..Len(todo) : todo[i] = g /\ i # 1
      BY <2>3, <2>4 DEF ToSet
    <3>2. i - 1 \in 1..(Len(todo) - 1) /\ todo'[i - 1] = g
      BY <2>3, <3>1
    <3> QED
      BY <2>3, <3>2 DEF ToSet
  <2>5. ClientTyped'
    BY <1>2, <1>3, <1>7, <2>1, <2>3, NothingFound DEF ClientTyped, NewTarget
  <2>6. ASSUME OneDeviceChanged, NEW d \in stable
        PROVE  home[d] \in ToSet(todo') \/ d \in Serials(collected')
    <3>1. home[d] \in ToSet(todo) \/ d \in Serials(collected)
      BY <1>3, <1>7, <2>6 DEF Collected
    <3>2. home[d] = Head(todo) => d \in InTarget
      BY <1>3, <1>7 DEF InTarget
    <3> QED
      BY <2>1, <2>4, <2>6, <3>1, <3>2
  <2>7. todo' = <<>> => ToSet(todo') = {}
    BY DEF ToSet
  <2>8. Collected'
    BY <1>1, <1>7, <2>6, <2>7 DEF Collected
  <2> QED
    BY <1>1, <1>3, <1>7, <2>5, <2>8 DEF FleetInv, StillThere, Counted, NewTarget
<1> QED
  BY <1>4, <1>5, <1>6, <1>7 DEF TargetDone

LEMMA Noting ==
    ASSUME FleetInv, NEW total, NoteTotal(total)
    PROVE  agreed' \in BOOLEAN
BY DEF FleetInv, NoteTotal

LEMMA VacantKeeps ==
    ASSUME FleetInv, VacantPage
    PROVE  FleetInv'
<1>1. /\ Collecting /\ Target = <<>> /\ TargetDone(got) /\ NoteTotal(0) /\ UNCHANGED cloud
      /\ AccountInv /\ got \in Seq(Found) /\ Collected
  BY DEF VacantPage, FleetInv, ClientTyped
<1>2. InTarget = {}
  <2>1. ToSet(Target) = {}
    BY <1>1 DEF ToSet
  <2> QED
    BY <1>1, <2>1, TargetListed
<1>3. OneDeviceChanged /\ phase = "root" /\ blind => got = <<>>
  BY <1>1 DEF Collected
<1> QED
  BY <1>1, <1>2, <1>3, Noting, DoneKeeps

\* What was accepted of a target with a page that is not rejected: no device
\* twice, and, if one device changed at most, no other than the target's.
LEMMA PageAccepted ==
    ASSUME FleetInv, Collecting, ~PageRejected(Len(Target), Entries)
    PROVE  /\ got \o Entries \in Seq(Found)
           /\ IsFiniteSet(Serials(got \o Entries))
           /\ Len(got \o Entries) = Cardinality(Serials(got \o Entries))
           /\ Len(got \o Entries) = Len(got) + Len(Entries)
           /\ OneDeviceChanged => Serials(got \o Entries) \subseteq InTarget
<1>1. /\ AccountInv /\ got \in Seq(Found) /\ IsFiniteSet(Serials(got))
      /\ Len(got) = Cardinality(Serials(got)) /\ page \in Nat \ {0}
      /\ expected = Unset => got = <<>>
  BY FleetAssumption DEF FleetInv, ClientTyped
<1>2. /\ Entries \in Seq(Found) /\ Serials(Entries) \subseteq InTarget
      /\ IsFiniteSet(Serials(Entries)) /\ Cardinality(Serials(Entries)) = Len(Entries)
  BY <1>1, EntriesIn
<1>3. /\ got \o Entries \in Seq(Found) /\ Len(got \o Entries) = Len(got) + Len(Entries)
      /\ Serials(got \o Entries) = Serials(got) \cup Serials(Entries)
  BY <1>1, <1>2, SerialsAdded
<1>4. Serials(got) \cap Serials(Entries) = {}
  BY DEF PageRejected
<1>5. /\ IsFiniteSet(Serials(got \o Entries))
      /\ Cardinality(Serials(got \o Entries)) = Len(got) + Len(Entries)
  <2>1. /\ IsFiniteSet(Serials(got) \cup Serials(Entries))
        /\ Cardinality(Serials(got) \cup Serials(Entries))
             = Len(got) + Len(Entries) - Cardinality(Serials(got) \cap Serials(Entries))
    BY <1>1, <1>2, FS_Union
  <2>2. Cardinality(Serials(got) \cap Serials(Entries)) = 0
    BY <1>4, FS_EmptySet
  <2>3. Len(got) \in Nat /\ Len(Entries) \in Nat
    BY <1>1, <1>2
  <2> QED
    BY <1>3, <2>1, <2>2, <2>3
<1>6. ASSUME OneDeviceChanged PROVE Serials(got) \subseteq InTarget
  <2>1. CASE expected = Unset
    BY <1>1, <2>1, NothingFound
  <2>2. CASE expected # Unset
    <3>1. expected = Len(Target)
      BY <2>2 DEF PageRejected
    <3>2. expected = Cardinality(InTarget)
      BY <1>1, <3>1, TargetListed
    <3> QED
      BY <1>6, <2>2, <3>2 DEF FleetInv, Counted
  <2> QED
    BY <2>1, <2>2
<1> QED
  BY <1>2, <1>3, <1>5, <1>6

LEMMA ListPageKeeps ==
    ASSUME FleetInv, ListPage
    PROVE  FleetInv'
<1> DEFINE total == Len(Target)
           devices == got \o Entries
<1>1. /\ Collecting /\ NoteTotal(total) /\ UNCHANGED cloud /\ AccountInv
      /\ IsFiniteSet(InTarget) /\ Cardinality(InTarget) = total /\ total \in Nat
  <2>1. AccountInv
    BY DEF FleetInv
  <2>2. IsFiniteSet(InTarget) /\ Cardinality(InTarget) = total
    BY <2>1, TargetListed
  <2> QED
    BY <2>1, <2>2, FS_CardinalityType DEF ListPage
<1>2. agreed' \in BOOLEAN
  BY <1>1, Noting
<1>3. CASE Fail
  BY <1>1, <1>2, <1>3, FailKeeps
<1>4. ASSUME ~PageRejected(total, Entries), Len(devices) = total, TargetDone(devices)
      PROVE  FleetInv'
  <2>1. /\ devices \in Seq(Found) /\ IsFiniteSet(Serials(devices))
        /\ Len(devices) = Cardinality(Serials(devices))
        /\ OneDeviceChanged => Serials(devices) \subseteq InTarget
    BY <1>1, <1>4, PageAccepted
  <2>2. OneDeviceChanged => Serials(devices) = InTarget
    BY <1>1, <1>4, <2>1, FS_Subset
  <2>3. OneDeviceChanged /\ phase = "root" /\ blind => devices = <<>>
    <3>1. phase = "root" /\ blind => Len(devices) = 0
      BY <1>1, <1>4, FS_EmptySet DEF InTarget
    <3> QED
      BY <2>1, <3>1
  <2> QED
    BY <1>1, <1>2, <1>4, <2>1, <2>2, <2>3, DoneKeeps
<1>5. ASSUME ~PageRejected(total, Entries), Len(devices) < total,
             page' = page + 1 /\ expected' = total /\ got' = devices,
             UNCHANGED <<phase, todo, collected, result>>
      PROVE  FleetInv'
  <2>1. /\ devices \in Seq(Found) /\ IsFiniteSet(Serials(devices))
        /\ Len(devices) = Cardinality(Serials(devices))
        /\ Len(devices) = Len(got) + Len(Entries)
        /\ OneDeviceChanged => Serials(devices) \subseteq InTarget
    BY <1>1, <1>5, PageAccepted
  <2>2. /\ AccountInv' /\ OneDeviceChanged' = OneDeviceChanged
        /\ UNCHANGED <<listing, home, blind, changes, stable, everListed>>
    BY <1>1, CloudStill
  <2>3. page' \in 1..MaxPages
    <3>1. page \in 1..MaxPages /\ MaxPages \in Nat
      BY FleetAssumption DEF FleetInv, ClientTyped
    <3>2. page # MaxPages
      BY <1>5, <2>1 DEF PageRejected
    <3> QED
      BY <1>5, <3>1, <3>2
  <2>4. expected' \in Nat /\ expected' # Unset
    BY <1>1, <1>5, FleetAssumption
  <2>5. ClientTyped'
    BY <1>5, <2>1, <2>3, <2>4 DEF FleetInv, ClientTyped
  <2>6. InTarget' = InTarget
    BY <1>5, <2>2 DEF InTarget
  <2>7. Counted'
    BY <1>1, <1>5, <2>1, <2>2, <2>6 DEF Counted
  <2>8. ~(phase = "root" /\ blind)
    <3>1. Len(got) \in Nat /\ Len(Entries) \in Nat /\ Len(devices) \in Nat
      BY <1>1, <2>1, EntriesIn, FleetAssumption DEF FleetInv, ClientTyped
    <3>2. total # 0
      BY <1>1, <1>5, <3>1
    <3> QED
      BY <1>1, <3>2, FS_EmptySet DEF InTarget
  <2>9. Collected'
    BY <1>5, <2>2, <2>8 DEF FleetInv, Collected
  <2> QED
    BY <1>2, <1>5, <2>2, <2>5, <2>7, <2>9 DEF FleetInv, StillThere
<1> HIDE DEF total, devices
<1> QED
  BY <1>3, <1>4, <1>5 DEF ListPage, total, devices

LEMMA PartitionKeeps ==
    ASSUME FleetInv, Partition
    PROVE  FleetInv'
<1>1. phase = "partition" /\ UNCHANGED cloud /\ agreed' \in BOOLEAN
  BY DEF Partition, FleetInv
<1>2. CASE Fail
  BY <1>1, <1>2, FailKeeps
<1>3. CASE /\ phase' = "idle" /\ result' = "ok"
           /\ UNCHANGED <<todo, page, expected, got, collected>>
  <2>1. /\ AccountInv' /\ OneDeviceChanged' = OneDeviceChanged
        /\ UNCHANGED <<listing, home, blind, changes, stable, everListed>>
    BY <1>1, CloudStill DEF FleetInv
  <2>2. ClientTyped'
    BY <1>3 DEF FleetInv, ClientTyped
  <2>3. Collected'
    BY <1>1, <1>3, <2>1 DEF FleetInv, Collected
  <2> QED
    BY <1>1, <1>3, <2>1, <2>2, <2>3 DEF FleetInv, StillThere, Counted, Collecting
<1> QED
  BY <1>2, <1>3 DEF Partition

LEMMA FleetStepKeeps == FleetInv /\ [Next]_vars => FleetInv'
<1> SUFFICES ASSUME FleetInv, [Next]_vars PROVE FleetInv'
  OBVIOUS
<1>1. CASE UNCHANGED vars
  <2>1. UNCHANGED cloud /\ UNCHANGED client
    BY <1>1 DEF vars
  <2>2. AccountInv' /\ ClientTyped' /\ OneDeviceChanged' = OneDeviceChanged
    BY <2>1, CloudStill, ClientStill DEF FleetInv
  <2> QED
    BY <2>1, <2>2
       DEF cloud, client, FleetInv, StillThere, Counted, Collecting, Collected, InTarget
<1>2. CASE RequestFails
  BY <1>2, FailKeeps DEF RequestFails, FleetInv
<1> QED
  BY <1>1, <1>2, FleetStartKeeps, VacantKeeps, ListPageKeeps, PartitionKeeps, OthersKeepFleet
     DEF Next, ClientStep

LEMMA FleetInvHolds == Spec => []FleetInv
BY FleetInitInv, FleetStepKeeps, PTL DEF Spec

-----------------------------------------------------------------------------
(* The fleet: the theorems. *)

\* Every variable keeps its type; no page beyond max_pages is asked for
\* (client.py 556-616).
THEOREM FleetTyped == Spec => []TypeOK
<1>1. FleetInv => TypeOK
  BY DEF FleetInv, AccountInv, ClientTyped, TypeOK
<1> QED
  BY <1>1, FleetInvHolds, PTL

\* A fleet that is returned misses no device that stayed in its place, although
\* one device came, left or moved meanwhile (client.py 564, "count-validated").
THEOREM StayersListed == Spec => []StableDevicesListed
<1>1. FleetInv => StableDevicesListed
  BY DEF FleetInv, Collected, StableDevicesListed
<1> QED
  BY <1>1, FleetInvHolds, PTL

-----------------------------------------------------------------------------
(* The fleet: a collection runs down. *)

\* The steps that a collection may still take: its pages, and the partition.
StepsLeft ==
    CASE phase = "idle" -> 0
      [] phase = "partition" -> 1
      [] phase = "below" -> Len(todo) * MaxPages + 2 - page
      [] phase = "root" -> (Len(Groups) + 1) * MaxPages + 2 - page

LEMMA Stages ==
    ASSUME ClientTyped
    PROVE  /\ MaxPages \in Nat \ {0} /\ Len(Groups) \in Nat /\ Len(todo) \in Nat
           /\ phase \in {"idle", "root", "below", "partition"}
           /\ page \in 1..MaxPages /\ Len(Groups) * MaxPages \in Nat
           /\ (Len(Groups) + 1) * MaxPages = Len(Groups) * MaxPages + MaxPages
           /\ Len(todo) * MaxPages \in Nat
           /\ phase = "below" => Len(todo) > 0 /\ Len(todo) * MaxPages >= MaxPages
<1>1. MaxPages \in Nat \ {0} /\ Groups \in Seq(GroupSet) /\ todo \in Seq(GroupSet)
  BY FleetAssumption DEF ClientTyped
<1>2. Len(Groups) \in Nat /\ Len(todo) \in Nat /\ (phase = "below" => Len(todo) > 0)
  BY <1>1 DEF ClientTyped
<1>3. \A n \in Nat : /\ n * MaxPages \in Nat /\ (n + 1) * MaxPages = n * MaxPages + MaxPages
                     /\ n > 0 => n * MaxPages >= MaxPages
  <2>1. \A n \in Nat : n * MaxPages \in Nat /\ (n + 1) * MaxPages = n * MaxPages + MaxPages
    BY <1>1, Product
  <2>2. \A n \in Nat : n > 0 => n - 1 \in Nat /\ n = (n - 1) + 1
    OBVIOUS
  <2> QED
    BY <1>1, <2>1, <2>2
<1> QED
  BY <1>1, <1>2, <1>3 DEF ClientTyped

\* An error, a target that is done and a page that is not the last all cost a step.
LEMMA FailRunsDown ==
    ASSUME ClientTyped, phase # "idle", Fail
    PROVE  StepsLeft' < StepsLeft
<1>1. StepsLeft' = 0
  BY DEF Fail, StepsLeft
<1>2. StepsLeft \in Nat \ {0}
  BY Stages DEF StepsLeft
<1> QED
  BY <1>1, <1>2

LEMMA TargetRunsDown ==
    ASSUME ClientTyped, Collecting, NEW devices, TargetDone(devices)
    PROVE  StepsLeft' < StepsLeft
<1>1. CASE Fail
  BY <1>1, FailRunsDown DEF Collecting
<1>2. CASE phase = "root" /\ phase' = "below" /\ todo' = Groups /\ page' = 1
  <2>1. StepsLeft' = Len(Groups) * MaxPages + 1
    BY <1>2, Stages DEF StepsLeft
  <2>2. StepsLeft = Len(Groups) * MaxPages + MaxPages + 2 - page
    BY <1>2, Stages DEF StepsLeft
  <2> QED
    BY SMTT(30), <2>1, <2>2, Stages
<1>3. CASE phase' = "partition"
  <2>1. StepsLeft' = 1
    BY <1>3 DEF StepsLeft
  <2>2. StepsLeft \in Nat /\ StepsLeft > 1
    BY SMTT(30), Stages DEF StepsLeft, Collecting
  <2> QED
    BY <2>1, <2>2
<1>4. CASE phase = "below" /\ phase' = "below" /\ todo' = Tail(todo) /\ page' = 1
  <2>1. Len(todo) - 1 \in Nat /\ Len(todo') = Len(todo) - 1
    BY <1>4, Stages DEF ClientTyped
  <2>2. Len(todo) * MaxPages = (Len(todo) - 1) * MaxPages + MaxPages
    <3>1. \A n \in Nat : (n + 1) * MaxPages = n * MaxPages + MaxPages
      BY Stages, Product
    <3>2. \A n \in Nat : n - 1 \in Nat => n * MaxPages = (n - 1) * MaxPages + MaxPages
      <4>1. \A n \in Nat : n - 1 \in Nat => n = (n - 1) + 1
        OBVIOUS
      <4> QED
        BY <3>1, <4>1
    <3> QED
      BY <2>1, <3>2, Stages
  <2>3. StepsLeft' = (Len(todo) - 1) * MaxPages + 1
    BY <1>4, <2>1 DEF StepsLeft
  <2>4. StepsLeft = (Len(todo) - 1) * MaxPages + MaxPages + 2 - page
    BY <1>4, <2>2 DEF StepsLeft
  <2>5. (Len(todo) - 1) * MaxPages \in Nat /\ page \in 1..MaxPages
    BY <2>1, Stages, Product
  <2> HIDE DEF StepsLeft
  <2> QED
    BY SMTT(30), <2>3, <2>4, <2>5, Stages
<1> QED
  BY <1>1, <1>2, <1>3, <1>4 DEF TargetDone, NewTarget, NextTodo

LEMMA PageRunsDown ==
    ASSUME FleetInv, ListPage
    PROVE  StepsLeft' < StepsLeft
<1>1. ClientTyped /\ Collecting
  BY DEF FleetInv, ListPage
<1>2. CASE Fail \/ TargetDone(got \o Entries)
  BY <1>1, <1>2, FailRunsDown, TargetRunsDown DEF Collecting
<1>3. CASE /\ ~PageRejected(Len(Target), Entries) /\ Len(got \o Entries) < Len(Target)
           /\ page' = page + 1 /\ UNCHANGED <<phase, todo>>
  <2>1. CASE phase = "root"
    <3>1. /\ StepsLeft = (Len(Groups) + 1) * MaxPages + 2 - page
          /\ StepsLeft' = (Len(Groups) + 1) * MaxPages + 2 - (page + 1)
      BY <1>3, <2>1 DEF StepsLeft
    <3> QED BY SMTT(30), <1>1, <3>1, Stages
  <2>2. CASE phase = "below"
    <3>1. /\ StepsLeft = Len(todo) * MaxPages + 2 - page
          /\ StepsLeft' = Len(todo) * MaxPages + 2 - (page + 1)
      BY <1>3, <2>2 DEF StepsLeft
    <3> QED BY SMTT(30), <1>1, <3>1, Stages
  <2> QED
    BY <1>1, <2>1, <2>2 DEF Collecting
<1> QED
  BY <1>2, <1>3 DEF ListPage

\* No more subgroups are left than there are.
FewLeft == Len(todo) <= Len(Groups)

LEMMA FewLeftStep ==
    ASSUME FleetInv, FewLeft, [Next]_vars
    PROVE  FewLeft'
<1>1. ClientTyped /\ todo \in Seq(GroupSet)
  BY DEF FleetInv, ClientTyped
<1>2. Len(todo) \in Nat /\ Len(Groups) \in Nat /\ Len(<<>>) = 0
  BY <1>1, Stages
<1>3. CASE todo' = todo \/ todo' = <<>> \/ todo' = Groups
  BY <1>2, <1>3 DEF FewLeft
<1>4. CASE todo # <<>> /\ todo' = Tail(todo)
  <2>1. Len(todo') = Len(todo) - 1
    BY <1>1, <1>4
  <2> QED
    BY <1>2, <2>1 DEF FewLeft
<1>5. ASSUME NEW devices, TargetDone(devices) PROVE FewLeft'
  BY <1>1, <1>3, <1>4, <1>5 DEF TargetDone, Fail, NextTodo, ClientTyped
<1> QED
  BY <1>3, <1>5 DEF Next, ClientStep, Start, VacantPage, ListPage, RequestFails, Partition, Others,
     Fail, vars, client

\* A collection cannot go round for ever, whatever the account does: each step of the
\* client takes it nearer to its end, which is no more than the pages of the root and
\* of every subgroup, and one step, away (client.py 465-616).
THEOREM CollectionsRunDown ==
    Spec => /\ [](StepsLeft \in 0..((Len(Groups) + 1) * MaxPages + 1))
            /\ [][phase # "idle" => \/ StepsLeft' < StepsLeft
                                    \/ Others /\ StepsLeft' = StepsLeft]_vars
<1>1. FleetInv /\ FewLeft => StepsLeft \in 0..((Len(Groups) + 1) * MaxPages + 1)
  <2> SUFFICES ASSUME FleetInv, FewLeft PROVE StepsLeft \in 0..((Len(Groups) + 1) * MaxPages + 1)
    OBVIOUS
  <2>1. ClientTyped
    BY DEF FleetInv
  <2>2. Len(todo) * MaxPages <= Len(Groups) * MaxPages
    <3>1. \A a, b, c \in Nat : a <= b => a * c <= b * c
      BY SMT
    <3> QED BY <2>1, <3>1, Stages DEF FewLeft
  <2>3. /\ phase = "below" => StepsLeft = Len(todo) * MaxPages + 2 - page
        /\ phase = "root" => StepsLeft = (Len(Groups) + 1) * MaxPages + 2 - page
        /\ phase \in {"idle", "partition"} => StepsLeft \in {0, 1}
    BY DEF StepsLeft
  <2> HIDE DEF StepsLeft
  <2> QED
    BY SMTT(30), <2>1, <2>2, <2>3, Stages
<1>2. FleetInv /\ [Next]_vars =>
        [phase # "idle" => StepsLeft' < StepsLeft \/ (Others /\ StepsLeft' = StepsLeft)]_vars
  <2> SUFFICES ASSUME FleetInv, Next, phase # "idle"
               PROVE  StepsLeft' < StepsLeft \/ (Others /\ StepsLeft' = StepsLeft)
    OBVIOUS
  <2>1. ClientTyped
    BY DEF FleetInv
  <2>2. CASE VacantPage
    BY <2>1, <2>2, TargetRunsDown DEF VacantPage
  <2>3. CASE ListPage
    BY <2>3, PageRunsDown
  <2>4. CASE RequestFails
    BY <2>1, <2>4, FailRunsDown DEF RequestFails
  <2>5. CASE Partition
    <3>1. phase = "partition" /\ phase' = "idle"
      BY <2>5 DEF Partition, Fail
    <3> QED
      BY <3>1 DEF StepsLeft
  <2>6. CASE Others
    BY <2>6 DEF Others, client, StepsLeft
  <2> QED
    BY <2>2, <2>3, <2>4, <2>5, <2>6 DEF Next, ClientStep, Start
<1>3. Init => FewLeft
  <2>1. Len(Groups) \in Nat /\ Len(<<>>) = 0
    BY FleetAssumption
  <2> QED
    BY <2>1 DEF Init, FewLeft
<1>4. FleetInv /\ FewLeft /\ [Next]_vars => FewLeft'
  BY FewLeftStep
<1> QED
  BY <1>1, <1>2, <1>3, <1>4, FleetInvHolds, PTL DEF Spec
=============================================================================
