---------------------------- MODULE RefreshProofs ---------------------------
(***************************************************************************)
(* Theorems about Refresh, for any zones, primaries, quotas and bounds.    *)
(*                                                                         *)
(* The inductive invariant RInv has a part for each zone (RZoneInv) and a  *)
(* part for the manager's two lists (RLists).  Most steps replace one      *)
(* zone's record by one that the lists cannot tell from it (RMoves, in     *)
(* RefreshZones); the others put a zone on a list or take it off           *)
(* (StartKeeps, ResumeKeeps, QueueKeeps, LeaveKeeps, ShutdownKeeps).       *)
(***************************************************************************)
EXTENDS RefreshZones, FiniteSetTheorems, SequenceTheorems, WellFoundedInduction

\* The transfers that the quota counts.
RLive(zones, progress) == {z \in progress : ~zones[z].exiting /\ ~zones[z].leaving}

\* transfers-in and transfers-per-ns are kept.
RWithin(zones, progress) ==
    /\ Cardinality(RLive(zones, progress)) <= TransfersIn
    /\ \A s \in RServers :
          Cardinality(RBusyWith(zones, s, RLive(zones, progress))) <= TransfersPerNs[s]

\* A zone is on the list its refresh has brought it to and on no other, and the
\* quota is kept.
RLists(zones, waiting, progress) ==
    /\ waiting \in Seq(RZones) /\ IsInjective(waiting)
    /\ progress \subseteq RZones /\ IsFiniteSet(progress)
    /\ \A z \in RZones :
          /\ zones[z].stage = "waiting" <=> z \in Range(waiting)
          /\ ~zones[z].shut => (z \in progress <=> RBusy(zones[z]))
    /\ RWithin(zones, progress)

\* The inductive invariant.
RInv ==
    /\ RZonesInv(rz)
    /\ RLists(rz, rWaiting, rProgress)
    /\ rWaiting # <<>> => rProgress # {}
    /\ rSerial \in [RServers -> Nat]

\* A set of numbers that is not empty has a least member.
LEMMA NatMinimum == HasLeast
  <1> SUFFICES ASSUME NEW S \in SUBSET Nat, S # {} PROVE \E i \in S : \A j \in S : i <= j
    BY Zenon DEF HasLeast
  <1> DEFINE R == OpToRel(<, Nat)
  <1>1. IsWellFoundedOn(R, Nat)
    BY NatLessThanWellFounded, Zenon
  <1>2. \A x, y \in Nat : x < y => <<x, y>> \in R
    BY Zenon DEF OpToRel
  <1> HIDE DEF R
  <1>3. PICK x \in S : \A y \in S : <<y, x>> \notin R
    BY <1>1, WFMin, Zenon
  <1>4. ASSUME NEW y \in S PROVE x <= y
    <2>1. x \in Nat /\ y \in Nat
      BY Zenon
    <2>2. ~(y < x)
      BY <1>2, <1>3, <2>1, Zenon
    <2> QED
      BY <2>1, <2>2
  <1> QED
    BY <1>4, Zenon

\* Unlinking takes the zone off the list and leaves the others where they are.
LEMMA UnlinkFacts ==
  ASSUME NEW list \in Seq(RZones), IsInjective(list), NEW z
  PROVE  /\ Unlink(list, z) \in Seq(RZones)
         /\ IsInjective(Unlink(list, z))
         /\ Range(Unlink(list, z)) = Range(list) \ {z}
  <1>1. CASE z \notin Range(list)
    BY <1>1, Zenon DEF Unlink
  <1>2. CASE z \in Range(list)
    <2> DEFINE k == CHOOSE i \in DOMAIN list : list[i] = z
               n == Len(list)
               a == SubSeq(list, 1, k - 1)
               b == SubSeq(list, k + 1, n)
    <2>1. n \in Nat /\ DOMAIN list = 1..n /\ \A i \in 1..n : list[i] \in RZones
      BY LenProperties, ElementOfSeq, Zenon
    <2>2. k \in 1..n /\ list[k] = z
      BY <1>2, <2>1, Zenon DEF Range
    <2>3. Unlink(list, z) = a \o b
      BY <1>2, Zenon DEF Unlink
    <2> HIDE DEF k, n
    <2>4. a \in Seq(RZones) /\ Len(a) = k - 1 /\ \A i \in 1..k - 1 : a[i] = list[i]
      BY <2>1, <2>2, SubSeqProperties
    <2>5. b \in Seq(RZones) /\ Len(b) = n - k /\ \A i \in 1..n - k : b[i] = list[k + i]
      BY <2>1, <2>2, SubSeqProperties
    <2> HIDE DEF a, b
    <2>6. /\ a \o b \in Seq(RZones)
          /\ DOMAIN (a \o b) = 1..n - 1
          /\ \A i \in 1..n - 1 : (a \o b)[i] = list[IF i < k THEN i ELSE i + 1]
      <3>1. a \o b \in Seq(RZones) /\ Len(a \o b) = n - 1
        <4>1. a \o b \in Seq(RZones) /\ Len(a \o b) = Len(a) + Len(b)
          <5>1. a \in Seq(RZones) /\ b \in Seq(RZones)
            BY <2>4, <2>5, Zenon
          <5> QED
            BY <5>1, ConcatProperties, Zenon
        <4> QED
          BY <4>1, <2>1, <2>2, <2>4, <2>5
      <3>2. ASSUME NEW i \in 1..n - 1
            PROVE  (a \o b)[i] = list[IF i < k THEN i ELSE i + 1]
        <4>1. (a \o b)[i] = IF i <= k - 1 THEN a[i] ELSE b[i - (k - 1)]
          BY <2>1, <2>2, <2>4, <2>5, ConcatProperties
        <4> QED
          BY <4>1, <2>1, <2>2, <2>4, <2>5
      <3> QED
        BY <3>1, <3>2, LenProperties, Zenon
    <2>7. IsInjective(a \o b)
      <3> SUFFICES ASSUME NEW i \in 1..n - 1, NEW j \in 1..n - 1, (a \o b)[i] = (a \o b)[j]
                   PROVE  i = j
        BY <2>6, Zenon DEF IsInjective
      <3>1. list[IF i < k THEN i ELSE i + 1] = list[IF j < k THEN j ELSE j + 1]
        BY <2>6, Zenon
      <3>2. (IF i < k THEN i ELSE i + 1) \in 1..n /\ (IF j < k THEN j ELSE j + 1) \in 1..n
        BY <2>1, <2>2
      <3>3. (IF i < k THEN i ELSE i + 1) = (IF j < k THEN j ELSE j + 1)
        BY <3>1, <3>2, <2>1, Zenon DEF IsInjective
      <3> QED
        BY <3>3, <2>2, <2>1
    <2>8. Range(a \o b) = Range(list) \ {z}
      <3>1. ASSUME NEW x \in Range(a \o b) PROVE x \in Range(list) \ {z}
        <4>1. PICK i \in 1..n - 1 : (a \o b)[i] = x
          BY <2>6, Zenon DEF Range
        <4> DEFINE j == IF i < k THEN i ELSE i + 1
        <4>2. j \in 1..n /\ j # k
          BY <2>1, <2>2
        <4>3. list[j] = x
          BY <4>1, <2>6, Zenon
        <4> HIDE DEF j
        <4>4. x # z
          BY <4>2, <4>3, <2>1, <2>2, Zenon DEF IsInjective
        <4> QED
          BY <4>2, <4>3, <4>4, <2>1, Zenon DEF Range
      <3>2. ASSUME NEW x \in Range(list), x # z PROVE x \in Range(a \o b)
        <4>1. PICK i \in 1..n : list[i] = x
          BY <2>1, Zenon DEF Range
        <4>2. CASE i < k
          <5>1. i \in 1..n - 1 /\ (a \o b)[i] = list[i]
            BY <4>2, <2>1, <2>2, <2>6
          <5> QED
            BY <5>1, <4>1, <2>6, Zenon DEF Range
        <4>3. CASE i > k
          <5>1. i - 1 \in 1..n - 1 /\ ~(i - 1 < k) /\ (i - 1) + 1 = i
            BY <4>3, <2>1, <2>2
          <5>2. (a \o b)[i - 1] = list[i]
            BY <5>1, <2>6, Zenon
          <5> QED
            BY <5>1, <5>2, <4>1, <2>6, Zenon DEF Range
        <4> QED
          BY <4>1, <4>2, <4>3, <3>2, <2>1, <2>2
      <3> QED
        BY <3>1, <3>2, Zenon
    <2> QED
      BY <2>3, <2>6, <2>7, <2>8, Zenon
  <1> QED
    BY <1>1, <1>2, Zenon

-----------------------------------------------------------------------------
(***************************************************************************)
(* The lists of the zone manager and the quota.                            *)
(***************************************************************************)
\* Transfers that end, or leave the count, cannot break the quota.
LEMMA QuotaShrinks ==
  ASSUME NEW zones, NEW progress, IsFiniteSet(progress), RWithin(zones, progress),
         NEW new, NEW less, RLive(new, less) \subseteq RLive(zones, progress),
         \A x \in RLive(new, less) : new[x].curr = zones[x].curr
  PROVE  RWithin(new, less)
  <1>1. IsFiniteSet(RLive(zones, progress))
    BY FS_Subset, Zenon DEF RLive
  <1>2. /\ Cardinality(RLive(new, less)) <= Cardinality(RLive(zones, progress))
        /\ Cardinality(RLive(new, less)) \in Nat
        /\ Cardinality(RLive(zones, progress)) \in Nat
    BY <1>1, FS_Subset, FS_CardinalityType, Zenon
  <1>3. ASSUME NEW s \in RServers
        PROVE  Cardinality(RBusyWith(new, s, RLive(new, less))) <= TransfersPerNs[s]
    <2> DEFINE A == RBusyWith(new, s, RLive(new, less))
               B == RBusyWith(zones, s, RLive(zones, progress))
    <2>1. A \subseteq B
      BY Zenon DEF RBusyWith, RServer
    <2>2. IsFiniteSet(B)
      BY <1>1, FS_Subset, Zenon DEF RBusyWith
    <2>3. Cardinality(A) <= Cardinality(B) /\ Cardinality(A) \in Nat /\ Cardinality(B) \in Nat
      BY <2>1, <2>2, FS_Subset, FS_CardinalityType, Zenon
    <2>4. Cardinality(B) <= TransfersPerNs[s]
      BY Zenon DEF RWithin
    <2> HIDE DEF A, B
    <2>5. Cardinality(A) <= TransfersPerNs[s]
      BY <2>3, <2>4, RefreshAssumption
    <2> QED
      BY <2>5, Zenon DEF A
  <1>4. Cardinality(RLive(new, less)) <= TransfersIn
    BY <1>2, RefreshAssumption DEF RWithin
  <1> QED
    BY <1>3, <1>4, Zenon DEF RWithin

\* One more transfer, of a zone that has quota.
LEMMA QuotaGrows ==
  ASSUME NEW zones, NEW progress, IsFiniteSet(progress), RWithin(zones, progress),
         NEW w, HasQuota(zones, progress, w), NEW new,
         new[w].exiting = zones[w].exiting, new[w].curr = zones[w].curr,
         \A x \in progress \ {w} : new[x] = zones[x],
         w \in progress => zones[w].exiting
  PROVE  RWithin(new, progress \cup {w})
  <1> DEFINE live == RLive(new, progress \cup {w})
  <1>1. CASE zones[w].exiting
    <2>1. live \subseteq RLive(zones, progress) /\ \A x \in live : new[x].curr = zones[x].curr
      BY <1>1, Zenon DEF RLive
    <2> HIDE DEF live
    <2>2. ASSUME NEW less, live = RLive(new, less) PROVE RWithin(new, less)
      BY <2>1, <2>2, QuotaShrinks
    <2> QED
      BY <2>2, Zenon DEF live
  <1>2. CASE ~zones[w].exiting
    <2>1. /\ Cardinality(progress) < TransfersIn
          /\ LET s == RServer(w, zones[w])
             IN  Cardinality(RBusyWith(zones, s, progress)) < TransfersPerNs[s]
      BY <1>2, Zenon DEF HasQuota
    <2>2. Cardinality(live) <= TransfersIn
      <3>1. live \subseteq progress \cup {w} /\ IsFiniteSet(progress \cup {w})
        <4>1. live \subseteq progress \cup {w}
          BY Zenon DEF RLive
        <4> QED
          BY <4>1, FS_AddElement, Zenon
      <3>2. /\ Cardinality(progress \cup {w}) <= Cardinality(progress) + 1
            /\ Cardinality(progress \cup {w}) \in Nat /\ Cardinality(progress) \in Nat
        BY <3>1, FS_AddElement, FS_CardinalityType
      <3>3. Cardinality(live) <= Cardinality(progress \cup {w}) /\ Cardinality(live) \in Nat
        BY <3>1, FS_Subset, FS_CardinalityType, Zenon
      <3> QED
        BY <2>1, <3>2, <3>3, RefreshAssumption
    <2>3. ASSUME NEW s \in RServers
          PROVE  Cardinality(RBusyWith(new, s, live)) <= TransfersPerNs[s]
      <3> DEFINE A == RBusyWith(new, s, live)
      <3>1. CASE s = RServer(w, zones[w])
        <4> DEFINE B == RBusyWith(zones, s, progress)
        <4>1. A \subseteq B \cup {w}
          BY Zenon DEF RBusyWith, RLive
        <4>2. IsFiniteSet(B)
          BY FS_Subset, Zenon DEF RBusyWith
        <4>3. Cardinality(B) < TransfersPerNs[s]
          BY <2>1, <3>1, Zenon
        <4> HIDE DEF A, B
        <4>4. /\ IsFiniteSet(B \cup {w}) /\ Cardinality(B \cup {w}) \in Nat
              /\ Cardinality(B \cup {w}) <= Cardinality(B) + 1 /\ Cardinality(B) \in Nat
          <5>1. Cardinality(B) \in Nat
            BY <4>2, FS_CardinalityType, Zenon
          <5>2. /\ IsFiniteSet(B \cup {w})
                /\ Cardinality(B \cup {w}) =
                      IF w \in B THEN Cardinality(B) ELSE Cardinality(B) + 1
            BY <4>2, FS_AddElement, SMTT(30)
          <5> QED
            BY <5>1, <5>2
        <4>5. Cardinality(A) <= Cardinality(B \cup {w}) /\ Cardinality(A) \in Nat
          BY <4>1, <4>4, FS_Subset, FS_CardinalityType, Zenon
        <4>6. Cardinality(A) <= TransfersPerNs[s]
          BY <4>3, <4>4, <4>5, RefreshAssumption
        <4> QED
          BY <4>6, Zenon DEF A
      <3>2. CASE s # RServer(w, zones[w])
        <4> DEFINE B == RBusyWith(zones, s, RLive(zones, progress))
        <4>1. A \subseteq B
          BY <3>2, Zenon DEF RBusyWith, RLive, RServer
        <4>2. IsFiniteSet(B)
          BY FS_Subset, Zenon DEF RBusyWith, RLive
        <4>3. Cardinality(B) <= TransfersPerNs[s]
          BY Zenon DEF RWithin
        <4> HIDE DEF A, B
        <4>4. Cardinality(A) <= Cardinality(B) /\ Cardinality(A) \in Nat /\ Cardinality(B) \in Nat
          BY <4>1, <4>2, FS_Subset, FS_CardinalityType, Zenon
        <4>5. Cardinality(A) <= TransfersPerNs[s]
          BY <4>3, <4>4, RefreshAssumption
        <4> QED
          BY <4>5, Zenon DEF A
      <3> QED
        BY <3>1, <3>2, Zenon
    <2> QED
      BY <2>2, <2>3, Zenon DEF RWithin
  <1> QED
    BY <1>1, <1>2, Zenon

\* A zone is refused only while some transfer is in progress.
LEMMA RefusedMeansBusy ==
  ASSUME NEW zones, RZonesInv(zones), NEW progress,
         NEW w \in RZones, zones[w].stage = "waiting", ~HasQuota(zones, progress, w)
  PROVE  progress # {}
  <1> SUFFICES ASSUME progress = {} PROVE FALSE
    BY Zenon
  <1> DEFINE s == RServer(w, zones[w])
  <1>1. s \in RServers
    <2>1. zones[w].curr \in 1..Len(RPrimaries[w]) + 1 /\ ~(zones[w].curr > Len(RPrimaries[w]))
      BY Zenon DEF RZonesInv, RZoneInv, RZoneType, RZoneRule, RDone
    <2>2. RPrimaries[w] \in Seq(RServers)
      BY RefreshAssumption
    <2> QED
      BY <2>1, <2>2 DEF RServer
  <1>2. Cardinality(progress) = 0 /\ Cardinality(RBusyWith(zones, s, progress)) = 0
    BY FS_EmptySet, Zenon DEF RBusyWith
  <1>3. 0 < TransfersIn /\ 0 < TransfersPerNs[s]
    <2> HIDE DEF s
    <2> QED
      BY <1>1, RefreshAssumption
  <1> QED
    BY <1>2, <1>3, Zenon DEF HasQuota

\* zmgr_start_xfrin_ifquota, for a waiting zone that has quota
LEMMA StartKeeps ==
  ASSUME NEW zones, RZonesInv(zones), NEW waiting, NEW progress,
         RLists(zones, waiting, progress), NEW w \in Range(waiting),
         HasQuota(zones, progress, w)
  PROVE  LET m == StartXfrin(zones, waiting, progress, w)
         IN  RZonesInv(m.zones) /\ RLists(m.zones, m.waiting, m.progress) /\ m.progress # {}
  <1> DEFINE new == [zones EXCEPT ![w].stage = "granted"]
             m == StartXfrin(zones, waiting, progress, w)
  <1>1. m.zones = new /\ m.waiting = Unlink(waiting, w) /\ m.progress = progress \cup {w}
    BY Zenon DEF StartXfrin
  <1>2. waiting \in Seq(RZones) /\ w \in RZones /\ zones[w].stage = "waiting"
    <2>1. waiting \in Seq(RZones)
      BY Zenon DEF RLists
    <2>2. w \in RZones
      BY <2>1, RangeOfSeq, Zenon
    <2> QED
      BY <2>1, <2>2, Zenon DEF RLists
  <1>3. /\ DOMAIN new = RZones /\ \A x \in RZones \ {w} : new[x] = zones[x]
        /\ new[w] = [zones[w] EXCEPT !.stage = "granted"]
    BY <1>2, Zenon DEF RZonesInv
  <1>4. /\ DOMAIN new[w] = RFields /\ new[w].stage = "granted"
        /\ \A f \in RFields \ {"stage"} : new[w][f] = zones[w][f]
    BY <1>2, <1>3, Zenon DEF RZonesInv, RZoneInv, RZoneType, RFields
  <1> HIDE DEF new, m
  <1>5. RZoneInv(w, zones[w])
    BY <1>2, Zenon DEF RZonesInv
  <1>6. RZoneInv(w, new[w])
    <2>1. RZoneType(w, new[w])
      BY <1>4, <1>5 DEF RZoneInv, RZoneType, RFields, RFlags, RStages
    <2>2. RZoneRule(w, new[w]) /\ RAwake(new[w])
      BY <1>2, <1>4, <1>5, Zenon DEF RZoneInv, RZoneRule, RAwake, RDone, RFields
    <2> QED
      BY <2>1, <2>2, Zenon DEF RZoneInv
  <1>7. RZonesInv(new)
    BY <1>3, <1>6, Zenon DEF RZonesInv
  <1>8. /\ Unlink(waiting, w) \in Seq(RZones) /\ IsInjective(Unlink(waiting, w))
        /\ Range(Unlink(waiting, w)) = Range(waiting) \ {w}
    BY <1>2, UnlinkFacts, Zenon DEF RLists
  <1>9. RWithin(new, progress \cup {w})
    <2>1. new[w].exiting = zones[w].exiting /\ new[w].curr = zones[w].curr
      BY <1>4, Zenon DEF RFields
    <2>2. \A x \in progress \ {w} : new[x] = zones[x]
      BY <1>3, Zenon DEF RLists
    <2>3. w \in progress => zones[w].exiting
      BY <1>2, <1>5, Zenon DEF RLists, RBusy, RZoneInv, RZoneRule
    <2> QED
      BY <2>1, <2>2, <2>3, QuotaGrows, Zenon DEF RLists
  <1>10. RLists(new, Unlink(waiting, w), progress \cup {w})
    <2>1. progress \cup {w} \subseteq RZones /\ IsFiniteSet(progress \cup {w})
      BY <1>2, FS_AddElement, Zenon DEF RLists
    <2>2. ASSUME NEW x \in RZones
          PROVE  /\ new[x].stage = "waiting" <=> x \in Range(Unlink(waiting, w))
                 /\ ~new[x].shut => (x \in progress \cup {w} <=> RBusy(new[x]))
      BY <1>3, <1>4, <1>8, Zenon DEF RLists, RBusy
    <2> QED
      BY <1>8, <1>9, <2>1, <2>2, Zenon DEF RLists
  <1> QED
    BY <1>1, <1>7, <1>10, Zenon DEF m

\* zmgr_resume_xfrs: afterwards a zone waits only while a transfer is in progress.
LEMMA ResumeKeeps ==
  ASSUME NEW zones, RZonesInv(zones), NEW waiting, NEW progress,
         RLists(zones, waiting, progress)
  PROVE  LET m == ResumeXfrs(zones, waiting, progress)
         IN  /\ RZonesInv(m.zones) /\ RLists(m.zones, m.waiting, m.progress)
             /\ m.waiting # <<>> => m.progress # {}
  <1> DEFINE able == {i \in 1..Len(waiting) : HasQuota(zones, progress, waiting[i])}
             m == ResumeXfrs(zones, waiting, progress)
  <1>1. waiting \in Seq(RZones) /\ Len(waiting) \in Nat /\ DOMAIN waiting = 1..Len(waiting)
    BY LenProperties, Zenon DEF RLists
  <1>2. CASE able = {}
    <2>1. m = [zones |-> zones, waiting |-> waiting, progress |-> progress]
      BY <1>2, Zenon DEF ResumeXfrs
    <2>2. ASSUME waiting # <<>> PROVE progress # {}
      <3>1. 1 \in 1..Len(waiting)
        BY <1>1, <2>2
      <3>2. ~HasQuota(zones, progress, waiting[1])
        BY <1>2, <3>1, Zenon
      <3>3. waiting[1] \in RZones /\ waiting[1] \in Range(waiting)
        BY <1>1, <3>1 DEF Range
      <3>4. zones[waiting[1]].stage = "waiting"
        BY <3>3, Zenon DEF RLists
      <3> QED
        BY <3>2, <3>3, <3>4, RefusedMeansBusy, Zenon
    <2> QED
      BY <2>1, <2>2
  <1>3. CASE able # {}
    <2> DEFINE w == waiting[Min(able)]
    <2>1. Min(able) \in able
      <3>1. able \subseteq Nat
        BY <1>1
      <3>2. \E i \in able : \A j \in able : i <= j
        BY <1>3, <3>1, NatMinimum, Zenon DEF HasLeast
      <3> QED
        BY <3>2, Zenon DEF Min
    <2>2. w \in Range(waiting) /\ HasQuota(zones, progress, w)
      BY <1>1, <2>1, Zenon DEF Range
    <2>3. m = StartXfrin(zones, waiting, progress, w)
      BY <1>3, Zenon DEF ResumeXfrs
    <2> HIDE DEF w, able, m
    <2>4. RZonesInv(m.zones) /\ RLists(m.zones, m.waiting, m.progress) /\ m.progress # {}
      BY <2>2, <2>3, StartKeeps, Zenon
    <2> QED
      BY <2>4, Zenon DEF m
  <1> QED
    BY <1>2, <1>3, Zenon

\* A change that the lists do not see.
LEMMA BecomesKeeps ==
  ASSUME RInv, NEW z \in RZones, RBecomesKept(z)
  PROVE  /\ RZonesInv(rz)' /\ RLists(rz, rWaiting, rProgress)'
         /\ (rWaiting # <<>> => rProgress # {})'
  <1>1. PICK s : RBecomes(z, s) /\ RMoves(z, rz[z], s)
    BY Zenon DEF RBecomesKept
  <1>2. /\ DOMAIN rz' = RZones /\ rz'[z] = s
        /\ \A x \in RZones \ {z} : rz'[x] = rz[x]
        /\ rWaiting' = rWaiting /\ rProgress' = rProgress
    BY <1>1, Zenon DEF RBecomes, RInv, RZonesInv
  <1>3. RZonesInv(rz')
    BY <1>1, <1>2, Zenon DEF RInv, RZonesInv, RMoves
  <1>4. /\ RLive(rz', rProgress) \subseteq RLive(rz, rProgress)
        /\ \A x \in RLive(rz', rProgress) : rz'[x].curr = rz[x].curr
    <2> SUFFICES ASSUME NEW x \in RLive(rz', rProgress)
                 PROVE  x \in RLive(rz, rProgress) /\ rz'[x].curr = rz[x].curr
      BY Zenon
    <2>1. x \in rProgress /\ x \in RZones /\ ~rz'[x].exiting /\ ~rz'[x].leaving
      BY Zenon DEF RLive, RInv, RLists
    <2>2. CASE x # z
      BY <1>2, <2>1, <2>2, Zenon DEF RLive
    <2>3. CASE x = z
      <3>1. ~s.shut
        BY <1>1, <1>2, <2>1, <2>3, Zenon DEF RMoves, RZoneInv, RZoneRule
      <3>2. RBusy(s)
        BY <1>1, <2>1, <2>3, <3>1, Zenon DEF RMoves, RSame, RInv, RLists
      <3> QED
        BY <1>1, <1>2, <2>1, <2>3, <3>2, Zenon DEF RMoves, RSame, RLive
    <2> QED
      BY <2>2, <2>3, Zenon
  <1>5. RWithin(rz', rProgress)
    BY <1>4, QuotaShrinks DEF RInv, RLists
  <1>6. ASSUME NEW x \in RZones
        PROVE  /\ rz'[x].stage = "waiting" <=> x \in Range(rWaiting)
               /\ ~rz'[x].shut => (x \in rProgress <=> RBusy(rz'[x]))
    <2>1. /\ rz[x].stage = "waiting" <=> x \in Range(rWaiting)
          /\ ~rz[x].shut => (x \in rProgress <=> RBusy(rz[x]))
      BY Zenon DEF RInv, RLists
    <2>2. CASE x = z
      BY <1>1, <1>2, <2>1, <2>2, Zenon DEF RMoves, RSame
    <2>3. CASE x # z
      BY <1>2, <2>1, <2>3, Zenon
    <2> QED
      BY <2>2, <2>3, Zenon
  <1>7. RLists(rz', rWaiting', rProgress')
    BY <1>2, <1>5, <1>6, Zenon DEF RInv, RLists
  <1> QED
    BY <1>2, <1>3, <1>7, Zenon DEF RInv

\* zone_xfrin queued: a zone joins the list of those that wait, and starts at once
\* when it has quota.
LEMMA QueueKeeps ==
  ASSUME RInv, NEW z \in RZones, RQueuedKept(z)
  PROVE  /\ RZonesInv(rz)' /\ RLists(rz, rWaiting, rProgress)'
         /\ (rWaiting # <<>> => rProgress # {})'
  <1>1. PICK s : QueueXfrin(z, s) /\ RQueues(z, rz[z], s)
    BY Zenon DEF RQueuedKept
  <1> DEFINE t == [s EXCEPT !.stage = "waiting"]
             zones == [rz EXCEPT ![z] = t]
             queue == Append(rWaiting, z)
  <1>2. RManaged(IF HasQuota(zones, rProgress, z)
                 THEN StartXfrin(zones, queue, rProgress, z)
                 ELSE [zones |-> zones, waiting |-> queue, progress |-> rProgress])
    BY <1>1, Zenon DEF QueueXfrin
  <1>3. /\ RZoneInv(z, t) /\ t.stage = "waiting" /\ t.shut = rz[z].shut
        /\ t.exiting = rz[z].exiting /\ ~RBusy(rz[z]) /\ rz[z].stage # "waiting"
    BY <1>1, Zenon DEF RQueues, RFields
  <1>4. ~RBusy(t)
    BY <1>3, Zenon DEF RBusy, RZoneInv, RZoneRule
  <1> HIDE DEF t
  <1>5. /\ DOMAIN zones = RZones /\ zones[z] = t
        /\ \A x \in RZones \ {z} : zones[x] = rz[x]
    BY Zenon DEF RInv, RZonesInv
  <1> HIDE DEF zones
  <1>6. RZonesInv(zones)
    BY <1>3, <1>5, Zenon DEF RInv, RZonesInv
  <1>7. z \notin Range(rWaiting) /\ rWaiting \in Seq(RZones) /\ IsInjective(rWaiting)
    BY <1>3, Zenon DEF RInv, RLists
  <1>8. /\ queue \in Seq(RZones) /\ queue # <<>> /\ IsInjective(queue)
        /\ Range(queue) = Range(rWaiting) \cup {z}
    <2>1. /\ queue \in Seq(RZones) /\ queue # <<>> /\ Len(rWaiting) \in Nat
          /\ DOMAIN queue = 1..Len(rWaiting) + 1 /\ DOMAIN rWaiting = 1..Len(rWaiting)
          /\ queue[Len(rWaiting) + 1] = z
          /\ \A i \in 1..Len(rWaiting) : queue[i] = rWaiting[i]
      BY <1>7, AppendProperties, LenProperties
    <2> HIDE DEF queue
    <2>2. ASSUME NEW i \in DOMAIN queue, NEW j \in DOMAIN queue, queue[i] = queue[j]
          PROVE  i = j
      <3>1. \A k \in 1..Len(rWaiting) : queue[k] # z
        BY <1>7, <2>1, Zenon DEF Range
      <3>2. i \in 1..Len(rWaiting) \/ i = Len(rWaiting) + 1
        BY <2>1
      <3>3. j \in 1..Len(rWaiting) \/ j = Len(rWaiting) + 1
        BY <2>1
      <3> QED
        BY <1>7, <2>1, <2>2, <3>1, <3>2, <3>3, SMTT(30) DEF IsInjective
    <2>3. Range(queue) = Range(rWaiting) \cup {z}
      <3>1. ASSUME NEW x \in Range(queue) PROVE x \in Range(rWaiting) \cup {z}
        BY <2>1 DEF Range
      <3>2. Len(rWaiting) + 1 \in DOMAIN queue /\ 1..Len(rWaiting) \subseteq DOMAIN queue
        BY <2>1
      <3>3. ASSUME NEW x \in Range(rWaiting) \cup {z} PROVE x \in Range(queue)
        BY <2>1, <3>2, Zenon DEF Range
      <3> QED
        BY <3>1, <3>3, Zenon
    <2> QED
      BY <2>1, <2>2, <2>3, Zenon DEF IsInjective
  <1> HIDE DEF queue
  <1>9. RLists(zones, queue, rProgress)
    <2>1. RLive(zones, rProgress) \subseteq RLive(rz, rProgress) \ {z}
      <3> SUFFICES ASSUME NEW x \in RLive(zones, rProgress)
                   PROVE  x \in RLive(rz, rProgress) /\ x # z
        BY Zenon
      <3>1. x \in RZones /\ x \in rProgress /\ ~zones[x].exiting /\ ~zones[x].leaving
        BY Zenon DEF RInv, RLists, RLive
      <3>2. x # z
        BY <1>3, <1>5, <3>1, Zenon DEF RInv, RLists, RZonesInv, RZoneInv, RZoneRule
      <3> QED
        BY <1>5, <3>1, <3>2, Zenon DEF RLive
    <2>2. \A x \in RLive(zones, rProgress) : zones[x].curr = rz[x].curr
      BY <1>5, <2>1, Zenon DEF RLive, RInv, RLists
    <2>3. RWithin(zones, rProgress)
      <3>1. RLive(zones, rProgress) \subseteq RLive(rz, rProgress)
        BY <2>1, Zenon
      <3> QED
        BY <2>2, <3>1, QuotaShrinks, Zenon DEF RInv, RLists
    <2>4. ASSUME NEW x \in RZones
          PROVE  /\ zones[x].stage = "waiting" <=> x \in Range(queue)
                 /\ ~zones[x].shut => (x \in rProgress <=> RBusy(zones[x]))
      <3>1. /\ rz[x].stage = "waiting" <=> x \in Range(rWaiting)
            /\ ~rz[x].shut => (x \in rProgress <=> RBusy(rz[x]))
        BY Zenon DEF RInv, RLists
      <3>2. CASE x = z
        BY <1>3, <1>4, <1>5, <1>8, <3>1, <3>2, Zenon
      <3>3. CASE x # z
        BY <1>5, <1>8, <3>1, <3>3, Zenon
      <3> QED
        BY <3>2, <3>3, Zenon
    <2> QED
      BY <1>8, <2>3, <2>4, Zenon DEF RInv, RLists
  <1>10. CASE HasQuota(zones, rProgress, z)
    <2> DEFINE m == StartXfrin(zones, queue, rProgress, z)
    <2>1. RZonesInv(m.zones) /\ RLists(m.zones, m.waiting, m.progress) /\ m.progress # {}
      BY <1>6, <1>8, <1>9, <1>10, StartKeeps, Zenon
    <2>2. rz' = m.zones /\ rWaiting' = m.waiting /\ rProgress' = m.progress
      BY <1>2, <1>10, Zenon DEF RManaged
    <2> HIDE DEF m
    <2> QED
      BY <2>1, <2>2, Zenon
  <1>11. CASE ~HasQuota(zones, rProgress, z)
    <2>1. rz' = zones /\ rWaiting' = queue /\ rProgress' = rProgress
      BY <1>2, <1>11, Zenon DEF RManaged
    <2>2. rProgress # {}
      <3>1. zones[z].stage = "waiting"
        BY <1>3, <1>5, Zenon
      <3> QED
        BY <1>6, <1>11, <3>1, RefusedMeansBusy, Zenon
    <2> QED
      BY <1>6, <1>9, <2>1, <2>2, Zenon
  <1> QED
    BY <1>10, <1>11, Zenon

\* m and n are the same but for the record of zone z, which is r in n.
RApartFrom(z, r, m, n) ==
    /\ n.waiting = m.waiting /\ n.progress = m.progress
    /\ n.zones = [m.zones EXCEPT ![z] = r]

\* The record of a zone on neither list makes no difference to zmgr_resume_xfrs.
LEMMA ResumeCommutes ==
  ASSUME NEW zones, DOMAIN zones = RZones, NEW waiting \in Seq(RZones), NEW progress,
         progress \subseteq RZones, NEW z \in RZones, z \notin Range(waiting),
         z \notin progress, NEW r, NEW new, new = [zones EXCEPT ![z] = r]
  PROVE  RApartFrom(z, r, ResumeXfrs(zones, waiting, progress),
                          ResumeXfrs(new, waiting, progress))
  <1> DEFINE Able(f) == {i \in 1..Len(waiting) : HasQuota(f, progress, waiting[i])}
             w == waiting[Min(Able(zones))]
  <1>1. Len(waiting) \in Nat /\ \A i \in 1..Len(waiting) :
           waiting[i] \in RZones /\ waiting[i] \in Range(waiting)
    BY LenProperties, ElementOfSeq, Zenon DEF Range
  <1>2. \A x \in RZones \ {z} : new[x] = zones[x]
    BY Zenon
  <1>3. Able(new) = Able(zones)
    <2>1. \A s : RBusyWith(new, s, progress) = RBusyWith(zones, s, progress)
      BY <1>2, Zenon DEF RBusyWith
    <2>2. \A i \in 1..Len(waiting) : new[waiting[i]] = zones[waiting[i]]
      BY <1>1, <1>2
    <2> QED
      BY <2>1, <2>2, Zenon DEF HasQuota
  <1>4. CASE Able(zones) = {}
    BY <1>3, <1>4, Zenon DEF ResumeXfrs, RApartFrom
  <1>5. CASE Able(zones) # {}
    <2>1. Min(Able(zones)) \in Able(zones)
      <3>1. Able(zones) \subseteq Nat
        BY <1>1
      <3>2. \E i \in Able(zones) : \A j \in Able(zones) : i <= j
        BY <1>5, <3>1, NatMinimum, Zenon DEF HasLeast
      <3> QED
        BY <3>2, Zenon DEF Min
    <2>2. w \in RZones /\ w # z
      BY <1>1, <2>1, Zenon
    <2>3. /\ ResumeXfrs(zones, waiting, progress) = StartXfrin(zones, waiting, progress, w)
          /\ ResumeXfrs(new, waiting, progress) = StartXfrin(new, waiting, progress, w)
      BY <1>3, <1>5, Zenon DEF ResumeXfrs
    <2> HIDE DEF w
    <2>4. [new EXCEPT ![w].stage = "granted"] =
             [[zones EXCEPT ![w].stage = "granted"] EXCEPT ![z] = r]
      BY <2>2, Zenon
    <2>5. ASSUME NEW f
          PROVE  /\ StartXfrin(f, waiting, progress, w).zones = [f EXCEPT ![w].stage = "granted"]
                 /\ StartXfrin(f, waiting, progress, w).waiting = Unlink(waiting, w)
                 /\ StartXfrin(f, waiting, progress, w).progress = progress \cup {w}
      BY Zenon DEF StartXfrin
    <2> QED
      BY <2>3, <2>4, <2>5, ZenonT(30) DEF RApartFrom
  <1> QED
    BY <1>4, <1>5, Zenon

\* zone_xfrdone's second half
LEMMA LeaveKeeps ==
  ASSUME RInv, NEW z \in RZones, RLeave(z)
  PROVE  /\ RZonesInv(rz)' /\ RLists(rz, rWaiting, rProgress)'
         /\ (rWaiting # <<>> => rProgress # {})'
  <1> DEFINE r == rz[z]
             left == [r EXCEPT !.again = FALSE, !.leaving = FALSE, !.down = "none"]
             next == IF r.again /\ ~r.exiting THEN QueueSoaQuery(left) ELSE left
             zones == [rz EXCEPT ![z] = next]
             rest == rProgress \ {z}
  <1>1. RZoneInv(z, r) /\ r.leaving /\ DOMAIN r = RFields
    BY Zenon DEF RInv, RZonesInv, RZoneInv, RZoneType, RLeave
  <1>2. /\ DOMAIN next = RFields /\ next.again = FALSE /\ next.leaving = FALSE
        /\ next.stage \in {"idle", "queued"} /\ (next.stage = "queued" => r.refresh)
        /\ (next.stage = "idle" => r.stage = "idle" /\ (r.exiting \/ ~r.again))
        /\ \A f \in RFields \ {"again", "leaving", "down", "stage"} : next[f] = r[f]
    <2>1. /\ DOMAIN left = RFields /\ left.again = FALSE /\ left.leaving = FALSE
          /\ \A f \in RFields \ {"again", "leaving", "down"} : left[f] = r[f]
      BY <1>1, Zenon DEF RFields
    <2>2. r.stage \in {"idle", "queued"} /\ (r.stage = "queued" \/ r.again => r.refresh)
      BY <1>1, Zenon DEF RZoneInv, RZoneRule
    <2> HIDE DEF left
    <2>3. CASE r.again /\ ~r.exiting
      <3>1. next = [left EXCEPT !.stage = "queued"]
        BY <2>1, <2>3, Zenon DEF QueueSoaQuery, RFields
      <3> QED
        BY <2>1, <2>2, <2>3, <3>1, Zenon DEF RFields
    <2>4. CASE ~(r.again /\ ~r.exiting)
      BY <2>1, <2>2, <2>4, Zenon DEF RFields
    <2> QED
      BY <2>3, <2>4, Zenon
  <1> HIDE DEF next
  <1>3. RZoneInv(z, next) /\ ~RBusy(next)
    <2>1. RZoneType(z, next)
      <3>1. ASSUME NEW f \in RFlags PROVE next[f] \in BOOLEAN
        <4>1. r[f] \in BOOLEAN /\ f \in RFields \ {"down", "stage"}
          BY <1>1, Zenon DEF RZoneInv, RZoneType, RFlags, RFields
        <4> QED
          BY <1>2, <4>1, Zenon
      <3>2. next.curr = r.curr /\ next.serial = r.serial /\ next.base = r.base
        BY <1>2, Zenon DEF RFields
      <3> QED
        BY <1>1, <1>2, <3>1, <3>2, Zenon DEF RZoneInv, RZoneType, RStages
    <2>2. RZoneRule(z, next) /\ RAwake(next)
      BY <1>1, <1>2, Zenon DEF RZoneInv, RZoneRule, RAwake, RDone, RFields
    <2> QED
      BY <1>2, <2>1, <2>2, Zenon DEF RZoneInv, RBusy
  <1>4. /\ DOMAIN zones = RZones /\ zones[z] = next
        /\ \A x \in RZones \ {z} : zones[x] = rz[x]
    BY Zenon DEF RInv, RZonesInv
  <1>5. RZonesInv(zones)
    <2> HIDE DEF zones
    <2> QED
      BY <1>3, <1>4, Zenon DEF RInv, RZonesInv
  <1>6. z \notin Range(rWaiting)
    BY <1>1, Zenon DEF RInv, RLists, RZoneInv, RZoneRule
  <1>7. RLists(zones, rWaiting, rest)
    <2> HIDE DEF zones
    <2>1. rest \subseteq RZones /\ IsFiniteSet(rest)
      BY FS_RemoveElement, Zenon DEF RInv, RLists
    <2>2. RWithin(zones, rest)
      <3>1. \A x \in rest : zones[x] = rz[x]
        BY <1>4, <2>1, Zenon
      <3>2. /\ RLive(zones, rest) \subseteq RLive(rz, rProgress)
            /\ \A x \in RLive(zones, rest) : zones[x].curr = rz[x].curr
        BY <3>1, Zenon DEF RLive
      <3> HIDE DEF rest
      <3> QED
        BY <3>2, QuotaShrinks DEF RInv, RLists
    <2>3. ASSUME NEW x \in RZones
          PROVE  /\ zones[x].stage = "waiting" <=> x \in Range(rWaiting)
                 /\ ~zones[x].shut => (x \in rest <=> RBusy(zones[x]))
      <3>1. CASE x = z
        BY <1>2, <1>3, <1>4, <1>6, <3>1, Zenon
      <3>2. CASE x # z
        BY <1>4, <3>2, Zenon DEF RInv, RLists
      <3> QED
        BY <3>1, <3>2, Zenon
    <2> QED
      BY <2>1, <2>2, <2>3, Zenon DEF RInv, RLists
  <1>8. CASE z \in rProgress
    <2> DEFINE m == ResumeXfrs(rz, rWaiting, rest)
               n == ResumeXfrs(zones, rWaiting, rest)
    <2>1. /\ rz' = [m EXCEPT !.zones[z] = next].zones
          /\ rWaiting' = [m EXCEPT !.zones[z] = next].waiting
          /\ rProgress' = [m EXCEPT !.zones[z] = next].progress
      BY <1>8, Zenon DEF RLeave, RManaged, next
    <2>2. DOMAIN m = {"zones", "waiting", "progress"}
      BY Zenon DEF ResumeXfrs, StartXfrin
    <2>3. /\ rz' = [m.zones EXCEPT ![z] = next] /\ rWaiting' = m.waiting
          /\ rProgress' = m.progress
      <3> HIDE DEF m, next
      <3>1. /\ [m EXCEPT !.zones[z] = next].zones = [m.zones EXCEPT ![z] = next]
            /\ [m EXCEPT !.zones[z] = next].waiting = m.waiting
            /\ [m EXCEPT !.zones[z] = next].progress = m.progress
        BY <2>2, Zenon
      <3> QED
        BY <2>1, <3>1, Zenon
    <2>4. RApartFrom(z, next, m, n)
      <3>1. /\ DOMAIN rz = RZones /\ rWaiting \in Seq(RZones) /\ rest \subseteq RZones
            /\ z \notin rest /\ zones = [rz EXCEPT ![z] = next]
        BY Zenon DEF RInv, RZonesInv, RLists
      <3> HIDE DEF rest, zones
      <3> QED
        BY <1>6, <3>1, ResumeCommutes, Zenon
    <2>5. /\ RZonesInv(n.zones) /\ RLists(n.zones, n.waiting, n.progress)
          /\ n.waiting # <<>> => n.progress # {}
      BY <1>5, <1>7, ResumeKeeps, Zenon
    <2> HIDE DEF m, n
    <2> QED
      BY <2>3, <2>4, <2>5, Zenon DEF RApartFrom
  <1>9. CASE z \notin rProgress
    <2>1. rz' = zones /\ rWaiting' = rWaiting /\ rProgress' = rProgress /\ rest = rProgress
      BY <1>9, Zenon DEF RLeave, RManaged, next
    <2> QED
      BY <1>5, <1>7, <2>1, Zenon DEF RInv
  <1> QED
    BY <1>8, <1>9, Zenon

\* zone_shutdown
LEMMA ShutdownKeeps ==
  ASSUME RInv, NEW z \in RZones, RShutdown(z)
  PROVE  /\ RZonesInv(rz)' /\ RLists(rz, rWaiting, rProgress)'
         /\ (rWaiting # <<>> => rProgress # {})'
  <1> DEFINE r == rz[z]
             zones == [rz EXCEPT ![z].shut = TRUE, ![z].timer = FALSE,
                                 ![z].stage = IF @ = "waiting" THEN "idle" ELSE @]
             queue == Unlink(rWaiting, z)
             rest == rProgress \ {z}
  <1>1. RZoneInv(z, r) /\ r.exiting /\ ~r.leaving /\ DOMAIN r = RFields
    BY Zenon DEF RInv, RZonesInv, RZoneInv, RZoneType, RShutdown, RLoopFree
  <1>2. DOMAIN zones = RZones /\ \A x \in RZones \ {z} : zones[x] = rz[x]
    BY Zenon DEF RInv, RZonesInv
  <1>3. /\ DOMAIN zones[z] = RFields /\ zones[z].shut = TRUE /\ zones[z].timer = FALSE
        /\ zones[z].stage = IF r.stage = "waiting" THEN "idle" ELSE r.stage
        /\ \A f \in RFields \ {"shut", "timer", "stage"} : zones[z][f] = r[f]
    BY <1>1, Zenon DEF RInv, RZonesInv, RFields
  <1> HIDE DEF zones
  <1>4. RZoneInv(z, zones[z]) /\ zones[z].exiting /\ zones[z].stage # "waiting"
    <2>1. ASSUME NEW f \in RFlags PROVE zones[z][f] \in BOOLEAN
      <3>1. r[f] \in BOOLEAN /\ f \in RFields \ {"stage"}
        BY <1>1, Zenon DEF RZoneInv, RZoneType, RFlags, RFields
      <3> QED
        BY <1>3, <3>1, Zenon
    <2>2. RZoneType(z, zones[z])
      BY <1>1, <1>3, <2>1, Zenon DEF RZoneInv, RZoneType, RFields, RStages
    <2>3. RZoneRule(z, zones[z]) /\ RAwake(zones[z])
      BY <1>1, <1>3 DEF RZoneInv, RZoneRule, RAwake, RDone, RFields
    <2>4. zones[z].exiting /\ zones[z].stage # "waiting"
      BY <1>1, <1>3, Zenon DEF RFields
    <2> QED
      BY <2>2, <2>3, <2>4, Zenon DEF RZoneInv
  <1>5. RZonesInv(zones)
    BY <1>2, <1>4, Zenon DEF RInv, RZonesInv
  <1>6. /\ queue \in Seq(RZones) /\ IsInjective(queue)
        /\ Range(queue) = Range(rWaiting) \ {z}
    BY UnlinkFacts, Zenon DEF RInv, RLists
  <1>7. ASSUME NEW progress, progress \in {rProgress, rest}
        PROVE  RLists(zones, queue, progress)
    <2>1. progress \subseteq RZones /\ IsFiniteSet(progress) /\ progress \subseteq rProgress
      BY <1>7, FS_RemoveElement DEF RInv, RLists
    <2>2. RWithin(zones, progress)
      <3>1. /\ RLive(zones, progress) \subseteq RLive(rz, rProgress)
            /\ \A x \in RLive(zones, progress) : zones[x].curr = rz[x].curr
        BY <1>2, <1>4, <2>1, Zenon DEF RLive
      <3> QED
        BY <3>1, QuotaShrinks, Zenon DEF RInv, RLists
    <2>3. ASSUME NEW x \in RZones
          PROVE  /\ zones[x].stage = "waiting" <=> x \in Range(queue)
                 /\ ~zones[x].shut => (x \in progress <=> RBusy(zones[x]))
      <3>1. CASE x = z
        BY <1>3, <1>4, <1>6, <3>1, Zenon
      <3>2. CASE x # z
        BY <1>2, <1>6, <1>7, <3>2, Zenon DEF RInv, RLists
      <3> QED
        BY <3>1, <3>2, Zenon
    <2> HIDE DEF queue
    <2> QED
      BY <1>6, <2>1, <2>2, <2>3, Zenon DEF RLists
  <1>8. CASE z \in rProgress
    <2> DEFINE m == ResumeXfrs(zones, queue, rest)
    <2>1. rz' = m.zones /\ rWaiting' = m.waiting /\ rProgress' = m.progress
      BY <1>8, Zenon DEF RShutdown, RManaged, zones
    <2>2. RLists(zones, queue, rest)
      BY <1>7, Zenon
    <2>3. /\ RZonesInv(m.zones) /\ RLists(m.zones, m.waiting, m.progress)
          /\ m.waiting # <<>> => m.progress # {}
      <3> HIDE DEF queue, rest
      <3> QED
        BY <1>5, <2>2, ResumeKeeps, Zenon
    <2> HIDE DEF m
    <2> QED
      BY <2>1, <2>3, Zenon
  <1>9. CASE z \notin rProgress
    <2>1. rz' = zones /\ rWaiting' = queue /\ rProgress' = rProgress
      BY <1>9, Zenon DEF RShutdown, RManaged, zones
    <2>2. queue # <<>> => rWaiting # <<>>
      <3>1. ASSUME rWaiting = <<>> PROVE queue = <<>>
        BY <3>1 DEF Unlink, Range
      <3> QED
        BY <3>1, Zenon
    <2> QED
      BY <1>5, <1>7, <2>1, <2>2, Zenon DEF RInv
  <1> QED
    BY <1>8, <1>9, Zenon

-----------------------------------------------------------------------------
(***************************************************************************)
(* The theorems.                                                           *)
(***************************************************************************)
LEMMA RefreshInitInv == RefreshInit => RInv
  <1> SUFFICES ASSUME RefreshInit PROVE RInv
    BY Zenon
  <1>1. DOMAIN rz = RZones /\ \A z \in RZones : \E p \in BOOLEAN : rz[z] = RNew(p)
    BY Zenon DEF RefreshInit
  <1>2. ASSUME NEW z \in RZones PROVE RZoneInv(z, rz[z])
    <2>1. PICK p \in BOOLEAN : rz[z] = RNew(p)
      BY <1>1, Zenon
    <2>2. Len(RPrimaries[z]) \in Nat \ {0}
      BY PrimariesExist, Zenon
    <2> QED
      BY <2>1, <2>2 DEF RNew, RZoneInv, RZoneType, RZoneRule, RAwake, RDone, RFields,
                        RFlags, RStages
  <1>3. RLists(rz, rWaiting, rProgress)
    <2>1. rWaiting = <<>> /\ rProgress = {}
      BY Zenon DEF RefreshInit
    <2>2. rWaiting \in Seq(RZones) /\ IsInjective(rWaiting) /\ Range(rWaiting) = {}
      BY <2>1 DEF IsInjective, Range
    <2>3. RLive(rz, rProgress) = {} /\ \A s : RBusyWith(rz, s, RLive(rz, rProgress)) = {}
      BY <2>1, Zenon DEF RLive, RBusyWith
    <2>4. RWithin(rz, rProgress)
      <3>1. 0 <= TransfersIn /\ \A s \in RServers : 0 <= TransfersPerNs[s]
        BY RefreshAssumption
      <3> QED
        BY <2>3, <3>1, FS_EmptySet, Zenon DEF RWithin
    <2>5. ASSUME NEW z \in RZones
          PROVE  rz[z].stage # "waiting" /\ ~RBusy(rz[z])
      BY <1>1 DEF RNew, RBusy
    <2> QED
      BY <2>1, <2>2, <2>4, <2>5, FS_EmptySet, Zenon DEF RLists
  <1>4. rSerial \in [RServers -> Nat] /\ rWaiting = <<>>
    BY Zenon DEF RefreshInit
  <1> QED
    BY <1>1, <1>2, <1>3, <1>4, Zenon DEF RInv, RZonesInv

\* Every step keeps the invariant.
LEMMA RefreshStepInv == RInv /\ [RefreshNext]_rvars => RInv'
  <1> SUFFICES ASSUME RInv, [RefreshNext]_rvars PROVE RInv'
    BY SMTT(30)
  <1>1. rSerial' \in [RServers -> Nat]
    <2>1. CASE rSerial' = rSerial
      BY <2>1, Zenon DEF RInv
    <2>2. CASE \E s \in RServers : RPublish(s)
      BY <2>2 DEF RInv, RPublish
    <2>3. ASSUME NEW z \in RZones, RZoneStep(z) PROVE rSerial' = rSerial
      BY <2>3, Zenon DEF RZoneStep, RLoadDone, RSetTimer, RTimeComes, RMaintain, RSoaQuery, RAnswer,
                  RCallback, RGotQuota, RXfrSucceeds, RXfrCanceled, RLeave, RShutdown
    <2>4. ASSUME NEW z \in RZones, RZoneFault(z) PROVE rSerial' = rSerial
      BY <2>4, Zenon DEF RZoneFault, RExpire, RForce, RSkipPrimary, RNoAnswer, RXfrFails
    <2>5. ASSUME NEW z \in RZones,
                 RNotifyRefresh(z) \/ RDetach(z) \/ \E s \in RServers : RNotify(z, s)
          PROVE  rSerial' = rSerial
      BY <2>5, Zenon DEF RNotifyRefresh, RDetach, RNotify
    <2>6. ASSUME NEW s \in RServers, RUnreachExpires(s) PROVE rSerial' = rSerial
      BY <2>6, Zenon DEF RUnreachExpires
    <2> QED
      BY <2>1, <2>2, <2>3, <2>4, <2>5, <2>6, Zenon DEF RefreshNext, rvars
  <1>2. CASE UNCHANGED <<rz, rWaiting, rProgress>>
    BY <1>1, <1>2, Zenon DEF RInv, RZonesInv, RLists, RWithin, RLive, RBusyWith
  <1>3. ASSUME NEW z \in RZones,
               \/ RZoneStep(z) \/ RZoneFault(z) \/ RNotifyRefresh(z) \/ RDetach(z)
               \/ \E s \in RServers : RNotify(z, s)
        PROVE  RInv'
    <2>1. RZoneInv(z, rz[z]) /\ rSerial \in [RServers -> Nat]
      BY Zenon DEF RInv, RZonesInv
    <2>2. CASE \/ RLoadDone(z) \/ RSetTimer(z) \/ RTimeComes(z) \/ RMaintain(z) \/ RExpire(z)
               \/ RNotifyRefresh(z) \/ RForce(z) \/ RDetach(z)
               \/ \E s \in RServers : RNotify(z, s)
      BY <1>1, <2>1, <2>2, StartSteps, BecomesKeeps, Zenon DEF RInv
    <2>3. CASE \/ RAnswer(z) \/ RNoAnswer(z) \/ RGotQuota(z)
               \/ RXfrSucceeds(z) \/ RXfrFails(z) \/ RXfrCanceled(z)
      BY <1>1, <2>1, <2>3, TransferSteps, NatMinimum, BecomesKeeps, SMTT(30) DEF RInv
    <2>4. CASE RSoaQuery(z) \/ RSkipPrimary(z)
      BY <1>1, <2>1, <2>4, QuerySteps, BecomesKeeps, QueueKeeps, SMTT(30) DEF RInv
    <2>5. CASE RCallback(z)
      BY <1>1, <2>1, <2>5, CallbackSteps, NatMinimum, BecomesKeeps, QueueKeeps, SMTT(30) DEF RInv
    <2>6. CASE RLeave(z)
      BY <1>1, <2>6, LeaveKeeps, Zenon DEF RInv
    <2>7. CASE RShutdown(z)
      BY <1>1, <2>7, ShutdownKeeps, Zenon DEF RInv
    <2> QED
      BY <1>3, <2>2, <2>3, <2>4, <2>5, <2>6, <2>7, Zenon DEF RZoneStep, RZoneFault
  <1> QED
    BY <1>2, <1>3, Zenon DEF RefreshNext, rvars, RPublish, RUnreachExpires

\* The invariant always holds.
LEMMA RefreshInvariant == RefreshSpec => []RInv
  BY RefreshInitInv, RefreshStepInv, PTL DEF RefreshSpec

\* However many zones share the manager, whatever primaries they have and whatever
\* fails: a zone waiting for quota has a transfer in progress that will look at the
\* list when it ends (zmgr_resume_xfrs), and a zone with nothing under way has its
\* timer set or about to be (zone_settimer).
THEOREM NoZoneIsForgotten == RefreshSpec => []NoZoneForgotten
  <1>1. RInv => NoZoneForgotten
    BY Zenon DEF RInv, RZonesInv, RZoneInv, RAwake, NoZoneForgotten, WaitersHaveWaker, NeverAsleep
  <1> QED
    BY <1>1, RefreshInvariant, PTL

\* Type correctness of the zones' records and of the manager's lists.
THEOREM RefreshTypeCorrect == RefreshSpec => []RefreshTypeOK
  <1>1. RInv => RefreshTypeOK
    BY Zenon DEF RInv, RZonesInv, RZoneInv, RLists, RefreshTypeOK
  <1> QED
    BY <1>1, RefreshInvariant, PTL

\* zmgr_start_xfrin_ifquota keeps transfers-in and transfers-per-ns for every
\* configuration: the addresses it counts are the ones the transfers use.
THEOREM TransferQuotaKept == RefreshSpec => []TransferQuota
  <1>1. RInv => TransferQuota
    BY Zenon DEF RInv, RLists, RWithin, RLive, TransferQuota
  <1> QED
    BY <1>1, RefreshInvariant, PTL

\* The INSISTs of zone.c on the manager's lists, on REFRESH at the end of a transfer
\* and on the current address hold in every configuration.
THEOREM RefreshAssertsHold == RefreshSpec => []RefreshAsserts
  <1>1. RInv => RefreshAsserts
    <2> SUFFICES ASSUME RInv PROVE RefreshAsserts
      BY Zenon
    <2>1. IsInjective(rWaiting)
      BY Zenon DEF RInv, RLists
    <2>2. ASSUME NEW z \in RZones
          PROVE  /\ rz[z].stage = "waiting" <=> z \in Range(rWaiting)
                 /\ ~rz[z].shut => (z \in rProgress <=> RBusy(rz[z]))
                 /\ RZoneRule(z, rz[z])
      BY Zenon DEF RInv, RLists, RZonesInv, RZoneInv
    <2> QED
      BY <2>1, <2>2, Zenon DEF RefreshAsserts, RBusy, RZoneRule
  <1> QED
    BY <1>1, RefreshInvariant, PTL

\* No step of any zone replaces its contents by an older version, but for a full
\* transfer or one that was forced: zone_expire, a late answer and a transfer that
\* was overtaken included.
THEOREM NoZoneRegresses == RefreshSpec => NoRegress
  <1>1. RInv /\ [RefreshNext]_rvars
          => [\A z \in RZones : rz'[z].serial < rz[z].serial /\ rz'[z].serial # 0
                 => rz[z].force \/ rz[z].type = "axfr"]_rvars
    BY RefreshStepForward, NatMinimum, Zenon DEF RForward, RInv
  <1> QED
    BY <1>1, RefreshInvariant, PTL DEF RefreshSpec, NoRegress
=============================================================================
