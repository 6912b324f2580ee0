---------------------------- MODULE FetchAccounts ---------------------------
(***************************************************************************)
(* What every step of Fetch needs of the invariant, from the facts on      *)
(* counting that FetchProofs proves (FcCounting): each law of FetchLaws    *)
(* has its lemma here.                                                     *)
(*                                                                         *)
(* Most steps change one context, one handler and one fetch.  ChangeStep   *)
(* shows once what such a step keeps, from the balance of that context's   *)
(* account alone, and DetachStep does for those that drop references.      *)
(***************************************************************************)
EXTENDS FetchLaws, TLAPS

-----------------------------------------------------------------------------
(* Jobs in a queue *)

\* A job at the end of a queue.
LEMMA OccursAppend ==
  ASSUME FcCounting, NEW T, NEW q \in Seq(T), NEW x \in T, NEW e
  PROVE  FcOccurs(Append(q, x), e) = FcOccurs(q, e) + (IF x = e THEN 1 ELSE 0)
  <1>1. Append(q, x) = q \o <<x>> /\ <<x>> \in Seq(T)
    OBVIOUS
  <1>2. FcOccurs(q \o <<x>>, e) = FcOccurs(q, e) + FcOccurs(<<x>>, e)
    BY <1>1, Zenon DEF FcCounting, OccursConcatLaw
  <1> QED
    BY <1>1, <1>2, Zenon DEF FcCounting, OccursOneLaw

\* The first job is taken from a queue.
LEMMA OccursTail ==
  ASSUME FcCounting, NEW T, NEW q \in Seq(T), q # <<>>, NEW e
  PROVE  FcOccurs(q, e) = FcOccurs(Tail(q), e) + (IF Head(q) = e THEN 1 ELSE 0)
  <1>1. q = <<Head(q)>> \o Tail(q) /\ <<Head(q)>> \in Seq(T) /\ Tail(q) \in Seq(T)
    OBVIOUS
  <1>2. FcOccurs(<<Head(q)>> \o Tail(q), e) = FcOccurs(<<Head(q)>>, e) + FcOccurs(Tail(q), e)
    BY <1>1, Zenon DEF FcCounting, OccursConcatLaw
  <1>3. FcOccurs(Tail(q), e) \in Nat
    BY <1>1, Zenon DEF FcCounting, OccursNatLaw
  <1>4. FcOccurs(<<Head(q)>>, e) = IF Head(q) = e THEN 1 ELSE 0
    BY Zenon DEF FcCounting, OccursOneLaw
  <1>5. FcOccurs(q, e) = FcOccurs(<<Head(q)>>, e) + FcOccurs(Tail(q), e)
    BY <1>1, <1>2, Zenon
  <1> QED
    BY <1>3, <1>4, <1>5

-----------------------------------------------------------------------------
(* What refers to a context *)

\* A fetch has a loop, a key and a zone.
LEMMA LoopOf ==
  ASSUME NEW f \in FcFetches
  PROVE  FcLoopOf(f) \in FcLoops /\ FcKey(f) \in FcKeys /\ FcDomain[FcKey(f)] \in FcDomains
  BY FetchAssumption, Zenon DEF FcLoopOf, FcKey, FcKeys, FcDomains, Range

\* A handler drops a natural number of references.
LEMMA DropNat ==
  ASSUME NEW L \in [FcLoops -> FcPlaces], NEW l \in FcLoops
  PROVE  L[l].drop \in Nat
  <1>1. L[l] \in FcPlaces
    BY Zenon
  <1>2. L[l].drop \in 0 .. 2
    BY <1>1, Zenon DEF FcPlaces
  <1> QED
    BY <1>2

\* What a fetch and a handler refer to a context with are numbers.
LEMMA PartsNat ==
  ASSUME FetchTypeOK, NEW l \in FcLoops, NEW f, NEW x
  PROVE  FcUse(f, x) \in Nat /\ FcLocks(l, x) \in Nat /\ FcDrops(l, x) \in Nat
  BY DropNat, Zenon DEF FcUse, FcLocks, FcDrops, FetchTypeOK

\* So is how often a callback is posted.
LEMMA PostedNat ==
  ASSUME FcCounting, FetchTypeOK, NEW job, NEW x \in FcFetches
  PROVE  FcPosted(job, x) \in Nat
  <1>1. fcJobs[FcLoopOf(x)] \in Seq([job : {"start", "shutdown", "call"}, of : FcFetches])
    BY LoopOf, Zenon DEF FetchTypeOK
  <1> QED
    BY <1>1, Zenon DEF FcPosted, FcCounting, OccursNatLaw

\* The references to a context are numbers, and not 0 if something refers to it.
LEMMA OwedParts ==
  ASSUME FcCounting, FetchTypeOK, NEW x \in FcFetches
  PROVE  /\ Cardinality(FcUsers(x)) \in Nat /\ Cardinality(FcLockers(x)) \in Nat
         /\ FcPosted("start", x) \in Nat /\ FcPosted("shutdown", x) \in Nat
         /\ FcDropped(x) \in Nat
         /\ \A f \in FcFetches : FcUse(f, x) = 1 => Cardinality(FcUsers(x)) >= 1
         /\ \A l \in FcLoops : FcLocks(l, x) = 1 => Cardinality(FcLockers(x)) >= 1
  <1>1. FcUsers(x) \subseteq FcFetches /\ FcLockers(x) \subseteq FcLoops
    BY Zenon DEF FcUsers, FcLockers
  <1>2. IsFiniteSet(FcUsers(x)) /\ IsFiniteSet(FcLockers(x))
    BY <1>1, FetchAssumption, Zenon DEF FcCounting, FiniteLaw
  <1>3. /\ Cardinality(FcUsers(x)) \in Nat /\ Cardinality(FcLockers(x)) \in Nat
        /\ Cardinality(FcUsers(x)) = 0 <=> FcUsers(x) = {}
        /\ Cardinality(FcLockers(x)) = 0 <=> FcLockers(x) = {}
    BY <1>2, Zenon DEF FcCounting, FiniteLaw
  <1>4. FcDropped(x) \in Nat
    BY LoopOf, DropNat, Zenon DEF FetchTypeOK, FcDropped
  <1>5. \A f \in FcFetches : FcUse(f, x) = 1 => FcUsers(x) # {}
    BY DEF FcUse, FcUsers
  <1>6. \A l \in FcLoops : FcLocks(l, x) = 1 => FcLockers(x) # {}
    BY DEF FcLocks, FcLockers
  <1> QED
    BY <1>3, <1>4, <1>5, <1>6, PostedNat

\* A step of one loop that changes what one fetch waits on.
LEMMA OwedStep ==
  ASSUME FcCounting, FetchTypeOK, FcQueuesOK', NEW l \in FcLoops, NEW f \in FcFetches,
         NEW x \in FcFetches,
         \A m \in FcLoops : m # l => fcLoop'[m] = fcLoop[m],
         \A g \in FcFetches : g # f => FcUse(g, x)' = FcUse(g, x)
  PROVE  /\ FcOwed(x) \in Nat /\ FcOwed(x)' \in Nat
         /\ FcHeld(x) \in Nat /\ FcHeld(x)' \in Nat
         /\ \A g \in FcFetches : FcUse(g, x)' = 1 => FcHeld(x)' >= 1
         /\ FcHeld(x)' + (FcUse(f, x) + FcLocks(l, x) + FcDrops(l, x))
            = FcHeld(x) + (FcUse(f, x)' + FcLocks(l, x)' + FcDrops(l, x)')
  <1>1. Cardinality(FcUsers(x)') + FcUse(f, x) = Cardinality(FcUsers(x)) + FcUse(f, x)'
    <2>1. FcUsers(x) \in SUBSET FcFetches /\ FcUsers(x)' \in SUBSET FcFetches
      BY Zenon DEF FcUsers
    <2>2. \A g \in FcFetches : /\ FcUse(g, x) = IF g \in FcUsers(x) THEN 1 ELSE 0
                              /\ FcUse(g, x)' = IF g \in FcUsers(x)' THEN 1 ELSE 0
      BY Zenon DEF FcUsers, FcUse
    <2>3. \A g \in FcFetches : g # f => (g \in FcUsers(x) <=> g \in FcUsers(x)')
      BY <2>2
    <2> QED
      BY <2>1, <2>2, <2>3, FetchAssumption DEF FcCounting, CardChangeLaw
  <1>2. Cardinality(FcLockers(x)') + FcLocks(l, x) = Cardinality(FcLockers(x)) + FcLocks(l, x)'
    <2>1. FcLockers(x) \in SUBSET FcLoops /\ FcLockers(x)' \in SUBSET FcLoops
      BY Zenon DEF FcLockers
    <2>2. /\ FcLocks(l, x) = IF l \in FcLockers(x) THEN 1 ELSE 0
          /\ FcLocks(l, x)' = IF l \in FcLockers(x)' THEN 1 ELSE 0
      BY Zenon DEF FcLockers, FcLocks
    <2>3. \A m \in FcLoops : m # l => (m \in FcLockers(x) <=> m \in FcLockers(x)')
      BY Zenon DEF FcLockers
    <2> QED
      BY <2>1, <2>2, <2>3, FetchAssumption DEF FcCounting, CardChangeLaw
  <1>3. FcDropped(x)' + FcDrops(l, x) = FcDropped(x) + FcDrops(l, x)'
    <2>1. FcDropped(x) \in Nat /\ FcDropped(x)' \in Nat
      BY LoopOf, DropNat, Zenon DEF FcDropped, FetchTypeOK, FcQueuesOK
    <2> QED
      BY <2>1, LoopOf DEF FcDropped, FcDrops
  <1>4. /\ Cardinality(FcUsers(x)) \in Nat /\ Cardinality(FcLockers(x)) \in Nat
        /\ FcPosted("start", x) \in Nat /\ FcPosted("shutdown", x) \in Nat
        /\ FcDropped(x) \in Nat
    BY OwedParts, Zenon
  <1>5. /\ Cardinality(FcUsers(x)') \in Nat /\ Cardinality(FcLockers(x)') \in Nat
        /\ FcPosted("start", x)' \in Nat /\ FcPosted("shutdown", x)' \in Nat
        /\ FcDropped(x)' \in Nat
    <2>1. FcUsers(x)' \subseteq FcFetches /\ FcLockers(x)' \subseteq FcLoops
      BY Zenon DEF FcUsers, FcLockers
    <2>2. Cardinality(FcUsers(x)') \in Nat /\ Cardinality(FcLockers(x)') \in Nat
      BY <2>1, FetchAssumption, Zenon DEF FcCounting, FiniteLaw
    <2>3. fcJobs'[FcLoopOf(x)] \in Seq(FcJobSet)
      BY LoopOf, Zenon DEF FcQueuesOK
    <2>4. FcDropped(x)' \in Nat
      BY LoopOf, DropNat, Zenon DEF FcQueuesOK, FcDropped
    <2> QED
      BY <2>2, <2>3, <2>4, Zenon DEF FcPosted, FcCounting, OccursNatLaw
  <1>6. FcUse(f, x) \in Nat /\ FcUse(f, x)' \in Nat /\ FcLocks(l, x) \in Nat
        /\ FcLocks(l, x)' \in Nat
    BY Zenon DEF FcUse, FcLocks
  <1>7. FcDrops(l, x) \in Nat /\ FcDrops(l, x)' \in Nat
    BY DropNat, Zenon DEF FcDrops, FetchTypeOK, FcQueuesOK
  <1>8. /\ FcHeld(x) = Cardinality(FcUsers(x)) + Cardinality(FcLockers(x)) + FcDropped(x)
        /\ FcHeld(x)' = Cardinality(FcUsers(x)') + Cardinality(FcLockers(x)') + FcDropped(x)'
    BY Zenon DEF FcHeld
  <1>9. FcHeld(x) \in Nat /\ FcHeld(x)' \in Nat
    BY <1>4, <1>5, <1>8
  <1>10. FcHeld(x)' + (FcUse(f, x) + FcLocks(l, x) + FcDrops(l, x))
         = FcHeld(x) + (FcUse(f, x)' + FcLocks(l, x)' + FcDrops(l, x)')
    BY <1>1, <1>2, <1>3, <1>4, <1>5, <1>6, <1>7, <1>8
  <1>11. ASSUME NEW g \in FcFetches, FcUse(g, x)' = 1
         PROVE  FcHeld(x)' >= 1
    <2>1. g \in FcUsers(x)'
      BY <1>11 DEF FcUse, FcUsers
    <2>2. IsFiniteSet(FcUsers(x)')
      BY FetchAssumption, Zenon DEF FcUsers, FcCounting, FiniteLaw
    <2>3. Cardinality(FcUsers(x)') # 0
      BY <2>1, <2>2, Zenon DEF FcCounting, FiniteLaw
    <2> QED
      BY <1>5, <1>8, <2>3
  <1> QED
    BY <1>9, <1>10, <1>11, <1>4, <1>5 DEF FcOwed

\* What is pointed to is in memory.
LEMMA Referenced ==
  ASSUME FcCounting, FetchTypeOK, FcAccounts, NEW x \in FcFetches,
         \/ \E f \in FcFetches : FcUse(f, x) = 1
         \/ \E l \in FcLoops : FcLocks(l, x) = 1
         \/ FcDropped(x) # 0
         \/ FcPosted("start", x) # 0
         \/ FcPosted("shutdown", x) # 0
  PROVE  x \in DOMAIN fcCtx
  <1> SUFFICES ASSUME x \notin DOMAIN fcCtx PROVE FALSE
    BY Zenon
  <1>1. FcOwed(x) + 0 = 0
    <2>1. FcRefs(x) = FcOwed(x) + FcAlive(x)
      BY Zenon DEF FcAccounts
    <2>2. FcRefs(x) = 0 /\ FcAlive(x) = 0
      BY Zenon DEF FcRefs, FcAlive
    <2> QED
      BY <2>1, <2>2, Zenon
  <1>2. FcHeld(x) = Cardinality(FcUsers(x)) + Cardinality(FcLockers(x)) + FcDropped(x)
    BY Zenon DEF FcHeld
  <1>3. FcHeld(x) \in Nat
    BY <1>2, OwedParts
  <1>4. FcHeld(x) = 0 /\ FcPosted("start", x) = 0 /\ FcPosted("shutdown", x) = 0
    <2>1. FcPosted("start", x) \in Nat /\ FcPosted("shutdown", x) \in Nat
      BY OwedParts, Zenon
    <2>2. FcOwed(x) = FcHeld(x) + (FcPosted("start", x) + FcPosted("shutdown", x))
      BY Zenon DEF FcOwed
    <2> QED
      BY <1>1, <1>3, <2>1, <2>2
  <1>5. Cardinality(FcUsers(x)) = 0 /\ Cardinality(FcLockers(x)) = 0 /\ FcDropped(x) = 0
    BY <1>2, <1>4, OwedParts
  <1>6. \A f \in FcFetches : FcUse(f, x) # 1
    BY <1>5, OwedParts
  <1>7. \A l \in FcLoops : FcLocks(l, x) # 1
    BY <1>5, OwedParts
  <1> QED
    BY <1>4, <1>5, <1>6, <1>7, Zenon

\* One callback is posted to the loop it is for.
LEMMA PostedAppend ==
  ASSUME FcCounting, FetchTypeOK, FcOnLoops, NEW j \in {"start", "shutdown", "call"},
         NEW c \in FcFetches,
         FcPost(FcLoopOf(c), [job |-> j, of |-> c])
  PROVE  /\ fcJobs' \in [FcLoops -> Seq(FcJobSet)] /\ FcOnLoops'
         /\ \A i \in {"start", "shutdown", "call"}, x \in FcFetches :
              FcPosted(i, x)' = FcPosted(i, x) + (IF i = j /\ x = c THEN 1 ELSE 0)
  <1> DEFINE l == FcLoopOf(c)
             e == [job |-> j, of |-> c]
  <1>1. l \in FcLoops /\ e \in FcJobSet /\ e.of = c
    BY LoopOf, Zenon DEF FcJobSet
  <1>2. fcJobs \in [FcLoops -> Seq(FcJobSet)]
    BY Zenon DEF FetchTypeOK, FcJobSet
  <1>3. fcJobs' = [fcJobs EXCEPT ![l] = Append(fcJobs[l], e)]
    BY Zenon DEF FcPost
  <1> HIDE DEF e, l
  <1>4. fcJobs[l] \in Seq(FcJobSet) /\ Append(fcJobs[l], e) \in Seq(FcJobSet)
    BY <1>1, <1>2
  <1>5. fcJobs' \in [FcLoops -> Seq(FcJobSet)]
    BY <1>2, <1>3, <1>4, Zenon
  <1>6. FcOnLoops'
    <2> SUFFICES ASSUME NEW m \in FcLoops, NEW i \in 1 .. Len(fcJobs'[m])
                 PROVE  FcLoopOf(fcJobs'[m][i].of) = m
      BY Zenon DEF FcOnLoops
    <2>1. CASE m # l
      BY <1>2, <1>3, <2>1, Zenon DEF FcOnLoops
    <2>2. CASE m = l
      <3>1. fcJobs'[m] = Append(fcJobs[l], e)
        BY <1>2, <1>3, <2>2, Zenon
      <3>2. (i \in 1 .. Len(fcJobs[l]) /\ fcJobs'[m][i] = fcJobs[l][i]) \/ fcJobs'[m][i] = e
        BY <1>4, <3>1
      <3> QED
        BY <1>1, <2>2, <3>2, Zenon DEF FcOnLoops, l
    <2> QED
      BY <2>1, <2>2, Zenon
  <1>7. ASSUME NEW i \in {"start", "shutdown", "call"}, NEW x \in FcFetches
        PROVE  FcPosted(i, x)' = FcPosted(i, x) + (IF i = j /\ x = c THEN 1 ELSE 0)
    <2>1. [job |-> i, of |-> x] = e <=> i = j /\ x = c
      BY Zenon DEF e
    <2>2. FcPosted(i, x) \in Nat
      BY PostedNat, Zenon
    <2>3. CASE FcLoopOf(x) = l
      <3>1. fcJobs'[FcLoopOf(x)] = Append(fcJobs[l], e)
        BY <1>1, <1>2, <1>3, <2>3, Zenon
      <3>2. FcOccurs(Append(fcJobs[l], e), [job |-> i, of |-> x])
            = FcOccurs(fcJobs[l], [job |-> i, of |-> x]) + (IF e = [job |-> i, of |-> x] THEN 1 ELSE 0)
        BY <1>1, <1>4, OccursAppend
      <3>3. /\ FcPosted(i, x) = FcOccurs(fcJobs[l], [job |-> i, of |-> x])
            /\ FcPosted(i, x)' = FcOccurs(Append(fcJobs[l], e), [job |-> i, of |-> x])
        BY <2>3, <3>1, Zenon DEF FcPosted
      <3> QED
        BY <2>1, <3>2, <3>3, Zenon
    <2>4. CASE FcLoopOf(x) # l
      <3>1. fcJobs'[FcLoopOf(x)] = fcJobs[FcLoopOf(x)] /\ x # c
        BY <1>2, <1>3, <2>4, LoopOf, Zenon DEF l
      <3>2. FcPosted(i, x)' = FcPosted(i, x)
        BY <3>1, Zenon DEF FcPosted
      <3> QED
        BY <2>2, <3>1, <3>2
    <2> QED
      BY <2>3, <2>4, Zenon
  <1> QED
    BY <1>5, <1>6, <1>7, Zenon

\* A loop takes the first callback posted to it.
LEMMA PostedTail ==
  ASSUME FcCounting, FetchTypeOK, FcOnLoops, NEW l \in FcLoops, NEW j, FcJob(l, j),
         FcTaken(l)
  PROVE  LET c == Head(fcJobs[l]).of IN
         /\ fcJobs' \in [FcLoops -> Seq(FcJobSet)] /\ FcOnLoops'
         /\ c \in FcFetches /\ FcLoopOf(c) = l /\ FcPosted(j, c) >= 1
         /\ \A i \in {"start", "shutdown", "call"}, x \in FcFetches :
              FcPosted(i, x) = FcPosted(i, x)' + (IF i = j /\ x = c THEN 1 ELSE 0)
  <1> DEFINE e == Head(fcJobs[l])
             c == e.of
  <1>1. fcJobs \in [FcLoops -> Seq(FcJobSet)]
    BY Zenon DEF FetchTypeOK, FcJobSet
  <1>2. fcJobs[l] \in Seq(FcJobSet) /\ fcJobs[l] # <<>> /\ e.job = j
    BY <1>1, Zenon DEF FcJob
  <1>3. /\ e \in FcJobSet /\ Tail(fcJobs[l]) \in Seq(FcJobSet)
        /\ Len(fcJobs[l]) >= 1 /\ e = fcJobs[l][1] /\ Len(Tail(fcJobs[l])) = Len(fcJobs[l]) - 1
        /\ \A i \in 1 .. Len(Tail(fcJobs[l])) : Tail(fcJobs[l])[i] = fcJobs[l][i + 1]
        /\ Len(fcJobs[l]) \in Nat
    BY <1>2
  <1>4. fcJobs' = [fcJobs EXCEPT ![l] = Tail(fcJobs[l])]
    BY Zenon DEF FcTaken
  <1> HIDE DEF e
  <1>5. c \in FcFetches /\ FcLoopOf(c) = l /\ e = [job |-> j, of |-> c]
    BY <1>2, <1>3 DEF FcOnLoops, FcJobSet
  <1>6. fcJobs' \in [FcLoops -> Seq(FcJobSet)]
    BY <1>1, <1>3, <1>4, Zenon
  <1>7. FcOnLoops'
    <2> SUFFICES ASSUME NEW m \in FcLoops, NEW i \in 1 .. Len(fcJobs'[m])
                 PROVE  FcLoopOf(fcJobs'[m][i].of) = m
      BY Zenon DEF FcOnLoops
    <2>1. CASE m # l
      BY <1>1, <1>4, <2>1, Zenon DEF FcOnLoops
    <2>2. CASE m = l
      <3>1. fcJobs'[m] = Tail(fcJobs[l])
        BY <1>1, <1>4, <2>2, Zenon
      <3>2. i + 1 \in 1 .. Len(fcJobs[l]) /\ fcJobs'[m][i] = fcJobs[l][i + 1]
        BY <1>3, <3>1
      <3> QED
        BY <2>2, <3>2, Zenon DEF FcOnLoops
    <2> QED
      BY <2>1, <2>2, Zenon
  <1>8. ASSUME NEW i \in {"start", "shutdown", "call"}, NEW x \in FcFetches
        PROVE  FcPosted(i, x) = FcPosted(i, x)' + (IF i = j /\ x = c THEN 1 ELSE 0)
    <2>1. [job |-> i, of |-> x] = e <=> i = j /\ x = c
      BY <1>5
    <2>2. FcPosted(i, x) \in Nat
      BY PostedNat, Zenon
    <2>3. CASE FcLoopOf(x) = l
      <3>1. fcJobs'[FcLoopOf(x)] = Tail(fcJobs[l])
        BY <1>1, <1>4, <2>3, Zenon
      <3>2. FcOccurs(fcJobs[l], [job |-> i, of |-> x])
            = FcOccurs(Tail(fcJobs[l]), [job |-> i, of |-> x])
              + (IF e = [job |-> i, of |-> x] THEN 1 ELSE 0)
        BY <1>2, OccursTail, Zenon DEF e
      <3>3. /\ FcPosted(i, x) = FcOccurs(fcJobs[l], [job |-> i, of |-> x])
            /\ FcPosted(i, x)' = FcOccurs(Tail(fcJobs[l]), [job |-> i, of |-> x])
        BY <2>3, <3>1, Zenon DEF FcPosted
      <3> QED
        BY <2>1, <3>2, <3>3, Zenon
    <2>4. CASE FcLoopOf(x) # l
      <3>1. fcJobs'[FcLoopOf(x)] = fcJobs[FcLoopOf(x)] /\ x # c
        BY <1>1, <1>4, <1>5, <2>4, LoopOf, Zenon
      <3>2. FcPosted(i, x)' = FcPosted(i, x)
        BY <3>1, Zenon DEF FcPosted
      <3> QED
        BY <2>2, <3>1, <3>2
    <2> QED
      BY <2>3, <2>4, Zenon
  <1>9. FcPosted(j, c) >= 1
    <2>1. FcOccurs(fcJobs[l], [job |-> j, of |-> c]) \in Nat
      BY <1>2, Zenon DEF FcCounting, OccursNatLaw
    <2>2. 1 \in 1 .. Len(fcJobs[l]) /\ fcJobs[l][1] = [job |-> j, of |-> c]
      BY <1>3, <1>5
    <2>3. FcOccurs(fcJobs[l], [job |-> j, of |-> c]) # 0
      BY <1>2, <2>2, Zenon DEF FcCounting, OccursNatLaw
    <2> QED
      BY <1>5, <2>1, <2>3 DEF FcPosted
  <1> QED
    BY <1>5, <1>6, <1>7, <1>8, <1>9, Zenon DEF e

\* A sequence over a set is one over a larger set.
LEMMA SeqOf ==
  ASSUME NEW A, NEW B, A \subseteq B, NEW s \in Seq(A)
  PROVE  s \in Seq(B) /\ \A k \in 1 .. Len(s) : s[k] \in A
  OBVIOUS

\* One callback is posted for each of a set of fetches or contexts, each to its own loop.
LEMMA PostedMany ==
  ASSUME FcCounting, FetchTypeOK, FcOnLoops, NEW j \in {"start", "shutdown", "call"},
         NEW S \in SUBSET FcFetches,
         fcJobs' = [m \in FcLoops |-> fcJobs[m] \o FcPosts(j, {f \in S : FcLoopOf(f) = m})]
  PROVE  /\ fcJobs' \in [FcLoops -> Seq(FcJobSet)] /\ FcOnLoops'
         /\ \A i \in {"start", "shutdown", "call"}, x \in FcFetches :
              FcPosted(i, x)' = FcPosted(i, x) + (IF i = j /\ x \in S THEN 1 ELSE 0)
  <1> DEFINE P(m) == {f \in S : FcLoopOf(f) = m}
  <1>1. fcJobs \in [FcLoops -> Seq(FcJobSet)]
    BY Zenon DEF FetchTypeOK, FcJobSet
  <1>2. ASSUME NEW m \in FcLoops
        PROVE  /\ FcPosts(j, P(m)) \in Seq([job : {j}, of : P(m)])
               /\ \A i, x : FcOccurs(FcPosts(j, P(m)), [job |-> i, of |-> x])
                           = IF i = j /\ x \in P(m) THEN 1 ELSE 0
    <2>1. IsFiniteSet(P(m))
      BY FetchAssumption, Zenon DEF FcCounting, FiniteLaw
    <2> QED
      BY <2>1, ZenonT(30) DEF FcCounting, OccursPostsLaw
  <1>3. ASSUME NEW m \in FcLoops
        PROVE  FcPosts(j, P(m)) \in Seq(FcJobSet) /\ fcJobs'[m] = fcJobs[m] \o FcPosts(j, P(m))
    <2>1. [job : {j}, of : P(m)] \subseteq FcJobSet
      BY Zenon DEF FcJobSet
    <2>2. FcPosts(j, P(m)) \in Seq([job : {j}, of : P(m)])
      BY <1>2, Zenon
    <2> HIDE DEF P
    <2>3. FcPosts(j, P(m)) \in Seq(FcJobSet)
      BY <2>1, <2>2, SeqOf, Zenon
    <2> QED
      BY <2>3, Zenon DEF P
  <1>4. fcJobs' \in [FcLoops -> Seq(FcJobSet)]
    <2>1. \A m \in FcLoops : fcJobs[m] \o FcPosts(j, P(m)) \in Seq(FcJobSet)
      BY <1>1, <1>3
    <2> QED
      BY <2>1, Zenon
  <1>5. FcOnLoops'
    <2> SUFFICES ASSUME NEW m \in FcLoops, NEW i \in 1 .. Len(fcJobs'[m])
                 PROVE  FcLoopOf(fcJobs'[m][i].of) = m
      BY Zenon DEF FcOnLoops
    <2> DEFINE q == fcJobs[m]
               r == FcPosts(j, P(m))
    <2>1. q \in Seq(FcJobSet) /\ r \in Seq([job : {j}, of : P(m)]) /\ fcJobs'[m] = q \o r
      BY <1>1, <1>2, <1>3, Zenon
    <2> HIDE DEF r
    <2>2. \/ i \in 1 .. Len(q) /\ fcJobs'[m][i] = q[i]
          \/ \E k \in 1 .. Len(r) : fcJobs'[m][i] = r[k]
      <3>1. Len(q) \in Nat /\ Len(r) \in Nat /\ Len(q \o r) = Len(q) + Len(r)
        BY <2>1
      <3>2. CASE i <= Len(q)
        BY <2>1, <3>1, <3>2
      <3>3. CASE i > Len(q)
        <4>1. i - Len(q) \in 1 .. Len(r) /\ (q \o r)[i] = r[i - Len(q)]
          BY <2>1, <3>1, <3>3
        <4> QED
          BY <2>1, <4>1, Zenon
      <3>4. i \in Nat
        BY <2>1, <3>1
      <3>5. i <= Len(q) \/ i > Len(q)
        BY <3>1, <3>4
      <3> QED
        BY <3>2, <3>3, <3>5, Zenon
    <2>3. \A k \in 1 .. Len(r) : FcLoopOf(r[k].of) = m
      <3>1. \A k \in 1 .. Len(r) : r[k] \in [job : {j}, of : P(m)]
        BY <2>1, SeqOf, Zenon
      <3> QED
        BY <3>1, Zenon
    <2>4. i \in 1 .. Len(q) /\ fcJobs'[m][i] = q[i] => FcLoopOf(fcJobs'[m][i].of) = m
      BY Zenon DEF FcOnLoops
    <2> QED
      BY <2>2, <2>3, <2>4, Zenon
  <1>6. ASSUME NEW i \in {"start", "shutdown", "call"}, NEW x \in FcFetches
        PROVE  FcPosted(i, x)' = FcPosted(i, x) + (IF i = j /\ x \in S THEN 1 ELSE 0)
    <2> DEFINE m == FcLoopOf(x)
               e == [job |-> i, of |-> x]
    <2>1. m \in FcLoops
      BY LoopOf, Zenon
    <2>2. fcJobs[m] \in Seq(FcJobSet) /\ FcPosts(j, P(m)) \in Seq(FcJobSet)
      BY <1>1, <1>3, <2>1, Zenon
    <2>3. FcOccurs(fcJobs[m] \o FcPosts(j, P(m)), e)
          = FcOccurs(fcJobs[m], e) + FcOccurs(FcPosts(j, P(m)), e)
      BY <2>2, Zenon DEF FcCounting, OccursConcatLaw
    <2>4. FcOccurs(FcPosts(j, P(m)), e) = IF i = j /\ x \in S THEN 1 ELSE 0
      BY <1>2, <2>1, Zenon
    <2>5. /\ FcPosted(i, x) = FcOccurs(fcJobs[m], e)
          /\ FcPosted(i, x)' = FcOccurs(fcJobs[m] \o FcPosts(j, P(m)), e)
      BY <1>3, <2>1, Zenon DEF FcPosted
    <2> QED
      BY <2>3, <2>4, <2>5, Zenon
  <1> QED
    BY <1>4, <1>5, <1>6, Zenon

-----------------------------------------------------------------------------
(* What a step leaves alone *)

\* An undisturbed handler may rely on what it relied on.
LEMMA HandlerKept ==
  ASSUME NEW m \in FcLoops, FcHandler(m), FcUndisturbed(m)
  PROVE  FcHandler(m)'
  BY DEF FcHandler, FcUndisturbed

\* A settled context stays tidy.
LEMMA TidyKept ==
  ASSUME NEW c, FcTidy(c), FcSettled(c)
  PROVE  FcTidy(c)'
  BY Zenon DEF FcTidy, FcSettled

\* The counters stay right where no context changes its zone.
LEMMA CountersKept ==
  ASSUME FcCounters, UNCHANGED fcCount, DOMAIN fcCtx' = DOMAIN fcCtx,
         \A c \in DOMAIN fcCtx : fcCtx'[c].counted = fcCtx[c].counted /\ fcCtx'[c].key = fcCtx[c].key
  PROVE  FcCounters'
  <1>1. \A d \in FcDomains : FcCountedIn(d)' = FcCountedIn(d)
    BY Zenon DEF FcCountedIn
  <1>2. \A d \in FcDomains : fcCount[d] = Cardinality(FcCountedIn(d)) /\ fcCount[d] <= FcZspill
    BY Zenon DEF FcCounters, FcCountedIn
  <1>3. \A d \in FcDomains : fcCount'[d] = Cardinality(FcCountedIn(d)') /\ fcCount'[d] <= FcZspill
    BY <1>1, <1>2, Zenon
  <1> QED
    BY <1>3, Zenon DEF FcCounters, FcCountedIn

\* One context more or less is counted in its zone, and the counter follows.
LEMMA CountersStep ==
  ASSUME FcCounting, FetchTypeOK, FcCounters, DOMAIN fcCtx' \subseteq FcFetches,
         NEW c \in FcFetches,
         \A x \in FcFetches : x # c =>
           /\ x \in DOMAIN fcCtx' <=> x \in DOMAIN fcCtx
           /\ x \in DOMAIN fcCtx => fcCtx'[x].counted = fcCtx[x].counted
                                    /\ fcCtx'[x].key = fcCtx[x].key,
         c \in DOMAIN fcCtx => fcCtx[c].key = FcKey(c),
         c \in DOMAIN fcCtx' => fcCtx'[c].key = FcKey(c),
         fcCount' = [fcCount EXCEPT ![FcDomain[FcKey(c)]] = @ - FcIn(c) + FcIn(c)'],
         fcCount'[FcDomain[FcKey(c)]] <= FcZspill
  PROVE  FcCounters' /\ fcCount' \in [FcDomains -> Nat]
  <1> DEFINE z == FcDomain[FcKey(c)]
  <1>1. fcCount \in [FcDomains -> Nat] /\ z \in FcDomains
    BY LoopOf, Zenon DEF FetchTypeOK
  <1>2. \A d \in FcDomains : fcCount[d] = Cardinality(FcCountedIn(d)) /\ fcCount[d] <= FcZspill
    BY Zenon DEF FcCounters, FcCountedIn
  <1> HIDE DEF z
  <1>3. ASSUME NEW d \in FcDomains
        PROVE  fcCount'[d] = Cardinality(FcCountedIn(d)') /\ fcCount'[d] <= FcZspill
               /\ fcCount'[d] \in Nat
    <2>1. FcCountedIn(d) \in SUBSET FcFetches /\ FcCountedIn(d)' \in SUBSET FcFetches
      BY Zenon DEF FcCountedIn, FetchTypeOK
    <2>2. \A x \in FcFetches : x # c => (x \in FcCountedIn(d) <=> x \in FcCountedIn(d)')
      BY Zenon DEF FcCountedIn
    <2>3. /\ Cardinality(FcCountedIn(d)) \in Nat /\ Cardinality(FcCountedIn(d)') \in Nat
          /\ Cardinality(FcCountedIn(d)') + (IF c \in FcCountedIn(d) THEN 1 ELSE 0)
               = Cardinality(FcCountedIn(d)) + (IF c \in FcCountedIn(d)' THEN 1 ELSE 0)
      BY <2>1, <2>2, FetchAssumption, SMTT(30) DEF FcCounting, CardChangeLaw
    <2>4. CASE d = z
      <3>1. /\ (IF c \in FcCountedIn(d) THEN 1 ELSE 0) = FcIn(c)
            /\ (IF c \in FcCountedIn(d)' THEN 1 ELSE 0) = FcIn(c)'
        BY <2>4, Zenon DEF FcCountedIn, FcIn, z
      <3>2. fcCount'[d] = fcCount[d] - FcIn(c) + FcIn(c)' /\ fcCount'[d] <= FcZspill
        BY <1>1, <2>4, Zenon DEF z
      <3> QED
        BY <1>2, <2>3, <3>1, <3>2
    <2>5. CASE d # z
      <3>1. c \notin FcCountedIn(d) /\ c \notin FcCountedIn(d)'
        BY <2>5, Zenon DEF FcCountedIn, z
      <3>2. fcCount'[d] = fcCount[d]
        BY <1>1, <2>5, Zenon DEF z
      <3> QED
        BY <1>1, <1>2, <2>3, <3>1, <3>2
    <2> QED
      BY <2>4, <2>5, Zenon
  <1>4. FcCounters'
    BY <1>3, Zenon DEF FcCounters, FcCountedIn
  <1>5. fcCount' \in [FcDomains -> Nat]
    BY <1>1, <1>3, Zenon DEF z
  <1> QED
    BY <1>4, <1>5, Zenon

\* References are balanced where nothing that refers to a context changes.
LEMMA Unmoved ==
  ASSUME FcCounting, FetchTypeOK, FcQueuesOK', FcAccounts, NEW l \in FcLoops,
         NEW f \in FcFetches,
         NEW x \in FcFetches,
         \A m \in FcLoops : m # l => fcLoop'[m] = fcLoop[m],
         \A g \in FcFetches : FcUse(g, x)' = FcUse(g, x),
         FcLocks(l, x)' = FcLocks(l, x), FcDrops(l, x)' = FcDrops(l, x),
         FcPosted("start", x)' = FcPosted("start", x),
         FcPosted("shutdown", x)' = FcPosted("shutdown", x),
         FcRefs(x)' = FcRefs(x), FcAlive(x)' = FcAlive(x)
  PROVE  FcRefs(x)' = FcOwed(x)' + FcAlive(x)'
  <1>1. /\ FcHeld(x) \in Nat /\ FcHeld(x)' \in Nat
        /\ FcHeld(x)' + (FcUse(f, x) + FcLocks(l, x) + FcDrops(l, x))
            = FcHeld(x) + (FcUse(f, x)' + FcLocks(l, x)' + FcDrops(l, x)')
    BY OwedStep, Zenon
  <1>2. FcUse(f, x) \in Nat /\ FcLocks(l, x) \in Nat /\ FcDrops(l, x) \in Nat
    BY DropNat, Zenon DEF FcUse, FcLocks, FcDrops, FetchTypeOK
  <1>3. FcHeld(x)' = FcHeld(x)
    BY <1>1, <1>2
  <1>4. FcOwed(x)' = FcOwed(x)
    BY <1>3, Zenon DEF FcOwed
  <1> QED
    BY <1>4, Zenon DEF FcAccounts

\* fetchctx_detach of one of the references that remain: the context is freed with
\* the last, its zone's counter follows, and no assertion fails.
LEMMA Detached ==
  ASSUME FcCounting, FcInv, NEW ctxs, NEW c \in DOMAIN fcCtx, NEW n \in Nat,
         DOMAIN ctxs = DOMAIN fcCtx,
         \A x \in DOMAIN fcCtx : /\ ctxs[x] \in FcContexts /\ ctxs[x].key = fcCtx[x].key
                                /\ ctxs[x].counted = fcCtx[x].counted,
         ctxs[c].refs >= n, ctxs[c].refs = n => ctxs[c].done /\ ctxs[c].resps = {},
         FcDetach(ctxs, c, n, {})
  PROVE  /\ fcFailed' = fcFailed /\ FcCounters' /\ fcCount' \in [FcDomains -> Nat]
         /\ \A x \in DOMAIN fcCtx' : fcCtx'[x] \in FcContexts
         /\ FcLess(ctxs, c, n)
  <1>1. DOMAIN fcCtx \subseteq FcFetches /\ c \in FcFetches /\ FcTidy(c)
    BY Zenon DEF FcInv, FetchTypeOK, FcStore
  <1>2. fcCtx[c].key = FcKey(c) /\ ctxs[c].key = FcKey(c)
    BY <1>1, Zenon DEF FcTidy
  <1>3. ctxs[c] \in FcContexts /\ ctxs[c].refs \in Nat /\ ctxs[c].counted \in BOOLEAN
    BY Zenon DEF FcContexts
  <1>4. CASE ctxs[c].refs > n
    <2>1. /\ fcCtx' = [ctxs EXCEPT ![c] = [ctxs[c] EXCEPT !.refs = ctxs[c].refs - n]]
          /\ fcFailed' = fcFailed /\ fcCount' = fcCount
      BY <1>4, Zenon DEF FcDetach, FcCheck
    <2>2. [ctxs[c] EXCEPT !.refs = ctxs[c].refs - n] \in FcContexts
      BY <1>3, <1>4 DEF FcContexts
    <2>3. \A x \in DOMAIN fcCtx' : fcCtx'[x] \in FcContexts
      BY <2>1, <2>2, Zenon
    <2>4. FcCounters'
      <3>1. \A x \in DOMAIN fcCtx : fcCtx'[x].counted = fcCtx[x].counted /\ fcCtx'[x].key = fcCtx[x].key
        BY <1>3, <2>1, Zenon DEF FcContexts
      <3> QED
        BY <2>1, <3>1, CountersKept, Zenon DEF FcInv
    <2>5. FcLess(ctxs, c, n)
      <3>1. fcCtx'[c] = [ctxs[c] EXCEPT !.refs = ctxs[c].refs - n] /\ DOMAIN fcCtx' = DOMAIN ctxs
        BY <2>1, Zenon
      <3>2. fcCtx'[c].refs = ctxs[c].refs - n /\ fcCtx'[c].done = ctxs[c].done
        BY <1>3, <3>1, Zenon DEF FcContexts
      <3>3. ctxs[c].refs # n
        BY <1>3, <1>4
      <3>4. \A x \in DOMAIN fcCtx' : x # c => fcCtx'[x] = ctxs[x]
        BY <2>1, Zenon
      <3>5. FcRefs(c)' = ctxs[c].refs - n /\ FcAlive(c)' = IF ctxs[c].done THEN 0 ELSE 1
        BY <3>1, <3>2, Zenon DEF FcRefs, FcAlive
      <3> QED
        BY <3>1, <3>3, <3>4, <3>5, Zenon DEF FcLess
    <2> QED
      BY <2>1, <2>3, <2>4, <2>5, Zenon DEF FcInv, FetchTypeOK
  <1>5. CASE ~(ctxs[c].refs > n)
    <2>1. ctxs[c].refs = n /\ ctxs[c].done /\ ctxs[c].resps = {}
      BY <1>3, <1>5
    <2>2. fcCtx' = [x \in DOMAIN ctxs \ {c} |-> ctxs[x]] /\ fcCount' = FcDecr(c)
      BY <1>5, Zenon DEF FcDetach, Restrict
    <2> DEFINE z == FcDomain[FcKey(c)]
    <2>3. z \in FcDomains /\ fcCount \in [FcDomains -> Nat]
      BY <1>1, LoopOf, Zenon DEF FcInv, FetchTypeOK
    <2>4. /\ fcCount[z] = Cardinality(FcCountedIn(z)) /\ fcCount[z] <= FcZspill
          /\ fcCtx[c].counted => c \in FcCountedIn(z)
      BY <1>2, <2>3, Zenon DEF FcInv, FcCounters, FcCountedIn
    <2>5. fcCtx[c].counted => fcCount[z] >= 1
      <3>1. FcCountedIn(z) \in SUBSET FcFetches
        BY <1>1, Zenon DEF FcCountedIn
      <3>2. IsFiniteSet(FcCountedIn(z))
        BY <3>1, FetchAssumption, Zenon DEF FcCounting, FiniteLaw
      <3>3. fcCtx[c].counted => Cardinality(FcCountedIn(z)) # 0
        BY <2>4, <3>2, Zenon DEF FcCounting, FiniteLaw
      <3> QED
        BY <2>3, <2>4, <3>3
    <2>6. fcFailed' = fcFailed
      <3>1. ~(ctxs[c].counted /\ fcCount[FcDomain[ctxs[c].key]] = 0)
        BY <1>2, <2>5
      <3> QED
        BY <1>5, <2>1, <3>1, Zenon DEF FcDetach, FcCheck
    <2>7. FcCounters' /\ fcCount' \in [FcDomains -> Nat]
      <3>1. FcIn(c) = (IF fcCtx[c].counted THEN 1 ELSE 0) /\ FcIn(c)' = 0
        BY <2>2, Zenon DEF FcIn
      <3>2. fcCount' = [fcCount EXCEPT ![z] = @ - FcIn(c)]
        BY <1>2, <2>2, <3>1, Zenon DEF FcDecr
      <3>3. /\ fcCount' = [fcCount EXCEPT ![z] = @ - FcIn(c) + FcIn(c)']
            /\ fcCount'[z] <= FcZspill
        <4>1. fcCount[z] - FcIn(c) + FcIn(c)' = fcCount[z] - FcIn(c)
          BY <2>3, <3>1
        <4>2. fcCount'[z] = fcCount[z] - FcIn(c) /\ FcZspill \in Nat
          BY <2>3, <3>2, FetchAssumption, Zenon
        <4>3. fcCount'[z] <= FcZspill
          BY <2>3, <2>4, <2>5, <3>1, <4>2
        <4> QED
          BY <3>2, <4>1, <4>3, Zenon
      <3>4. \A x \in FcFetches : x # c =>
              /\ x \in DOMAIN fcCtx' <=> x \in DOMAIN fcCtx
              /\ x \in DOMAIN fcCtx => fcCtx'[x].counted = fcCtx[x].counted
                                       /\ fcCtx'[x].key = fcCtx[x].key
        BY <2>2, Zenon
      <3>5. DOMAIN fcCtx' \subseteq FcFetches /\ c \notin DOMAIN fcCtx'
        BY <1>1, <2>2, Zenon
      <3> HIDE DEF z
      <3> QED
        BY <1>1, <1>2, <3>3, <3>4, <3>5, CountersStep, Zenon DEF FcInv, z
    <2>8. FcLess(ctxs, c, n)
      BY <1>3, <2>1, <2>2 DEF FcLess, FcRefs, FcAlive
    <2> QED
      BY <2>2, <2>6, <2>7, <2>8, Zenon
  <1> QED
    BY <1>4, <1>5, Zenon

-----------------------------------------------------------------------------
(* Steps that change one context *)

\* What loop l and fetch f refer to c with changes by n.
LEMMA OwedChange ==
  ASSUME FcCounting, FcInv, FcQueuesOK', NEW l \in FcLoops, NEW f \in FcFetches,
         NEW c \in FcFetches,
         FcElsewhere(l), \A g \in FcFetches : g # f => FcUse(g, c)' = FcUse(g, c)
  PROVE  /\ FcOwed(c) \in Nat /\ FcOwed(c)' \in Nat
         /\ FcRefersTo(l, f, c) \in Nat /\ FcRefersTo(l, f, c)' \in Nat
         /\ FcOwed(c)' + FcRefersTo(l, f, c) = FcOwed(c) + FcRefersTo(l, f, c)'
         /\ \A g \in FcFetches : FcUse(g, c)' = 1 => FcOwed(c)' >= 1
  <1>1. /\ FcHeld(c) \in Nat /\ FcHeld(c)' \in Nat
        /\ \A g \in FcFetches : FcUse(g, c)' = 1 => FcHeld(c)' >= 1
        /\ FcHeld(c)' + (FcUse(f, c) + FcLocks(l, c) + FcDrops(l, c))
            = FcHeld(c) + (FcUse(f, c)' + FcLocks(l, c)' + FcDrops(l, c)')
    BY OwedStep, Zenon DEF FcInv, FcElsewhere
  <1>2. /\ FcUse(f, c) \in Nat /\ FcLocks(l, c) \in Nat /\ FcDrops(l, c) \in Nat
        /\ FcUse(f, c)' \in Nat /\ FcLocks(l, c)' \in Nat /\ FcDrops(l, c)' \in Nat
    BY DropNat, Zenon DEF FcUse, FcLocks, FcDrops, FcInv, FetchTypeOK, FcQueuesOK
  <1>3. /\ FcPosted("start", c) \in Nat /\ FcPosted("shutdown", c) \in Nat
        /\ FcPosted("start", c)' \in Nat /\ FcPosted("shutdown", c)' \in Nat
    <2>1. fcJobs'[FcLoopOf(c)] \in Seq(FcJobSet)
      BY LoopOf, Zenon DEF FcQueuesOK
    <2> QED
      BY <2>1, PostedNat, Zenon DEF FcPosted, FcInv, FcCounting, OccursNatLaw
  <1> DEFINE a == FcUse(f, c) + FcLocks(l, c) + FcDrops(l, c)
             a1 == FcUse(f, c)' + FcLocks(l, c)' + FcDrops(l, c)'
             p == FcPosted("start", c) + FcPosted("shutdown", c)
             p1 == FcPosted("start", c)' + FcPosted("shutdown", c)'
  <1>4. a \in Nat /\ a1 \in Nat /\ p \in Nat /\ p1 \in Nat
    BY <1>2, <1>3
  <1>5. /\ FcOwed(c) = FcHeld(c) + p /\ FcOwed(c)' = FcHeld(c)' + p1
        /\ FcRefersTo(l, f, c) = a + p /\ FcRefersTo(l, f, c)' = a1 + p1
        /\ FcHeld(c)' + a = FcHeld(c) + a1
    BY <1>1, Zenon DEF FcOwed, FcRefersTo
  <1> HIDE DEF a, a1, p, p1
  <1> QED
    BY <1>1, <1>4, <1>5

\* A step of loop l, with fetch f, that changes context c keeps handlers, contexts,
\* lists and accounts if it does so for c.
LEMMA ChangeStep ==
  ASSUME FcCounting, FcInv, FcQueuesOK', NEW l \in FcLoops, NEW f \in FcFetches,
         NEW c \in FcFetches,
         FcOneChanged(c), FcSafeFor(l, c), FcAllForOne(l, f, c), FcHandler(l)',
         c \in DOMAIN fcCtx' => FcTidy(c)',
         c \in DOMAIN fcCtx' =>
           \A g \in FcFetches : g \in fcCtx'[c].resps <=> FcWaitsFor(g, c)',
         FcRefs(c)' + FcRefersTo(l, f, c) + FcAlive(c)
           = FcRefs(c) + FcRefersTo(l, f, c)' + FcAlive(c)',
         FcRefs(c)' \in Nat
  PROVE  FcHandlers' /\ FcStore' /\ FcLists' /\ FcAccounts'
  <1>1. DOMAIN fcCtx \subseteq FcFetches /\ \A x \in DOMAIN fcCtx : fcCtx[x] \in FcContexts
    BY Zenon DEF FcInv, FetchTypeOK
  <1>2. /\ FcElsewhere(l) /\ FcFetchKept(l)
        /\ fcLoop[l].at = "finish" => fcLoop[l].ctx = c
        /\ fcLoop[l].at = "add" => fcLoop[l].fetch = c
        /\ \A x \in FcFetches : x # c => FcSameFor(l, x)
        /\ \A g \in FcFetches : g # f => FcUse(g, c)' = FcUse(g, c)
        /\ \A g \in FcFetches, x \in FcFetches : x # c => (FcWaitsFor(g, x)' <=> FcWaitsFor(g, x))
    BY Zenon DEF FcAllForOne
  <1>3. /\ DOMAIN fcCtx' \subseteq FcFetches
        /\ \A x \in FcFetches : x # c =>
             /\ x \in DOMAIN fcCtx' <=> x \in DOMAIN fcCtx
             /\ x \in DOMAIN fcCtx => fcCtx'[x] = fcCtx[x]
    BY Zenon DEF FcOneChanged
  <1>r. c \in DOMAIN fcCtx /\ FcLoopOf(c) # l /\ ~fcCtx[c].done /\ ~fcCtx[c].hashed => fcCtx[c].refs # 1
    <2> SUFFICES ASSUME c \in DOMAIN fcCtx, FcLoopOf(c) # l, ~fcCtx[c].done, ~fcCtx[c].hashed
                 PROVE  fcCtx[c].refs # 1
      BY Zenon
    <2>1. FcUse(f, c) = 1 \/ FcLocks(l, c) = 1
      BY Zenon DEF FcAllForOne, FcReached
    <2>2. /\ Cardinality(FcUsers(c)) \in Nat /\ Cardinality(FcLockers(c)) \in Nat
          /\ FcDropped(c) \in Nat
          /\ Cardinality(FcUsers(c)) >= 1 \/ Cardinality(FcLockers(c)) >= 1
      BY <2>1, OwedParts, Zenon DEF FcInv
    <2>3. FcHeld(c) \in Nat /\ FcHeld(c) >= 1
      BY <2>2 DEF FcHeld
    <2>4. FcPosted("start", c) \in Nat /\ FcPosted("shutdown", c) \in Nat
      BY OwedParts, Zenon DEF FcInv
    <2>5. fcCtx[c].refs = FcHeld(c) + (FcPosted("start", c) + FcPosted("shutdown", c)) + 1
      BY Zenon DEF FcInv, FcAccounts, FcRefs, FcAlive, FcOwed
    <2> QED
      BY <2>3, <2>4, <2>5
  <1>4. FcHandlers'
    <2>1. ASSUME NEW m \in FcLoops, m # l PROVE FcHandler(m)'
      <3>1. FcUndisturbed(m)
        BY <1>r, <1>2, <1>3, <2>1 DEF FcUndisturbed, FcElsewhere, FcFetchKept, FcSafeFor
      <3> QED
        BY <3>1, HandlerKept, Zenon DEF FcInv, FcHandlers
    <2> QED
      BY <2>1, Zenon DEF FcHandlers
  <1>5. FcStore'
    <2>1. ASSUME NEW x \in DOMAIN fcCtx', x # c PROVE FcTidy(x)'
      <3>1. /\ x \in DOMAIN fcCtx /\ x \in FcFetches /\ FcLoopOf(x) \in FcLoops
            /\ FcTidy(x) /\ fcCtx'[x] = fcCtx[x] /\ FcKey(x) \in FcKeys /\ x # FcNone
        BY <1>1, <1>3, <2>1, LoopOf, FetchAssumption, Zenon DEF FcInv, FcStore
      <3>2. fcTable'[FcKey(x)] = x <=> fcTable[FcKey(x)] = x
        BY <2>1, <3>1, Zenon DEF FcOneChanged
      <3>3. FcSettled(x)
        BY <1>2, <2>1, <3>1, <3>2, Zenon DEF FcSettled, FcElsewhere, FcFetchKept
      <3> QED
        BY <3>1, <3>3, TidyKept, Zenon
    <2>2. ASSUME NEW k \in FcKeys, fcTable'[k] # FcNone
          PROVE  fcTable'[k] \in DOMAIN fcCtx' /\ FcKey(fcTable'[k]) = k
      <3>1. CASE fcTable'[k] = fcTable[k] /\ fcTable'[k] # c
        <4>1. fcTable[k] \in DOMAIN fcCtx /\ FcKey(fcTable[k]) = k
          BY <2>2, <3>1, Zenon DEF FcInv, FcStore
        <4> QED
          BY <1>1, <1>3, <3>1, <4>1, Zenon
      <3>2. CASE fcTable'[k] = fcTable[k] /\ fcTable'[k] = c
        <4>1. FcKey(c) = k
          BY <2>2, <3>2, Zenon DEF FcInv, FcStore
        <4> QED
          BY <3>2, <4>1, Zenon DEF FcOneChanged
      <3>3. CASE k = FcKey(c) /\ fcTable'[k] = c
        BY <3>3, Zenon DEF FcOneChanged
      <3> QED
        BY <2>2, <3>1, <3>2, <3>3, Zenon DEF FcOneChanged
    <2> QED
      BY <2>1, <2>2, Zenon DEF FcStore
  <1>6. FcLists'
    <2>1. ASSUME NEW g \in FcFetches, NEW x \in DOMAIN fcCtx', x # c
          PROVE  g \in fcCtx'[x].resps <=> FcWaitsFor(g, x)'
      <3>1. x \in DOMAIN fcCtx /\ x \in FcFetches /\ fcCtx'[x] = fcCtx[x]
        BY <1>3, <2>1, Zenon
      <3>2. g \in fcCtx[x].resps <=> FcWaitsFor(g, x)
        BY <3>1, Zenon DEF FcInv, FcLists, FcWaitsFor
      <3> QED
        BY <1>2, <2>1, <3>1, <3>2, Zenon
    <2>2. \A g \in FcFetches : fcFetch'[g].at \in {"waiting", "called"} => fcFetch'[g].ctx \in FcFetches
      BY <1>2, Zenon DEF FcFetchKept
    <2>3. \A g \in FcFetches : \A x \in DOMAIN fcCtx' : g \in fcCtx'[x].resps <=> FcWaitsFor(g, x)'
      BY <2>1, Zenon
    <2> QED
      BY <2>2, <2>3, Zenon DEF FcLists, FcWaitsFor
  <1>7. FcAccounts'
    <2> SUFFICES ASSUME NEW x \in FcFetches PROVE FcRefs(x)' = FcOwed(x)' + FcAlive(x)'
      BY Zenon DEF FcAccounts
    <2>1. CASE x = c
      <3>1. /\ FcOwed(c) \in Nat /\ FcOwed(c)' \in Nat
            /\ FcRefersTo(l, f, c) \in Nat /\ FcRefersTo(l, f, c)' \in Nat
            /\ FcOwed(c)' + FcRefersTo(l, f, c) = FcOwed(c) + FcRefersTo(l, f, c)'
        BY <1>2, OwedChange, Zenon
      <3>2. FcRefs(c) = FcOwed(c) + FcAlive(c) /\ FcAlive(c) \in Nat /\ FcAlive(c)' \in Nat
        BY Zenon DEF FcInv, FcAccounts, FcAlive
      <3> QED
        BY <2>1, <3>1, <3>2
    <2>2. CASE x # c
      <3>1. FcRefs(x)' = FcRefs(x) /\ FcAlive(x)' = FcAlive(x)
        BY <1>3, <2>2, Zenon DEF FcRefs, FcAlive
      <3> QED
        BY <1>2, <2>2, <3>1, Unmoved, Zenon DEF FcSameFor, FcElsewhere, FcInv
    <2> QED
      BY <2>1, <2>2, Zenon
  <1> QED
    BY <1>4, <1>5, <1>6, <1>7, Zenon

\* So does a handler or callback that drops its references to c and is over.
LEMMA DetachStep ==
  ASSUME FcCounting, FcInv, FcQueuesOK', NEW l \in FcLoops, NEW f \in FcFetches,
         NEW c \in DOMAIN fcCtx,
         NEW ctxs, NEW n \in Nat, FcOnly(ctxs, c), FcDetach(ctxs, c, n, {}), FcLetsGo(l, f, c, n),
         \A g \in FcFetches : g \in ctxs[c].resps <=> FcWaitsFor(g, c)'
  PROVE  /\ DOMAIN fcCtx' \subseteq FcFetches
         /\ \A x \in DOMAIN fcCtx' : fcCtx'[x] \in FcContexts
         /\ fcCount' \in [FcDomains -> Nat] /\ fcFailed' = fcFailed
         /\ FcHandlers' /\ FcStore' /\ FcLists' /\ FcAccounts' /\ FcCounters'
  <1> DEFINE r == ctxs[c]
  <1>1. DOMAIN fcCtx \subseteq FcFetches /\ c \in FcFetches /\ fcCtx[c] \in FcContexts
        /\ \A x \in DOMAIN fcCtx : fcCtx[x] \in FcContexts
    BY Zenon DEF FcInv, FetchTypeOK
  <1>2. /\ DOMAIN ctxs = DOMAIN fcCtx /\ ctxs[c] = r /\ r \in FcContexts
        /\ \A x \in DOMAIN fcCtx : x # c => ctxs[x] = fcCtx[x]
        /\ r.key = fcCtx[c].key /\ r.done = fcCtx[c].done /\ r.hashed = fcCtx[c].hashed
        /\ r.cloned = fcCtx[c].cloned /\ r.counted = fcCtx[c].counted /\ r.refs = fcCtx[c].refs
    BY Zenon DEF FcOnly
  <1>0. /\ UNCHANGED fcTable /\ FcElsewhere(l) /\ FcFetchKept(l)
        /\ fcLoop[l].at \notin {"finish", "add"} /\ fcLoop'[l].at = "idle" /\ ~fcLoop'[l].new
        /\ \A x \in FcFetches : x # c => FcSameFor(l, x)
        /\ \A g \in FcFetches : g # f => FcUse(g, c)' = FcUse(g, c)
        /\ FcRefersTo(l, f, c) = FcRefersTo(l, f, c)' + n
        /\ \A g \in FcFetches, x \in FcFetches : x # c => (FcWaitsFor(g, x)' <=> FcWaitsFor(g, x))
    BY Zenon DEF FcLetsGo
  <1> HIDE DEF r
  <1>3. /\ FcOwed(c) \in Nat /\ FcOwed(c)' \in Nat /\ FcOwed(c) = FcOwed(c)' + n
        /\ \A g \in FcFetches : FcUse(g, c)' = 1 => FcOwed(c)' >= 1
    <2>1. /\ FcOwed(c) \in Nat /\ FcOwed(c)' \in Nat
          /\ FcRefersTo(l, f, c) \in Nat /\ FcRefersTo(l, f, c)' \in Nat
          /\ FcOwed(c)' + FcRefersTo(l, f, c) = FcOwed(c) + FcRefersTo(l, f, c)'
          /\ \A g \in FcFetches : FcUse(g, c)' = 1 => FcOwed(c)' >= 1
      BY <1>0, <1>1, OwedChange, Zenon
    <2> QED
      BY <1>0, <2>1
  <1>4. fcCtx[c].refs = FcOwed(c) + (IF fcCtx[c].done THEN 0 ELSE 1)
    BY <1>1, Zenon DEF FcInv, FcAccounts, FcRefs, FcAlive
  <1>5. r.refs >= n /\ (r.refs = n => r.done /\ FcOwed(c)' = 0)
    BY <1>2, <1>3, <1>4, SMTT(30)
  <1>6. r.refs = n => r.resps = {}
    <2>1. \A g \in FcFetches : g \in r.resps => FcUse(g, c)' = 1
      BY <1>2, Zenon DEF FcWaitsFor, FcUse
    <2>2. r.resps \subseteq FcFetches
      BY <1>2, Zenon DEF FcContexts
    <2> QED
      BY <1>3, <1>5, <2>1, <2>2
  <1>8. /\ fcFailed' = fcFailed /\ FcCounters' /\ fcCount' \in [FcDomains -> Nat]
        /\ \A x \in DOMAIN fcCtx' : fcCtx'[x] \in FcContexts
        /\ FcLess(ctxs, c, n)
    BY <1>1, <1>2, <1>5, <1>6, Detached, Zenon
  <1>9. /\ DOMAIN fcCtx' \subseteq DOMAIN fcCtx
        /\ \A x \in DOMAIN fcCtx : x # c => x \in DOMAIN fcCtx' /\ fcCtx'[x] = fcCtx[x]
        /\ c \notin DOMAIN fcCtx' => fcCtx[c].done
        /\ FcRefs(c)' = fcCtx[c].refs - n
        /\ FcAlive(c)' = IF fcCtx[c].done THEN 0 ELSE 1
    BY <1>2, <1>5, <1>8, Zenon DEF FcLess
  <1>10. c \in DOMAIN fcCtx' =>
           /\ fcCtx'[c].key = fcCtx[c].key /\ fcCtx'[c].done = fcCtx[c].done
           /\ fcCtx'[c].hashed = fcCtx[c].hashed /\ fcCtx'[c].cloned = fcCtx[c].cloned
           /\ fcCtx'[c].resps = r.resps
    <2>1. c \in DOMAIN fcCtx' => fcCtx'[c] = [r EXCEPT !.refs = r.refs - n]
      BY <1>2, <1>8, Zenon DEF FcLess
    <2> QED
      BY <1>2, <2>1, Zenon DEF FcContexts
  <1>11. FcTidy(c) /\ (fcTable[FcKey(c)] = c => ~fcCtx[c].done)
    BY Zenon DEF FcInv, FcStore, FcTidy
  <1>12. FcOneChanged(c) /\ FcSafeFor(l, c) /\ FcAllForOne(l, f, c) /\ FcHandler(l)'
    <2>1. FcOneChanged(c)
      BY <1>0, <1>1, <1>9, <1>11, Zenon DEF FcOneChanged
    <2>2. FcSafeFor(l, c)
      BY <1>9, <1>10, Zenon DEF FcSafeFor
    <2>3. FcAllForOne(l, f, c)
      BY <1>0, Zenon DEF FcAllForOne, FcLetsGo
    <2>4. FcHandler(l)'
      BY <1>0, Zenon DEF FcHandler
    <2> QED
      BY <2>1, <2>2, <2>3, <2>4, Zenon
  <1>13. c \in DOMAIN fcCtx' => FcTidy(c)'
    <2> SUFFICES ASSUME c \in DOMAIN fcCtx' PROVE FcTidy(c)'
      BY Zenon
    <2>1. FcLoopOf(c) \in FcLoops
      BY <1>1, LoopOf, Zenon
    <2>2. FcSettled(c)
      BY <1>0, <1>1, <1>10, <2>1, Zenon DEF FcSettled, FcElsewhere, FcFetchKept
    <2> QED
      BY <1>11, <2>2, TidyKept, Zenon
  <1>14. c \in DOMAIN fcCtx' => \A g \in FcFetches : g \in fcCtx'[c].resps <=> FcWaitsFor(g, c)'
    BY <1>2, <1>10, Zenon
  <1>15. /\ FcRefs(c)' \in Nat
         /\ FcRefs(c)' + FcRefersTo(l, f, c) + FcAlive(c) = FcRefs(c) + FcRefersTo(l, f, c)' + FcAlive(c)'
    <2>1. FcRefersTo(l, f, c) \in Nat /\ FcRefersTo(l, f, c)' \in Nat
      BY <1>0, <1>1, OwedChange, Zenon
    <2>2. FcRefs(c) = fcCtx[c].refs /\ FcAlive(c) = IF fcCtx[c].done THEN 0 ELSE 1
      BY Zenon DEF FcRefs, FcAlive
    <2> QED
      BY <1>0, <1>2, <1>3, <1>4, <1>5, <1>9, <2>1, <2>2
  <1>16. FcHandlers' /\ FcStore' /\ FcLists' /\ FcAccounts'
    BY <1>1, <1>12, <1>13, <1>14, <1>15, ChangeStep, Zenon
  <1> QED
    BY <1>1, <1>8, <1>9, <1>16, Zenon

-----------------------------------------------------------------------------
(* Steps that several actions share *)

\* Nothing changes for the fetches.
LEMMA FetchSame ==
  ASSUME FcInv, NEW l \in FcLoops, fcFetch' = fcFetch
  PROVE  /\ FcFetchKept(l)
         /\ \A g, x : FcUse(g, x)' = FcUse(g, x) /\ (FcWaitsFor(g, x)' <=> FcWaitsFor(g, x))
  BY Zenon DEF FcFetchKept, FcUse, FcWaitsFor, FcInv, FcLists

\* A handler that is over, and drops the references it held.
LEMMA LoopDetach ==
  ASSUME FcCounting, FcInv, NEW l \in FcLoops, NEW c, c = fcLoop[l].ctx, NEW n \in Nat,
         NEW ctxs,
         \/ fcLoop[l].at = "lock" /\ n = 1
         \/ fcLoop[l].at = "spill" /\ n = fcLoop[l].drop,
         FcOnly(ctxs, c), ctxs[c].resps = fcCtx[c].resps,
         FcDetach(ctxs, c, n, {}), FcGoto(l, FcIdle), UNCHANGED <<fcTable, fcJobs>>,
         FcFetchKept(l), fcFetch' \in [FcFetches -> FcFetchSet],
         \A g \in FcFetches, x \in FcFetches :
           FcUse(g, x)' = FcUse(g, x) /\ (FcWaitsFor(g, x)' <=> FcWaitsFor(g, x)),
         \A g \in FcFetches : fcFetch'[g].at = "called" <=> fcFetch[g].at = "called",
         fcRes' \in [exiting : BOOLEAN, shutdown : {"no", "exiting", "told", "over"},
                    spillat : Nat, timer : FcLoops \cup {FcNone}]
  PROVE  FcInv'
  <1>1. /\ fcLoop \in [FcLoops -> FcPlaces] /\ fcJobs \in [FcLoops -> Seq(FcJobSet)]
        /\ FcHandler(l) /\ FcAccounts /\ FetchTypeOK
    BY Zenon DEF FcInv, FetchTypeOK, FcJobSet, FcHandlers
  <1>2. FcIdle \in FcPlaces /\ FcIdle.at = "idle" /\ ~FcIdle.new
    BY DEF FcIdle, FcPlaces
  <1>3. /\ fcLoop' \in [FcLoops -> FcPlaces] /\ fcLoop'[l] = FcIdle
        /\ \A m \in FcLoops : m # l => fcLoop'[m] = fcLoop[m]
    BY <1>1, <1>2, Zenon DEF FcGoto
  <1>4. c \in FcFetches /\ (fcLoop[l].at = "spill" => FcLoopOf(c) = l /\ n # 0)
    BY <1>1, Zenon DEF FcHandler
  <1>5. FcQueuesOK' /\ FcElsewhere(l)
    BY <1>1, <1>3, Zenon DEF FcQueuesOK, FcElsewhere
  <1>6. /\ \A x \in FcFetches : x # c => FcLocks(l, x) = 0 /\ FcDrops(l, x) = 0
        /\ \A x \in FcFetches : FcLocks(l, x)' = 0 /\ FcDrops(l, x)' = 0
        /\ \A g \in {"start", "shutdown", "call"}, x \in FcFetches : FcPosted(g, x)' = FcPosted(g, x)
    BY <1>2, <1>3, Zenon DEF FcLocks, FcDrops, FcPosted
  <1>7. /\ fcLoop[l].at = "lock" => FcLocks(l, c) = 1 /\ FcDrops(l, c) = 0
        /\ fcLoop[l].at = "spill" => FcLocks(l, c) = 0 /\ FcDrops(l, c) = n /\ FcDropped(c) = n
    BY <1>4, Zenon DEF FcLocks, FcDrops, FcDropped
  <1>8. c \in DOMAIN fcCtx
    <2>1. FcLocks(l, c) = 1 \/ FcDropped(c) # 0
      BY <1>4, <1>7, Zenon
    <2> QED
      BY <1>1, <1>4, <2>1, Referenced, Zenon
  <1>9. \A x \in FcFetches : x # c => FcSameFor(l, x)
    BY <1>6, Zenon DEF FcSameFor
  <1>10. FcRefersTo(l, c, c) = FcRefersTo(l, c, c)' + n
    <2>1. /\ FcUse(c, c) \in Nat /\ FcUse(c, c)' = FcUse(c, c)
          /\ FcLocks(l, c) + FcDrops(l, c) = n /\ FcLocks(l, c)' = 0 /\ FcDrops(l, c)' = 0
          /\ FcLocks(l, c) \in Nat /\ FcDrops(l, c) \in Nat
      BY <1>1, <1>4, <1>6, <1>7, PartsNat
    <2>2. /\ FcPosted("start", c)' = FcPosted("start", c) /\ FcPosted("start", c) \in Nat
          /\ FcPosted("shutdown", c)' = FcPosted("shutdown", c) /\ FcPosted("shutdown", c) \in Nat
      BY <1>1, <1>4, <1>6, PostedNat, Zenon
    <2> QED
      BY <2>1, <2>2, SMTT(30) DEF FcRefersTo
  <1>11. \A g \in FcFetches : g \in ctxs[c].resps <=> FcWaitsFor(g, c)'
    BY <1>4, <1>8 DEF FcInv, FcLists, FcWaitsFor
  <1>12. /\ DOMAIN fcCtx' \subseteq FcFetches
         /\ \A x \in DOMAIN fcCtx' : fcCtx'[x] \in FcContexts
         /\ fcCount' \in [FcDomains -> Nat] /\ fcFailed' = fcFailed
         /\ FcHandlers' /\ FcStore' /\ FcLists' /\ FcAccounts' /\ FcCounters'
    <2>1. fcLoop[l].at \notin {"finish", "add"} /\ fcLoop'[l].at = "idle" /\ ~fcLoop'[l].new
      BY <1>2, <1>3, Zenon
    <2>2. \A g \in FcFetches : g # c => FcUse(g, c)' = FcUse(g, c)
      BY <1>4, Zenon
    <2>3. \A g \in FcFetches, x \in FcFetches : x # c => (FcWaitsFor(g, x)' <=> FcWaitsFor(g, x))
      BY Zenon
    <2>4. UNCHANGED fcTable
      BY Zenon
    <2>6. FcReached(l, c, c)
      BY <1>4, <1>7, Zenon DEF FcReached
    <2>5. FcLetsGo(l, c, c, n)
      BY <2>6, <1>5, <1>9, <1>10, <2>1, <2>2, <2>3, <2>4, ZenonT(30) DEF FcLetsGo
    <2> QED
      BY <1>4, <1>5, <1>8, <1>11, <2>5, DetachStep, Zenon
  <1>13. FcCallbacks'
    BY <1>6, Zenon DEF FcCallbacks, FcInv
  <1>14. FetchTypeOK'
    BY <1>1, <1>3, <1>12, Zenon DEF FetchTypeOK, FcInv, FcFetchSet, FcJobSet
  <1> QED
    BY <1>12, <1>13, <1>14, Zenon DEF FcInv, FcAsserts

\* A fetch that joins a context waits on it.
LEMMA WaitsOn ==
  ASSUME fcFetch \in [FcFetches -> FcFetchSet], NEW f \in FcFetches, NEW c \in FcFetches,
         fcFetch' = FcWaitsOn(f, c)
  PROVE  /\ fcFetch' \in [FcFetches -> FcFetchSet]
         /\ fcFetch'[f].at = "waiting" /\ fcFetch'[f].ctx = c
         /\ \A g \in FcFetches : g # f => fcFetch'[g] = fcFetch[g]
  <1>1. PICK r : r = [fcFetch[f] EXCEPT !.at = "waiting", !.ctx = c]
    BY Zenon
  <1>2. r \in FcFetchSet /\ r.at = "waiting" /\ r.ctx = c
    BY <1>1, Zenon DEF FcFetchSet
  <1>3. fcFetch' = [fcFetch EXCEPT ![f] = r]
    BY <1>1, Zenon DEF FcWaitsOn
  <1> QED
    BY <1>2, <1>3, Zenon

\* A handler goes from a place to another where it refers to no context.
LEMMA QuietInv ==
  ASSUME FcCounting, FcInv, NEW l \in FcLoops, UNCHANGED <<fcCtx, fcTable, fcCount,
         fcJobs>>,
         NEW pc \in FcPlaces, FcGoto(l, pc), fcLoop[l].at \in FcNowhere, pc.at \in FcNowhere,
         FcHandler(l)', FcFetchKept(l), fcFetch' \in [FcFetches -> FcFetchSet],
         \A g \in FcFetches : fcFetch'[g].at \in {"waiting", "called"} \/ fcFetch[g].at \in {"waiting", "called"}
                              => fcFetch'[g] = fcFetch[g],
         fcRes' \in FcResSet, FcAsserts'
  PROVE  FcInv'
  <1>1. fcLoop \in [FcLoops -> FcPlaces] /\ fcJobs \in [FcLoops -> Seq(FcJobSet)] /\ FetchTypeOK
        /\ DOMAIN fcCtx \subseteq FcFetches
    BY Zenon DEF FcInv, FetchTypeOK, FcJobSet
  <1>2. /\ fcLoop' \in [FcLoops -> FcPlaces] /\ fcLoop'[l] = pc
        /\ \A m \in FcLoops : m # l => fcLoop'[m] = fcLoop[m]
    BY <1>1, Zenon DEF FcGoto
  <1>3. FcQueuesOK' /\ FcElsewhere(l)
    BY <1>1, <1>2, Zenon DEF FcQueuesOK, FcElsewhere
  <1>4. FetchTypeOK'
    BY <1>1, <1>2, Zenon DEF FetchTypeOK, FcFetchSet, FcResSet
  <1>5. FcHandlers'
    <2>1. ASSUME NEW m \in FcLoops, m # l PROVE FcHandler(m)'
      <3>1. FcUndisturbed(m)
        BY <1>2, <2>1, Zenon DEF FcUndisturbed, FcFetchKept
      <3> QED
        BY <3>1, HandlerKept, Zenon DEF FcInv, FcHandlers
    <2> QED
      BY <2>1, Zenon DEF FcHandlers
  <1>6. FcStore'
    <2>1. ASSUME NEW c \in DOMAIN fcCtx PROVE FcTidy(c)'
      <3>1. c \in FcFetches /\ FcLoopOf(c) \in FcLoops /\ FcTidy(c)
        BY <1>1, LoopOf, Zenon DEF FcInv, FcStore
      <3>2. FcSettled(c)
        BY <1>2, <3>1, Zenon DEF FcSettled, FcFetchKept, FcNowhere
      <3> QED
        BY <3>1, <3>2, TidyKept, Zenon
    <2> QED
      BY <2>1, Zenon DEF FcStore, FcInv
  <1>7. \A g \in FcFetches, x \in FcFetches :
          FcUse(g, x)' = FcUse(g, x) /\ (FcWaitsFor(g, x)' <=> FcWaitsFor(g, x))
    BY Zenon DEF FcUse, FcWaitsFor
  <1>8. FcLists'
    <2>1. \A g \in FcFetches : \A x \in DOMAIN fcCtx : g \in fcCtx[x].resps <=> FcWaitsFor(g, x)
      BY Zenon DEF FcInv, FcLists, FcWaitsFor
    <2>2. \A g \in FcFetches : \A x \in DOMAIN fcCtx : g \in fcCtx'[x].resps <=> FcWaitsFor(g, x)'
      BY <1>1, <1>7, <2>1, Zenon
    <2> QED
      BY <2>2, Zenon DEF FcLists, FcWaitsFor, FcFetchKept
  <1>9. FcAccounts'
    <2> SUFFICES ASSUME NEW x \in FcFetches PROVE FcRefs(x)' = FcOwed(x)' + FcAlive(x)'
      BY Zenon DEF FcAccounts
    <2>1. /\ FcLocks(l, x)' = FcLocks(l, x) /\ FcDrops(l, x)' = FcDrops(l, x)
          /\ \A j : FcPosted(j, x)' = FcPosted(j, x)
          /\ FcRefs(x)' = FcRefs(x) /\ FcAlive(x)' = FcAlive(x)
      BY <1>2, Zenon DEF FcLocks, FcDrops, FcPosted, FcRefs, FcAlive, FcNowhere
    <2> QED
      BY <1>2, <1>3, <1>7, <2>1, Unmoved DEF FcInv
  <1>10. FcCallbacks'
    <2>1. \A j, x : FcPosted(j, x)' = FcPosted(j, x)
      BY Zenon DEF FcPosted
    <2>2. \A g \in FcFetches : fcFetch'[g].at = "called" <=> fcFetch[g].at = "called"
      BY Zenon
    <2> QED
      BY <2>1, <2>2, Zenon DEF FcInv, FcCallbacks
  <1>11. FcCounters'
    BY CountersKept, Zenon DEF FcInv
  <1> QED
    BY <1>4, <1>5, <1>6, <1>8, <1>9, <1>10, <1>11, Zenon DEF FcInv
=============================================================================
