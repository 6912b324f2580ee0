----------------------------- MODULE FetchProofs ----------------------------
(***************************************************************************)
(* Theorems about Fetch, for any fetches, loops, keys, zones and limits:   *)
(* the facts on counting that FetchAccounts starts from, the laws that the *)
(* lemmas of FetchCreation and FetchEnding assume (one lemma per action),  *)
(* FcInv as an inductive invariant, and FcOneCallback and FcBooks from it. *)
(***************************************************************************)
EXTENDS FetchAccounts, FetchCreation, FetchEnding, FiniteSetTheorems

-----------------------------------------------------------------------------
(* Counting: sets that differ in one element, and jobs in a queue *)

\* Two subsets of a finite set that differ at most in e.
LEMMA CardChange ==
  ASSUME NEW S, IsFiniteSet(S), NEW A \in SUBSET S, NEW B \in SUBSET S, NEW e,
         \A y \in S : y # e => (y \in A <=> y \in B)
  PROVE  /\ Cardinality(A) \in Nat /\ Cardinality(B) \in Nat
         /\ Cardinality(B) + (IF e \in A THEN 1 ELSE 0)
              = Cardinality(A) + (IF e \in B THEN 1 ELSE 0)
  <1>1. IsFiniteSet(A) /\ IsFiniteSet(B)
    BY FS_Subset
  <1>2. Cardinality(A) \in Nat /\ Cardinality(B) \in Nat
    BY <1>1, FS_CardinalityType
  <1>3. CASE e \in A <=> e \in B
    <2>1. A = B
      BY <1>3
    <2> QED
      BY <1>2, <1>3, <2>1
  <1>4. CASE e \in A /\ e \notin B
    <2>1. B = A \ {e}
      BY <1>4
    <2> QED
      BY <1>1, <1>2, <1>4, <2>1, FS_RemoveElement
  <1>5. CASE e \notin A /\ e \in B
    <2>1. B = A \cup {e}
      BY <1>5
    <2> QED
      BY <1>1, <1>2, <1>5, <2>1, FS_AddElement
  <1> QED
    BY <1>3, <1>4, <1>5

\* A job is posted a natural number of times, and never if it is not in the queue.
LEMMA OccursNat ==
  ASSUME NEW T, NEW q \in Seq(T), NEW e
  PROVE  /\ FcOccurs(q, e) \in Nat
         /\ FcOccurs(q, e) = 0 <=> \A i \in 1 .. Len(q) : q[i] # e
  <1> DEFINE A == {i \in 1 .. Len(q) : q[i] = e}
  <1>1. Len(q) \in Nat
    OBVIOUS
  <1>2. IsFiniteSet(1 .. Len(q))
    BY <1>1, FS_Interval
  <1>3. IsFiniteSet(A)
    BY <1>2, FS_Subset
  <1>4. Cardinality(A) \in Nat /\ (Cardinality(A) = 0 <=> A = {})
    BY <1>3, FS_CardinalityType, FS_EmptySet, Zenon
  <1> QED
    BY <1>4 DEF FcOccurs

\* Two queues one after the other.
LEMMA OccursConcat ==
  ASSUME NEW T, NEW q \in Seq(T), NEW r \in Seq(T), NEW e
  PROVE  FcOccurs(q \o r, e) = FcOccurs(q, e) + FcOccurs(r, e)
  <1> DEFINE n == Len(q)
             A == {i \in 1 .. Len(q) : q[i] = e}
             B == {i \in 1 .. Len(r) : r[i] = e}
             C == {i \in 1 .. Len(q \o r) : (q \o r)[i] = e}
             D == C \ A
             g == [i \in B |-> n + i]
  <1>1. n \in Nat /\ Len(r) \in Nat /\ Len(q \o r) = n + Len(r)
    BY SMTT(30)
  <1>2. /\ \A i \in 1 .. Len(q) : (q \o r)[i] = q[i]
        /\ \A i \in 1 .. Len(r) : (q \o r)[n + i] = r[i]
    OBVIOUS
  <1> HIDE DEF n
  <1>3. A \subseteq C
    BY <1>1, <1>2 DEF n
  <1>4. D = {i \in n + 1 .. n + Len(r) : (q \o r)[i] = e}
    BY <1>1, <1>2, SMTT(30) DEF n
  <1>5. g \in Bijection(B, D)
    <2>1. g \in [B -> D]
      BY <1>1, <1>2, <1>4
    <2>2. \A i, j \in B : g[i] = g[j] => i = j
      BY <1>1
    <2>3. ASSUME NEW d \in D PROVE \E i \in B : g[i] = d
      <3>1. d - n \in 1 .. Len(r) /\ n + (d - n) = d /\ d \in n + 1 .. n + Len(r)
        BY <1>1, <1>4
      <3>2. d - n \in B
        BY <1>2, <1>4, <3>1
      <3> QED
        BY <3>1, <3>2
    <2> HIDE DEF g
    <2>4. DOMAIN g = B
      BY <2>1
    <2> QED
      BY <2>1, <2>2, <2>3, <2>4 DEF Bijection, Injection, Surjection, IsInjective
  <1>6. IsFiniteSet(A) /\ IsFiniteSet(B)
    <2>1. IsFiniteSet(1 .. Len(q)) /\ IsFiniteSet(1 .. Len(r))
      BY <1>1, FS_Interval DEF n
    <2> QED
      BY <2>1, FS_Subset
  <1>7. IsFiniteSet(D) /\ Cardinality(D) = Cardinality(B)
    BY <1>5, <1>6, FS_Bijection, ZenonT(30) DEF ExistsBijection
  <1>8. C = A \cup D /\ A \cap D = {}
    BY <1>3
  <1>9. Cardinality(A \cup D) = Cardinality(A) + Cardinality(D) - 0
    <2>1. Cardinality(A \cup D) = Cardinality(A) + Cardinality(D) - Cardinality(A \cap D)
      BY <1>6, <1>7, FS_Union, Zenon
    <2> QED
      BY <1>8, <2>1, FS_EmptySet, Zenon
  <1>10. Cardinality(A) \in Nat /\ Cardinality(B) \in Nat
    BY <1>6, FS_CardinalityType
  <1>11. FcOccurs(q, e) = Cardinality(A) /\ FcOccurs(r, e) = Cardinality(B)
    BY DEF FcOccurs
  <1>12. FcOccurs(q \o r, e) = Cardinality(C)
    BY DEF FcOccurs
  <1> HIDE DEF A, B, C, D
  <1> QED
    BY <1>7, <1>8, <1>9, <1>10, <1>11, <1>12

\* A queue of one job.
LEMMA OccursOne ==
  ASSUME NEW x, NEW e
  PROVE  FcOccurs(<<x>>, e) = IF x = e THEN 1 ELSE 0
  <1>1. {i \in 1 .. Len(<<x>>) : <<x>>[i] = e} = IF x = e THEN {1} ELSE {}
    OBVIOUS
  <1> QED
    BY <1>1, FS_Singleton, FS_EmptySet, Zenon DEF FcOccurs

\* A callback for each member of a set.
LEMMA OccursPosts ==
  ASSUME NEW S, IsFiniteSet(S), NEW job
  PROVE  /\ FcPosts(job, S) \in Seq([job : {job}, of : S])
         /\ \A j, x : FcOccurs(FcPosts(job, S), [job |-> j, of |-> x])
                     = IF j = job /\ x \in S THEN 1 ELSE 0
  <1> DEFINE n == Cardinality(S)
             b == CHOOSE f \in Bijection(1 .. n, S) : TRUE
             r == [i \in 1 .. n |-> [job |-> job, of |-> b[i]]]
  <1>1. n \in Nat /\ Bijection(1 .. n, S) # {}
    BY FS_CardinalityType DEF ExistsBijection
  <1>2. b \in Bijection(1 .. n, S)
    BY <1>1
  <1>3. FcPosts(job, S) = r
    BY DEF FcPosts
  <1> HIDE DEF n, b
  <1>4. /\ b \in [1 .. n -> S] /\ \A i, j \in 1 .. n : b[i] = b[j] => i = j
        /\ \A x \in S : \E i \in 1 .. n : b[i] = x
    BY <1>2 DEF Bijection, Injection, Surjection, IsInjective
  <1>5. r \in Seq([job : {job}, of : S]) /\ Len(r) = n
    BY <1>1, <1>4
  <1>6. ASSUME NEW j, NEW x
        PROVE  FcOccurs(r, [job |-> j, of |-> x]) = IF j = job /\ x \in S THEN 1 ELSE 0
    <2> DEFINE A == {i \in 1 .. Len(r) : r[i] = [job |-> j, of |-> x]}
    <2>1. \A i \in 1 .. n : r[i] = [job |-> j, of |-> x] <=> job = j /\ b[i] = x
      OBVIOUS
    <2>2. CASE j = job /\ x \in S
      <3>1. PICK i \in 1 .. n : b[i] = x
        BY <1>4, <2>2
      <3>2. A = {i}
        BY <1>4, <1>5, <2>1, <2>2, <3>1, Zenon
      <3> QED
        BY <2>2, <3>2, FS_Singleton, Zenon DEF FcOccurs
    <2>3. CASE ~(j = job /\ x \in S)
      <3>0. \A i \in 1 .. n : b[i] \in S
        BY <1>4
      <3>1. A = {}
        BY <3>0, <1>5, <2>1, <2>3, Zenon
      <3> QED
        BY <2>3, <3>1, FS_EmptySet, Zenon DEF FcOccurs
    <2> QED
      BY <2>2, <2>3
  <1> QED
    BY <1>3, <1>5, <1>6

\* The facts on counting.
LEMMA Counting == FcCounting
  <1>1. CardChangeLaw
    BY CardChange DEF CardChangeLaw
  <1>2. OccursNatLaw
    BY OccursNat, Zenon DEF OccursNatLaw
  <1>3. OccursConcatLaw
    BY OccursConcat, Zenon DEF OccursConcatLaw
  <1>4. OccursOneLaw
    BY OccursOne, Zenon DEF OccursOneLaw
  <1>5. OccursPostsLaw
    BY OccursPosts, Zenon DEF OccursPostsLaw
  <1>6. FiniteLaw
    BY FS_Subset, FS_CardinalityType, FS_EmptySet, Zenon DEF FiniteLaw
  <1> QED
    BY <1>1, <1>2, <1>3, <1>4, <1>5, <1>6, Zenon DEF FcCounting

\* The laws that the lemmas on the actions assume.
LEMMA Laws == FcLaws
  <1>1. OccursNatLaw
    BY OccursNat, Zenon DEF OccursNatLaw
  <1>2. LoopOfLaw
    BY LoopOf, Zenon DEF LoopOfLaw
  <1>3. DropNatLaw
    BY DropNat, Zenon DEF DropNatLaw
  <1>4. PartsNatLaw
    BY PartsNat, Zenon DEF PartsNatLaw
  <1>5. PostedNatLaw
    BY Counting, PostedNat, Zenon DEF PostedNatLaw
  <1>6. OwedPartsLaw
    BY Counting, OwedParts, Zenon DEF OwedPartsLaw
  <1>7. ReferencedLaw
    BY Counting, Referenced, Zenon DEF ReferencedLaw
  <1>8. PostedAppendLaw
    BY Counting, PostedAppend DEF PostedAppendLaw
  <1>9. PostedTailLaw
    BY Counting, PostedTail, Zenon DEF PostedTailLaw
  <1>10. PostedManyLaw
    BY Counting, PostedMany, Zenon DEF PostedManyLaw
  <1>11. HandlerKeptLaw
    BY HandlerKept, Zenon DEF HandlerKeptLaw
  <1>12. TidyKeptLaw
    BY TidyKept, Zenon DEF TidyKeptLaw
  <1>13. CountersKeptLaw
    BY CountersKept, Zenon DEF CountersKeptLaw
  <1>14. CountersStepLaw
    BY Counting, CountersStep, Zenon DEF CountersStepLaw
  <1>15. DetachedLaw
    BY Counting, Detached, Zenon DEF DetachedLaw
  <1>16. OwedChangeLaw
    BY Counting, OwedChange, Zenon DEF OwedChangeLaw
  <1>17. ChangeStepLaw
    BY Counting, ChangeStep, Zenon DEF ChangeStepLaw
  <1>18. DetachStepLaw
    BY Counting, DetachStep, Zenon DEF DetachStepLaw
  <1>19. FetchSameLaw
    BY FetchSame, Zenon DEF FetchSameLaw
  <1>20. LoopDetachLaw
    BY Counting, LoopDetach, Zenon DEF LoopDetachLaw
  <1>21. WaitsOnLaw
    BY WaitsOn, Zenon DEF WaitsOnLaw
  <1>22. QuietInvLaw
    BY Counting, QuietInv, Zenon DEF QuietInvLaw
  <1>23. FiniteLaw
    BY Counting, Zenon DEF FcCounting
  <1> QED
    BY <1>1, <1>2, <1>3, <1>4, <1>5, <1>6, <1>7, <1>8, <1>9, <1>10, <1>11, <1>12, <1>13,
       <1>14, <1>15, <1>16, <1>17, <1>18, <1>19, <1>20, <1>21, <1>22, <1>23, Zenon
      DEF FcLaws

-----------------------------------------------------------------------------

\* Nothing is under way yet.
LEMMA FetchInitInv == FetchInit => FcInv
  <1> SUFFICES ASSUME FetchInit PROVE FcInv
    BY SMTT(30)
  <1>0. /\ DOMAIN fcCtx = {} /\ fcTable = [k \in FcKeys |-> FcNone]
        /\ fcCount = [d \in FcDomains |-> 0]
        /\ fcFetch = [f \in FcFetches |-> [at |-> "new", ctx |-> FcNone, result |-> FcNone]]
        /\ fcLoop = [l \in FcLoops |-> FcIdle] /\ fcJobs = [l \in FcLoops |-> <<>>]
        /\ fcFailed = {}
    BY DEF FetchInit
  <1>1. /\ FcIdle \in FcPlaces /\ FcIdle.at = "idle" /\ ~FcIdle.new
    BY DEF FcIdle, FcPlaces
  <1>2. FetchTypeOK
    <2>1. fcJobs \in [FcLoops -> Seq([job : {"start", "shutdown", "call"}, of : FcFetches])]
      BY <1>0
    <2>2. fcRes \in [exiting : BOOLEAN, shutdown : {"no", "exiting", "told", "over"},
                spillat : Nat, timer : FcLoops \cup {FcNone}]
      BY FetchAssumption DEF FetchInit
    <2>3. fcLoop \in [FcLoops -> FcPlaces]
      BY <1>0, <1>1, SMTT(30)
    <2> QED
      BY <1>0, <2>1, <2>2, <2>3 DEF FetchTypeOK
  <1>3. FcHandlers
    BY <1>0, <1>1 DEF FcHandlers, FcHandler
  <1>4. FcStore /\ FcLists /\ FcAsserts
    BY <1>0 DEF FcStore, FcLists, FcAsserts
  <1>5. \A j, x : x \in FcFetches => FcPosted(j, x) = 0
    <2> SUFFICES ASSUME NEW j, NEW x \in FcFetches PROVE FcPosted(j, x) = 0
      OBVIOUS
    <2>1. fcJobs[FcLoopOf(x)] = <<>>
      BY <1>0, LoopOf
    <2>2. {i \in 1 .. Len(<<>>) : <<>>[i] = [job |-> j, of |-> x]} = {}
      OBVIOUS
    <2>3. FcOccurs(<<>>, [job |-> j, of |-> x]) = 0
      BY <2>2, FS_EmptySet DEF FcOccurs
    <2> QED
      BY <2>1, <2>3 DEF FcPosted
  <1>6. FcCallbacks
    BY <1>0, <1>5 DEF FcCallbacks
  <1>7. FcAccounts
    <2> SUFFICES ASSUME NEW x \in FcFetches PROVE FcRefs(x) = FcOwed(x) + FcAlive(x)
      BY DEF FcAccounts
    <2>1. FcUsers(x) = {} /\ FcLockers(x) = {}
      BY <1>0, <1>1 DEF FcUsers, FcLockers
    <2>2. FcDropped(x) = 0
      BY <1>0, <1>1, LoopOf DEF FcDropped
    <2>3. FcHeld(x) = 0
      BY <2>1, <2>2, FS_EmptySet DEF FcHeld
    <2>4. FcOwed(x) = 0
      BY <1>5, <2>3 DEF FcOwed
    <2> QED
      BY <1>0, <2>4 DEF FcRefs, FcAlive
  <1>8. FcCounters
    <2> SUFFICES ASSUME NEW d \in FcDomains
                 PROVE  fcCount[d] = Cardinality(FcCountedIn(d)) /\ fcCount[d] <= FcZspill
      BY DEF FcCounters, FcCountedIn
    <2>1. FcCountedIn(d) = {}
      BY <1>0 DEF FcCountedIn
    <2> QED
      BY <1>0, <2>1, FS_EmptySet, FetchAssumption
  <1> QED
    BY <1>2, <1>3, <1>4, <1>6, <1>7, <1>8 DEF FcInv

\* Every step keeps it.
LEMMA FetchStepInv == FcInv /\ [FetchNext]_fcvars => FcInv'
  <1> SUFFICES ASSUME FcInv, [FetchNext]_fcvars PROVE FcInv'
    OBVIOUS
  <1>1. ASSUME NEW l \in FcLoops, FcRun(l) \/ FcTick(l)
        PROVE  FcInv'
    BY <1>1, Laws, UnsharedInv, FindInv, AddInv, LockInv, FinishInv, SendInv, SpillatInv, StartInv,
       ShutdownInv, CallbackInv, TimerInv DEF FcRun
  <1>2. ASSUME NEW f \in FcFetches, FcCaller(f)
        PROVE  FcInv'
    BY <1>2, Laws, CreatefetchInv, CancelfetchInv DEF FcCaller
  <1>3. ASSUME NEW c \in DOMAIN fcCtx, FcEnds(c) \/ FcReferral(c)
        PROVE  FcInv'
    BY <1>3, Laws, AnswerInv, GiveUpInv, ReferralInv DEF FcEnds
  <1>4. CASE FcShuts
    BY <1>4, Laws, ExitInv, TellAllInv DEF FcShuts
  <1>5. CASE UNCHANGED fcvars
    <2>1. UNCHANGED <<fcCtx, fcTable, fcCount, fcFetch, fcLoop, fcJobs, fcFailed>> /\ fcRes' = fcRes
      BY <1>5, SMTT(30) DEF fcvars
    <2>2. fcRes' \in FcResSet
      BY <2>1 DEF FcInv, FetchTypeOK, FcResSet
    <2> QED
      BY <2>1, <2>2, Laws, ResInv
  <1> QED
    BY <1>1, <1>2, <1>3, <1>4, <1>5 DEF FetchNext

\* FcInv holds in every state.
LEMMA FetchInvariant == FetchSpec => []FcInv
  BY FetchInitInv, FetchStepInv, PTL DEF FetchSpec

\* A fetch that was accepted is in the list of exactly the context it waits on, or
\* has exactly one callback posted, on its own loop.
LEMMA InvOneCallback == FcInv => FcOneCallback
  <1> SUFFICES ASSUME FcInv PROVE FcOneCallback
    OBVIOUS
  <1>1. ASSUME NEW f \in FcFetches
        PROVE  {c \in DOMAIN fcCtx : f \in fcCtx[c].resps}
                 = (IF fcFetch[f].at = "waiting" THEN {fcFetch[f].ctx} ELSE {})
    <2>1. \A c \in DOMAIN fcCtx : f \in fcCtx[c].resps <=> fcFetch[f].at = "waiting" /\ fcFetch[f].ctx = c
      BY DEF FcInv, FcLists
    <2>2. fcFetch[f].at = "waiting" => fcFetch[f].ctx \in DOMAIN fcCtx
      <3>1. fcFetch[f].at = "waiting" => fcFetch[f].ctx \in FcFetches
        BY DEF FcInv, FcLists
      <3> QED
        BY <3>1, Counting, Referenced, SMTT(30) DEF FcInv, FcUse
    <2> QED
      BY <2>1, <2>2, SMTT(30)
  <1> QED
    BY <1>1 DEF FcInv, FcCallbacks, FcOneCallback

\* The accounts give the reference counts; a context that is referenced is in memory.
LEMMA InvBooks == FcInv => FcBooks
  <1> SUFFICES ASSUME FcInv PROVE FcBooks
    OBVIOUS
  <1>0. FetchTypeOK /\ DOMAIN fcCtx \subseteq FcFetches
    BY Zenon DEF FcInv, FetchTypeOK
  <1>1. FcReferences
    <2>1. ASSUME NEW c \in DOMAIN fcCtx
          PROVE  fcCtx[c].refs = Cardinality(FcUsers(c)) + FcPosted("start", c) + FcPosted("shutdown", c)
                       + Cardinality(FcLockers(c)) + (IF fcCtx[c].done THEN 0 ELSE 1)
                       + FcDropped(c)
      <3>1. c \in FcFetches
        BY <1>0
      <3>2. /\ Cardinality(FcUsers(c)) \in Nat /\ Cardinality(FcLockers(c)) \in Nat
            /\ FcPosted("start", c) \in Nat /\ FcPosted("shutdown", c) \in Nat
            /\ FcDropped(c) \in Nat
        BY <1>0, <3>1, Counting, OwedParts
      <3>3. FcRefs(c) = fcCtx[c].refs /\ FcAlive(c) = (IF fcCtx[c].done THEN 0 ELSE 1)
        BY DEF FcRefs, FcAlive
      <3>4. FcRefs(c) = FcOwed(c) + FcAlive(c)
        BY <3>1 DEF FcInv, FcAccounts
      <3>5. FcOwed(c) = Cardinality(FcUsers(c)) + Cardinality(FcLockers(c)) + FcDropped(c)
                        + (FcPosted("start", c) + FcPosted("shutdown", c))
        BY DEF FcOwed, FcHeld
      <3> QED
        BY <3>2, <3>3, <3>4, <3>5
    <2>2. \A f \in FcFetches : fcFetch[f].at \in {"waiting", "called"} => fcFetch[f].ctx \in DOMAIN fcCtx
      <3> SUFFICES ASSUME NEW f \in FcFetches, fcFetch[f].at \in {"waiting", "called"}
                   PROVE  fcFetch[f].ctx \in DOMAIN fcCtx
        BY SMTT(30)
      <3>1. fcFetch[f].ctx \in FcFetches
        BY DEF FcInv, FcLists
      <3> QED
        BY <1>0, <3>1, Counting, Referenced DEF FcInv, FcUse
    <2>3. \A k \in FcKeys : fcTable[k] # FcNone => fcTable[k] \in DOMAIN fcCtx
      BY SMTT(30) DEF FcInv, FcStore
    <2> QED
      BY <2>1, <2>2, <2>3 DEF FcReferences
  <1>2. FcOneContext
    BY DEF FcInv, FcStore, FcTidy, FcOneContext
  <1> QED
    BY <1>1, <1>2, SMTT(30) DEF FcInv, FcBooks

\* However the cancellation of a fetch, the end of its context and the shutdown
\* of the resolver meet, a fetch that dns_resolver_createfetch accepted is called
\* back exactly once, on its own loop: for any number of fetches, loops and keys.
THEOREM EachFetchCalledBackOnce == FetchSpec => []FcOneCallback
  BY FetchInvariant, InvOneCallback, PTL

\* A context is referenced exactly as often as something still points to it, so
\* none is used after it was freed and none is leaked by its count; the table
\* holds the one context of a question that may be joined; a zone's counter is the
\* number of contexts counted in it and within fetches-per-zone; and no assertion
\* of resolver.c about contexts fails.
THEOREM FetchBooksKept == FetchSpec => []FcBooks
  BY FetchInvariant, InvBooks, PTL
=============================================================================
