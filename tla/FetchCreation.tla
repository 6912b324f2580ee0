---------------------------- MODULE FetchCreation ---------------------------
(***************************************************************************)
(* Each step of dns_resolver_createfetch keeps the invariant FcInv: the    *)
(* call itself, the lookup in the table, the insertion of a new context,   *)
(* the lock that is taken on the context found, and the end of a creator   *)
(* that finds another context in its place (GivenUp).                      *)
(***************************************************************************)
EXTENDS FetchLaws, TLAPS

\* A call that is refused under the lock drops the reference it came with.
LEMMA LockRefused ==
  ASSUME FcLaws, FcInv, NEW l \in FcLoops, fcLoop[l].at = "lock", NEW f,
         f = fcLoop[l].fetch,
         NEW c, c = fcLoop[l].ctx,
         FcDetach([fcCtx EXCEPT ![c].spilled = @ \/ ~FcDuplicate(f, c)], c, 1, {}),
         FcRefuse(f), FcGoto(l, FcIdle), UNCHANGED <<fcTable, fcJobs, fcRes>>
  PROVE  FcInv'
  <1> DEFINE ctxs == [fcCtx EXCEPT ![c].spilled = @ \/ ~FcDuplicate(f, c)]
  <1>1. /\ f \in FcFetches /\ FcLoopOf(f) = l /\ fcFetch[f].at = "calling" /\ c \in FcFetches
        /\ fcFetch \in [FcFetches -> FcFetchSet]
    BY Zenon DEF FcInv, FetchTypeOK, FcHandlers, FcHandler, FcFetchSet
  <1>2. c \in DOMAIN fcCtx
    BY <1>1, Zenon DEF FcLocks, FcInv, FcLaws, ReferencedLaw
  <1>3. FcOnly(ctxs, c) /\ ctxs[c].resps = fcCtx[c].resps
    <2>1. /\ fcCtx[c] \in FcContexts
          /\ ctxs[c] = [fcCtx[c] EXCEPT !.spilled = fcCtx[c].spilled \/ ~FcDuplicate(f, c)]
      BY <1>2, Zenon DEF FcInv, FetchTypeOK
    <2>2. PICK s \in BOOLEAN : ctxs[c] = [fcCtx[c] EXCEPT !.spilled = s]
      BY <2>1, ZenonT(30)
    <2>3. /\ ctxs[c] \in FcContexts /\ ctxs[c].resps = fcCtx[c].resps
          /\ \A i \in {"key", "done", "hashed", "cloned", "counted", "refs"} : ctxs[c][i] = fcCtx[c][i]
      BY <2>1, <2>2, SMTT(30) DEF FcContexts
    <2> QED
      BY <2>3, Zenon DEF FcOnly
  <1> HIDE DEF ctxs
  <1>4. /\ fcFetch' \in [FcFetches -> FcFetchSet] /\ fcFetch'[f].at = "refused"
        /\ \A g \in FcFetches : g # f => fcFetch'[g] = fcFetch[g]
    BY <1>1 DEF FcRefuse, FcFetchSet
  <1>5. FcFetchKept(l)
    BY <1>1, <1>4, Zenon DEF FcFetchKept, FcInv, FcLists
  <1>6. /\ \A g \in FcFetches, x \in FcFetches :
             FcUse(g, x)' = FcUse(g, x) /\ (FcWaitsFor(g, x)' <=> FcWaitsFor(g, x))
        /\ \A g \in FcFetches : fcFetch'[g].at = "called" <=> fcFetch[g].at = "called"
    BY <1>1, <1>4, Zenon DEF FcUse, FcWaitsFor
  <1>7. FcDetach(ctxs, c, 1, {})
    BY Zenon DEF ctxs
  <1>8. fcRes' \in [exiting : BOOLEAN, shutdown : {"no", "exiting", "told", "over"},
                   spillat : Nat, timer : FcLoops \cup {FcNone}]
    BY Zenon DEF FcInv, FetchTypeOK
  <1> QED
    BY <1>1, <1>2, <1>3, <1>4, <1>5, <1>6, <1>7, <1>8, Zenon DEF FcLaws, LoopDetachLaw

\* A fetch joins the context whose lock its loop has taken.
LEMMA LockJoins ==
  ASSUME FcLaws, FcInv, NEW l \in FcLoops, fcLoop[l].at = "lock", NEW f,
         f = fcLoop[l].fetch,
         NEW c, c = fcLoop[l].ctx,
         fcCtx' = [fcCtx EXCEPT ![c].resps = @ \cup {f},
                                ![c].refs = @ + (IF fcLoop[l].new THEN 1 ELSE 0)],
         fcFetch' = FcWaitsOn(f, c),
         IF fcLoop[l].new THEN FcPost(l, [job |-> "start", of |-> c]) ELSE UNCHANGED fcJobs,
         FcGoto(l, FcIdle), UNCHANGED <<fcTable, fcCount, fcFailed, fcRes>>
  PROVE  FcInv'
  <1>a. PICK k \in {0, 1} : k = IF fcLoop[l].new THEN 1 ELSE 0
    BY Zenon
  <1>b. k \in Nat
    BY <1>a, Zenon
  <1>1. /\ f \in FcFetches /\ FcLoopOf(f) = l /\ fcFetch[f].at = "calling" /\ c \in FcFetches
        /\ fcLoop[l].new => c = f
        /\ fcFetch \in [FcFetches -> FcFetchSet] /\ fcLoop \in [FcLoops -> FcPlaces]
        /\ fcJobs \in [FcLoops -> Seq(FcJobSet)] /\ FcOnLoops /\ FetchTypeOK
    BY Zenon DEF FcInv, FetchTypeOK, FcHandlers, FcHandler, FcFetchSet, FcJobSet, FcCallbacks, FcOnLoops
  <1>2. /\ c \in DOMAIN fcCtx /\ fcCtx[c] \in FcContexts /\ FcTidy(c) /\ FcLoopOf(c) \in FcLoops
        /\ DOMAIN fcCtx \subseteq FcFetches /\ \A x \in DOMAIN fcCtx : fcCtx[x] \in FcContexts
    <2>1. c \in DOMAIN fcCtx
      BY <1>1, Zenon DEF FcLocks, FcInv, FcLaws, ReferencedLaw
    <2> QED
      BY <1>1, <2>1, Zenon DEF FcInv, FetchTypeOK, FcStore, FcLaws, LoopOfLaw
  <1>3. fcCtx' = [fcCtx EXCEPT ![c] = [fcCtx[c] EXCEPT !.resps = fcCtx[c].resps \cup {f},
                                                      !.refs = fcCtx[c].refs + k]]
    BY <1>a, <1>2, ZenonT(30)
  <1>4. /\ DOMAIN fcCtx' = DOMAIN fcCtx /\ \A x \in DOMAIN fcCtx : x # c => fcCtx'[x] = fcCtx[x]
        /\ fcCtx'[c] \in FcContexts /\ fcCtx'[c].resps = fcCtx[c].resps \cup {f}
        /\ fcCtx'[c].key = fcCtx[c].key /\ fcCtx'[c].done = fcCtx[c].done
        /\ fcCtx'[c].hashed = fcCtx[c].hashed /\ fcCtx'[c].cloned = fcCtx[c].cloned
        /\ fcCtx'[c].counted = fcCtx[c].counted /\ fcCtx'[c].refs = fcCtx[c].refs + k
        /\ fcCtx[c].refs \in Nat
    <2>1. PICK r : r = [fcCtx[c] EXCEPT !.resps = fcCtx[c].resps \cup {f}, !.refs = fcCtx[c].refs + k]
      BY Zenon
    <2>2. /\ r \in FcContexts /\ r.resps = fcCtx[c].resps \cup {f} /\ r.key = fcCtx[c].key
          /\ r.done = fcCtx[c].done /\ r.hashed = fcCtx[c].hashed /\ r.cloned = fcCtx[c].cloned
          /\ r.counted = fcCtx[c].counted /\ r.refs = fcCtx[c].refs + k /\ fcCtx[c].refs \in Nat
      <3>1. PICK s : s = [fcCtx[c] EXCEPT !.resps = fcCtx[c].resps \cup {f}]
        BY Zenon
      <3>2. fcCtx[c].refs \in Nat \ {0} /\ fcCtx[c].resps \cup {f} \in SUBSET FcFetches
        BY <1>1, <1>2, Zenon DEF FcContexts
      <3>3. fcCtx[c].refs + k \in Nat \ {0}
        BY <1>b, <3>2
      <3>4. /\ s \in FcContexts /\ s.resps = fcCtx[c].resps \cup {f} /\ s.key = fcCtx[c].key
            /\ s.done = fcCtx[c].done /\ s.hashed = fcCtx[c].hashed /\ s.cloned = fcCtx[c].cloned
            /\ s.counted = fcCtx[c].counted
        BY <1>2, <3>1, <3>2, Zenon DEF FcContexts
      <3>5. r = [s EXCEPT !.refs = fcCtx[c].refs + k]
        BY <2>1, <3>1, Zenon
      <3> QED
        BY <3>2, <3>3, <3>4, <3>5, Zenon DEF FcContexts
    <2>3. fcCtx' = [fcCtx EXCEPT ![c] = r]
      BY <1>3, <2>1, Zenon
    <2> QED
      BY <1>2, <2>2, <2>3, Zenon
  <1>5. /\ fcFetch' \in [FcFetches -> FcFetchSet] /\ fcFetch'[f].at = "waiting" /\ fcFetch'[f].ctx = c
        /\ \A g \in FcFetches : g # f => fcFetch'[g] = fcFetch[g]
    BY <1>1 DEF FcLaws, WaitsOnLaw
  <1>6. /\ fcJobs' \in [FcLoops -> Seq(FcJobSet)] /\ FcOnLoops'
        /\ \A i \in {"start", "shutdown", "call"}, x \in FcFetches :
             FcPosted(i, x)' = FcPosted(i, x) + (IF i = "start" /\ x = c THEN k ELSE 0)
    <2>1. CASE fcLoop[l].new
      <3>1. FcPost(FcLoopOf(c), [job |-> "start", of |-> c])
        BY <1>1, <2>1, Zenon
      <3> QED
        BY <1>a, <1>1, <2>1, <3>1 DEF FcLaws, PostedAppendLaw
    <2>2. CASE ~fcLoop[l].new
      <3>1. fcJobs' = fcJobs /\ k = 0
        BY <1>a, <2>2, Zenon
      <3>2. \A i \in {"start", "shutdown", "call"}, x \in FcFetches :
              FcPosted(i, x)' = FcPosted(i, x) /\ FcPosted(i, x) \in Nat
        BY <1>1, <3>1, Zenon DEF FcPosted, FcLaws, PostedNatLaw
      <3>3. FcOnLoops'
        BY <1>1, <3>1, Zenon DEF FcOnLoops
      <3> QED
        BY <1>1, <3>1, <3>2, <3>3
    <2> QED
      BY <2>1, <2>2, Zenon
  <1>7. FcIdle \in FcPlaces /\ FcIdle.at = "idle" /\ ~FcIdle.new
    BY DEF FcIdle, FcPlaces
  <1>8. /\ fcLoop' \in [FcLoops -> FcPlaces] /\ fcLoop'[l] = FcIdle
        /\ \A m \in FcLoops : m # l => fcLoop'[m] = fcLoop[m]
    BY <1>1, <1>7, Zenon DEF FcGoto
  <1>9. FcQueuesOK' /\ FcElsewhere(l) /\ FcFetchKept(l)
    <2>1. FcQueuesOK' /\ FcElsewhere(l)
      BY <1>6, <1>8, Zenon DEF FcQueuesOK, FcElsewhere
    <2>2. FcFetchKept(l)
      BY <1>1, <1>5, ZenonT(30) DEF FcFetchKept, FcInv, FcLists
    <2> QED
      BY <2>1, <2>2, Zenon
  <1>10. /\ \A g \in FcFetches, x \in FcFetches : g # f \/ x # c =>
              FcUse(g, x)' = FcUse(g, x) /\ (FcWaitsFor(g, x)' <=> FcWaitsFor(g, x))
         /\ FcUse(f, c) = 0 /\ FcUse(f, c)' = 1 /\ FcWaitsFor(f, c)'
    BY <1>1, <1>5, Zenon DEF FcUse, FcWaitsFor
  <1>11. /\ \A x \in FcFetches : FcDrops(l, x) = 0 /\ FcDrops(l, x)' = 0 /\ FcLocks(l, x)' = 0
         /\ \A x \in FcFetches : FcLocks(l, x) = IF x = c THEN 1 ELSE 0
    BY <1>7, <1>8, Zenon DEF FcLocks, FcDrops
  <1>12. \A x \in FcFetches : x # c => FcSameFor(l, x)
    <2>1. \A x \in FcFetches : x # c => /\ FcPosted("start", x)' = FcPosted("start", x)
                                        /\ FcPosted("shutdown", x)' = FcPosted("shutdown", x)
      BY <1>1, <1>6, SMTT(30) DEF FcLaws, PostedNatLaw
    <2> QED
      BY <1>10, <1>11, <2>1, Zenon DEF FcSameFor
  <1>13. FcHandler(l)'
    BY <1>7, <1>8, Zenon DEF FcHandler
  <1>14. FcOneChanged(c) /\ FcSafeFor(l, c) /\ FcAllForOne(l, f, c)
    <2>1. FcOneChanged(c)
      BY <1>2, <1>4, ZenonT(30) DEF FcOneChanged
    <2>2. FcSafeFor(l, c)
      BY <1>4, Zenon DEF FcSafeFor
    <2>3. FcAllForOne(l, f, c)
      BY <1>1, <1>9, <1>10, <1>11, <1>12, Zenon DEF FcAllForOne, FcReached
    <2> QED
      BY <2>1, <2>2, <2>3, Zenon
  <1>15. FcTidy(c)'
    <2>1. FcSettled(c)
      BY <1>1, <1>2, <1>4, <1>8, <1>9, ZenonT(30) DEF FcSettled, FcFetchKept
    <2> QED
      BY <1>2, <2>1, Zenon DEF FcLaws, TidyKeptLaw
  <1>16. /\ FcRefs(c)' \in Nat
         /\ FcRefs(c)' + FcRefersTo(l, f, c) + FcAlive(c) = FcRefs(c) + FcRefersTo(l, f, c)' + FcAlive(c)'
    <2>1. /\ FcRefs(c) = fcCtx[c].refs /\ FcRefs(c)' = fcCtx[c].refs + k
          /\ FcAlive(c)' = FcAlive(c) /\ FcAlive(c) \in Nat
      BY <1>2, <1>4, Zenon DEF FcRefs, FcAlive
    <2>2. /\ FcPosted("start", c)' = FcPosted("start", c) + k
          /\ FcPosted("shutdown", c)' = FcPosted("shutdown", c)
          /\ FcPosted("start", c) \in Nat /\ FcPosted("shutdown", c) \in Nat
      BY <1>1, <1>6, SMTT(30) DEF FcLaws, PostedNatLaw
    <2>3. /\ FcRefersTo(l, f, c) = 1 + (FcPosted("start", c) + FcPosted("shutdown", c))
          /\ FcRefersTo(l, f, c)' = 1 + (FcPosted("start", c) + k + FcPosted("shutdown", c))
      BY <1>1, <1>10, <1>11, <2>2, SMTT(30) DEF FcRefersTo
    <2> DEFINE p == FcPosted("start", c) + FcPosted("shutdown", c)
    <2>4. p \in Nat /\ FcRefersTo(l, f, c) = 1 + p /\ FcRefersTo(l, f, c)' = 1 + p + k
      BY <2>2, <2>3
    <2> HIDE DEF p
    <2> QED
      <3>1. fcCtx[c].refs \in Nat
        BY <1>4, ZenonT(30)
      <3> QED
        BY <1>b, <2>1, <2>4, <3>1, SMTT(30)
  <1>17. \A g \in FcFetches : g \in fcCtx'[c].resps <=> FcWaitsFor(g, c)'
    <2>1. \A g \in FcFetches : g \in fcCtx[c].resps <=> FcWaitsFor(g, c)
      BY <1>2, Zenon DEF FcInv, FcLists, FcWaitsFor
    <2> QED
      BY <1>1, <1>4, <1>10, <2>1, ZenonT(30)
  <1>18. FcHandlers' /\ FcStore' /\ FcLists' /\ FcAccounts'
    BY <1>1, <1>9, <1>13, <1>14, <1>15, <1>16, <1>17, ZenonT(30) DEF FcLaws, ChangeStepLaw
  <1>19. FcCounters'
    BY <1>4, Zenon DEF FcInv, FcLaws, CountersKeptLaw
  <1>20. FcCallbacks'
    <2>1. \A g \in FcFetches : FcPosted("call", g)' = IF fcFetch'[g].at = "called" THEN 1 ELSE 0
      <3>1. \A g \in FcFetches : FcPosted("call", g)' = FcPosted("call", g)
        BY <1>1, <1>6, SMTT(30) DEF FcLaws, PostedNatLaw
      <3> QED
        BY <1>1, <1>5, <3>1, Zenon DEF FcInv, FcCallbacks
    <2> QED
      BY <1>6, <2>1, Zenon DEF FcCallbacks, FcOnLoops
  <1>21. FetchTypeOK'
    BY <1>2, <1>4, <1>5, <1>6, <1>8, Zenon DEF FcInv, FetchTypeOK, FcFetchSet, FcJobSet
  <1> QED
    BY <1>18, <1>19, <1>20, <1>21, Zenon DEF FcInv, FcAsserts

\* A context that cannot be joined any more is taken out of the table, and the
\* lookup starts again.
LEMMA LockAgain ==
  ASSUME FcLaws, FcInv, NEW l \in FcLoops, fcLoop[l].at = "lock", NEW f,
         f = fcLoop[l].fetch,
         NEW c, c = fcLoop[l].ctx, fcCtx[c].done \/ fcCtx[c].cloned,
         fcTable' = FcReleased(c),
         FcDetach([fcCtx EXCEPT ![c].hashed = FALSE], c, 1, FcReleaseFails(c)),
         FcGoto(l, [fcLoop[l] EXCEPT !.at = "find", !.ctx = FcNone, !.new = FALSE]),
         UNCHANGED <<fcFetch, fcJobs, fcRes>>
  PROVE  FcInv'
  <1>a. PICK pc : pc = [fcLoop[l] EXCEPT !.at = "find", !.ctx = FcNone, !.new = FALSE]
    BY Zenon
  <1>1. /\ f \in FcFetches /\ FcLoopOf(f) = l /\ fcFetch[f].at = "calling" /\ c \in FcFetches
        /\ FcCall[f].shared
        /\ IF fcLoop[l].new THEN c = f /\ ~fcCtx[f].done ELSE f \notin DOMAIN fcCtx
        /\ fcFetch \in [FcFetches -> FcFetchSet] /\ fcLoop \in [FcLoops -> FcPlaces]
        /\ fcJobs \in [FcLoops -> Seq(FcJobSet)] /\ FetchTypeOK /\ fcLoop[l] \in FcPlaces
        /\ fcTable \in [FcKeys -> FcFetches \cup {FcNone}]
    BY Zenon DEF FcInv, FetchTypeOK, FcHandlers, FcHandler, FcFetchSet, FcJobSet
  <1>2. /\ c \in DOMAIN fcCtx /\ fcCtx[c] \in FcContexts /\ FcTidy(c) /\ FcLoopOf(c) \in FcLoops
        /\ DOMAIN fcCtx \subseteq FcFetches /\ \A x \in DOMAIN fcCtx : fcCtx[x] \in FcContexts
        /\ fcCtx[c].key = FcKey(c) /\ FcKey(c) \in FcKeys /\ c # FcNone
    <2>1. c \in DOMAIN fcCtx
      BY <1>1, Zenon DEF FcLocks, FcInv, FcLaws, ReferencedLaw
    <2> QED
      BY <1>1, <2>1, FetchAssumption
        DEF FcInv, FetchTypeOK, FcStore, FcTidy, FcLaws, LoopOfLaw
  <1>3. f \notin DOMAIN fcCtx
    BY <1>1, <1>2, Zenon DEF FcTidy
  <1> DEFINE ctxs == [fcCtx EXCEPT ![c].hashed = FALSE]
  <1>4. /\ DOMAIN ctxs = DOMAIN fcCtx /\ \A x \in DOMAIN fcCtx : x # c => ctxs[x] = fcCtx[x]
        /\ ctxs[c] \in FcContexts /\ ~ctxs[c].hashed /\ ctxs[c].key = fcCtx[c].key
        /\ ctxs[c].done = fcCtx[c].done /\ ctxs[c].cloned = fcCtx[c].cloned
        /\ ctxs[c].resps = fcCtx[c].resps /\ ctxs[c].counted = fcCtx[c].counted
        /\ ctxs[c].refs = fcCtx[c].refs /\ fcCtx[c].refs \in Nat
    BY <1>2, Zenon DEF FcContexts
  <1>5. /\ FcReleaseFails(c) = {} /\ fcTable' \in [FcKeys -> FcFetches \cup {FcNone}]
        /\ fcTable'[FcKey(c)] # c
        /\ \A k \in FcKeys : \/ fcTable'[k] = fcTable[k]
                             \/ k = FcKey(c) /\ fcTable'[k] = FcNone /\ fcTable[k] = c
    BY <1>1, <1>2, Zenon DEF FcReleased, FcReleaseFails, FcTidy
  <1>6. FcDetach(ctxs, c, 1, {})
    BY <1>5, Zenon
  <1> HIDE DEF ctxs
  <1>7. /\ pc \in FcPlaces /\ pc.at = "find" /\ ~pc.new /\ pc.fetch = f
    BY <1>a, <1>1, Zenon DEF FcPlaces
  <1>8. /\ fcLoop' \in [FcLoops -> FcPlaces] /\ fcLoop'[l] = pc
        /\ \A m \in FcLoops : m # l => fcLoop'[m] = fcLoop[m]
    BY <1>a, <1>1, <1>7, Zenon DEF FcGoto
  <1>9. FcQueuesOK' /\ FcElsewhere(l)
    BY <1>1, <1>8, Zenon DEF FcQueuesOK, FcElsewhere
  <1>10. /\ FcFetchKept(l)
         /\ \A g, x : FcUse(g, x)' = FcUse(g, x) /\ (FcWaitsFor(g, x)' <=> FcWaitsFor(g, x))
    BY Zenon DEF FcLaws, FetchSameLaw
  <1>11. /\ \A x \in FcFetches : FcDrops(l, x) = 0 /\ FcDrops(l, x)' = 0 /\ FcLocks(l, x)' = 0
         /\ \A x \in FcFetches : FcLocks(l, x) = IF x = c THEN 1 ELSE 0
         /\ \A j, x : FcPosted(j, x)' = FcPosted(j, x)
    BY <1>7, <1>8, Zenon DEF FcLocks, FcDrops, FcPosted
  <1>12. \A x \in FcFetches : x # c => FcSameFor(l, x)
    BY <1>10, <1>11, Zenon DEF FcSameFor
  <1>13. FcRefersTo(l, f, c) = FcRefersTo(l, f, c)' + 1
    <2>1. /\ FcUse(f, c) \in Nat /\ FcUse(f, c)' = FcUse(f, c)
          /\ FcPosted("start", c) \in Nat /\ FcPosted("shutdown", c) \in Nat
      BY <1>1, <1>10, Zenon DEF FcUse, FcLaws, PostedNatLaw
    <2> QED
      BY <1>1, <1>11, <2>1 DEF FcRefersTo
  <1>14. /\ FcOwed(c) \in Nat /\ FcOwed(c)' \in Nat /\ FcOwed(c) = FcOwed(c)' + 1
         /\ \A g \in FcFetches : FcUse(g, c)' = 1 => FcOwed(c)' >= 1
    <2>1. /\ FcOwed(c) \in Nat /\ FcOwed(c)' \in Nat
          /\ FcRefersTo(l, f, c) \in Nat /\ FcRefersTo(l, f, c)' \in Nat
          /\ FcOwed(c)' + FcRefersTo(l, f, c) = FcOwed(c) + FcRefersTo(l, f, c)'
          /\ \A g \in FcFetches : FcUse(g, c)' = 1 => FcOwed(c)' >= 1
      BY <1>1, <1>9, <1>10, Zenon DEF FcLaws, OwedChangeLaw
    <2> QED
      BY <1>13, <2>1
  <1>15. /\ FcRefs(c) = fcCtx[c].refs /\ FcAlive(c) = (IF fcCtx[c].done THEN 0 ELSE 1)
         /\ fcCtx[c].refs = FcOwed(c) + FcAlive(c)
    BY <1>1, <1>2, Zenon DEF FcInv, FcAccounts, FcRefs, FcAlive
  <1>16. \A g \in FcFetches : g \in fcCtx[c].resps <=> FcWaitsFor(g, c)
    BY <1>2, Zenon DEF FcInv, FcLists, FcWaitsFor
  <1>17. ctxs[c].refs >= 1 /\ (ctxs[c].refs = 1 => ctxs[c].done /\ ctxs[c].resps = {})
    <2>1. ctxs[c].refs >= 1 /\ (ctxs[c].refs = 1 => ctxs[c].done /\ FcOwed(c)' = 0)
      BY <1>4, <1>14, <1>15
    <2>2. \A g \in FcFetches : g \in ctxs[c].resps => FcUse(g, c)' = 1
      BY <1>1, <1>4, <1>10, <1>16, Zenon DEF FcWaitsFor, FcUse
    <2>3. ctxs[c].resps \subseteq FcFetches
      BY <1>4, Zenon DEF FcContexts
    <2> QED
      BY <1>14, <2>1, <2>2, <2>3, SMTT(30)
  <1>18. /\ fcFailed' = fcFailed /\ FcCounters' /\ fcCount' \in [FcDomains -> Nat]
         /\ \A x \in DOMAIN fcCtx' : fcCtx'[x] \in FcContexts
         /\ FcLess(ctxs, c, 1)
    BY <1>2, <1>4, <1>6, <1>17 DEF FcLaws, DetachedLaw
  <1>19. /\ DOMAIN fcCtx' \subseteq DOMAIN fcCtx
         /\ \A x \in DOMAIN fcCtx : x # c => x \in DOMAIN fcCtx' /\ fcCtx'[x] = fcCtx[x]
         /\ c \notin DOMAIN fcCtx' => fcCtx[c].done
         /\ FcRefs(c)' = fcCtx[c].refs - 1 /\ FcAlive(c)' = FcAlive(c)
    <2>1. /\ DOMAIN fcCtx' \subseteq DOMAIN fcCtx
          /\ \A x \in DOMAIN fcCtx : x # c => x \in DOMAIN fcCtx' /\ fcCtx'[x] = ctxs[x]
          /\ c \notin DOMAIN fcCtx' => ctxs[c].done
          /\ FcRefs(c)' = ctxs[c].refs - 1
      BY <1>2, <1>4, <1>17, <1>18, Zenon DEF FcLess
    <2>2. FcAlive(c)' = IF ctxs[c].done THEN 0 ELSE 1
      BY <1>18, Zenon DEF FcLess
    <2> QED
      BY <1>4, <1>15, <2>1, <2>2, ZenonT(30)
  <1>20. c \in DOMAIN fcCtx' =>
           /\ fcCtx'[c].key = fcCtx[c].key /\ fcCtx'[c].done = fcCtx[c].done
           /\ ~fcCtx'[c].hashed /\ fcCtx'[c].cloned = fcCtx[c].cloned
           /\ fcCtx'[c].resps = fcCtx[c].resps
    <2>1. c \in DOMAIN fcCtx' => fcCtx'[c] = [ctxs[c] EXCEPT !.refs = ctxs[c].refs - 1]
      BY <1>18, Zenon DEF FcLess
    <2> QED
      BY <1>4, <2>1 DEF FcContexts
  <1>21. FcHandler(l)'
    BY <1>1, <1>3, <1>7, <1>8, <1>19, Zenon DEF FcHandler
  <1>22. FcOneChanged(c) /\ FcSafeFor(l, c) /\ FcAllForOne(l, f, c)
    <2>1. FcOneChanged(c)
      BY <1>2, <1>5, <1>19, Zenon DEF FcOneChanged
    <2>2. FcSafeFor(l, c)
      BY <1>2, <1>19, <1>20, Zenon DEF FcSafeFor
    <2>3. FcAllForOne(l, f, c)
      BY <1>1, <1>9, <1>10, <1>11, <1>12, Zenon DEF FcAllForOne, FcReached
    <2> QED
      BY <2>1, <2>2, <2>3, Zenon
  <1>23. c \in DOMAIN fcCtx' => FcTidy(c)'
    BY <1>2, <1>5, <1>8, <1>20, Zenon DEF FcTidy
  <1>24. c \in DOMAIN fcCtx' => \A g \in FcFetches : g \in fcCtx'[c].resps <=> FcWaitsFor(g, c)'
    BY <1>10, <1>16, <1>20, Zenon
  <1>25. /\ FcRefs(c)' \in Nat
         /\ FcRefs(c)' + FcRefersTo(l, f, c) + FcAlive(c) = FcRefs(c) + FcRefersTo(l, f, c)' + FcAlive(c)'
    <2>1. FcRefersTo(l, f, c) \in Nat /\ FcRefersTo(l, f, c)' \in Nat
      BY <1>1, <1>9, <1>10, Zenon DEF FcLaws, OwedChangeLaw
    <2>2. FcAlive(c) \in Nat /\ fcCtx[c].refs >= 1 /\ fcCtx[c].refs \in Nat
      BY <1>4, <1>17, Zenon DEF FcAlive
    <2> QED
      BY <1>13, <1>15, <1>19, <2>1, <2>2
  <1>26. FcHandlers' /\ FcStore' /\ FcLists' /\ FcAccounts'
    BY <1>1, <1>9, <1>21, <1>22, <1>23, <1>24, <1>25, Zenon DEF FcLaws, ChangeStepLaw
  <1>27. FcCallbacks'
    BY <1>11, Zenon DEF FcInv, FcCallbacks
  <1>28. FetchTypeOK'
    BY <1>1, <1>2, <1>5, <1>8, <1>18, <1>19, Zenon DEF FcInv, FetchTypeOK, FcFetchSet, FcJobSet
  <1> QED
    BY <1>18, <1>26, <1>27, <1>28, Zenon DEF FcInv, FcAsserts

\* createfetch under the context's lock.
LEMMA LockInv ==
  ASSUME FcLaws, FcInv, NEW l \in FcLoops, FcLock(l)
  PROVE  FcInv'
  <1>a. PICK f : f = fcLoop[l].fetch
    BY Zenon
  <1>b. PICK c : c = fcLoop[l].ctx
    BY Zenon
  <1>1. fcLoop[l].at = "lock" /\ fcRes' = fcRes
    BY Zenon DEF FcLock
  <1>2. \/ /\ fcCtx[c].done \/ fcCtx[c].cloned
           /\ fcTable' = FcReleased(c)
           /\ FcDetach([fcCtx EXCEPT ![c].hashed = FALSE], c, 1, FcReleaseFails(c))
           /\ FcGoto(l, [fcLoop[l] EXCEPT !.at = "find", !.ctx = FcNone, !.new = FALSE])
           /\ UNCHANGED <<fcFetch, fcJobs>>
        \/ /\ FcDetach([fcCtx EXCEPT ![c].spilled = @ \/ ~FcDuplicate(f, c)], c, 1, {})
           /\ FcRefuse(f)
           /\ FcGoto(l, FcIdle)
           /\ UNCHANGED <<fcTable, fcJobs>>
        \/ /\ fcCtx' = [fcCtx EXCEPT ![c].resps = @ \cup {f},
                                     ![c].refs = @ + (IF fcLoop[l].new THEN 1 ELSE 0)]
           /\ fcFetch' = FcWaitsOn(f, c)
           /\ IF fcLoop[l].new THEN FcPost(l, [job |-> "start", of |-> c]) ELSE UNCHANGED fcJobs
           /\ FcGoto(l, FcIdle)
           /\ UNCHANGED <<fcTable, fcCount, fcFailed>>
    BY <1>a, <1>b, Zenon DEF FcLock
  <1> QED
    BY <1>a, <1>b, <1>1, <1>2, LockAgain, LockRefused, LockJoins, Zenon

\* A context is made: fctx_create, within the limit of its zone.
LEMMA Created ==
  ASSUME FcLaws, FcInv, NEW f \in FcFetches, f \notin DOMAIN fcCtx, NEW ctx \in FcContexts,
         ctx.key = FcKey(f), ctx.counted = (FcZspill # 0), ~FcQuota(FcKey(f)),
         fcCtx' = FcWith(f, ctx), fcCount' = FcIncr(FcKey(f))
  PROVE  /\ DOMAIN fcCtx' = DOMAIN fcCtx \cup {f} /\ fcCtx'[f] = ctx
         /\ \A x \in DOMAIN fcCtx : fcCtx'[x] = fcCtx[x]
         /\ FcCounters' /\ fcCount' \in [FcDomains -> Nat]
  <1>1. /\ DOMAIN fcCtx' = DOMAIN fcCtx \cup {f} /\ fcCtx'[f] = ctx
        /\ \A x \in DOMAIN fcCtx : fcCtx'[x] = fcCtx[x]
    BY Zenon DEF FcWith
  <1> DEFINE z == FcDomain[FcKey(f)]
             a == IF FcZspill = 0 THEN 0 ELSE 1
  <1>2. /\ z \in FcDomains /\ fcCount \in [FcDomains -> Nat] /\ fcCount[z] \in Nat
        /\ FcZspill \in Nat /\ a \in Nat
    BY FetchAssumption, Zenon DEF FcInv, FetchTypeOK, FcLaws, LoopOfLaw
  <1>3. FcIn(f) = 0 /\ FcIn(f)' = a
    BY <1>1, Zenon DEF FcIn
  <1>4. fcCount' = [fcCount EXCEPT ![z] = fcCount[z] + a]
    BY Zenon DEF FcIncr
  <1>5. fcCount'[z] <= FcZspill
    <2>1. fcCount'[z] = fcCount[z] + a
      BY <1>2, <1>4, Zenon
    <2>2. fcCount[z] <= FcZspill
      BY <1>2, Zenon DEF FcInv, FcCounters
    <2>3. FcZspill = 0 \/ ~(fcCount[z] + 1 > FcZspill)
      BY Zenon DEF FcQuota
    <2> QED
      BY <1>2, <2>1, <2>2, <2>3
  <1>6. fcCount[z] - FcIn(f) + FcIn(f)' = fcCount[z] + a
    BY <1>2, <1>3
  <1> HIDE DEF a
  <1>7. fcCount' = [fcCount EXCEPT ![z] = @ - FcIn(f) + FcIn(f)']
    BY <1>4, <1>6, Zenon
  <1>8. DOMAIN fcCtx \subseteq FcFetches
    BY Zenon DEF FcInv, FetchTypeOK
  <1>9. \A x \in FcFetches : x # f =>
          /\ x \in DOMAIN fcCtx' <=> x \in DOMAIN fcCtx
          /\ x \in DOMAIN fcCtx => fcCtx'[x].counted = fcCtx[x].counted
                                   /\ fcCtx'[x].key = fcCtx[x].key
    BY <1>1, Zenon
  <1> HIDE DEF z
  <1>10. FcCounters' /\ fcCount' \in [FcDomains -> Nat]
    BY <1>1, <1>5, <1>7, <1>8, <1>9, Zenon DEF FcInv, z, FcLaws, CountersStepLaw
  <1> QED
    BY <1>1, <1>10, Zenon

\* Whether (n = 1) or not the maker of a context joins and starts it at once.
FcStarts(l, f, ctx, pc, n) ==
  /\ n \in {0, 1}
  /\ n = 1 => /\ fcFetch' = FcWaitsOn(f, f) /\ FcPost(l, [job |-> "start", of |-> f])
              /\ ctx.resps = {f}
  /\ n = 0 => fcFetch' = fcFetch /\ fcJobs' = fcJobs /\ ctx.resps = {}
  /\ ctx.refs = 1 + (n + n) + (IF pc.at = "lock" THEN 1 ELSE 0)

\* The step of createfetch that makes a context.
LEMMA NewInv ==
  ASSUME FcLaws, FcInv, NEW l \in FcLoops, fcLoop[l].at \in {"find", "unshared"},
         NEW f, f = fcLoop[l].fetch, ~FcQuota(FcKey(f)),
         NEW ctx \in FcContexts, ctx.key = FcKey(f), ctx.counted = (FcZspill # 0),
         ~ctx.done, ~ctx.cloned, fcCtx' = FcWith(f, ctx), fcCount' = FcIncr(FcKey(f)),
         NEW pc \in FcPlaces, FcGoto(l, pc), FcHandler(l)',
         pc.at \in {"idle", "lock", "add"}, pc.at = "lock" => pc.ctx = f,
         fcTable' = IF ctx.hashed THEN [fcTable EXCEPT ![FcKey(f)] = f] ELSE fcTable,
         ctx.hashed => fcTable[FcKey(f)] = FcNone,
         FcCall[f].shared /\ ~ctx.hashed => pc.at = "add" /\ pc.fetch = f,
         NEW n, FcStarts(l, f, ctx, pc, n), UNCHANGED <<fcRes, fcFailed>>
  PROVE  FcInv'
  <1> USE DEF FcStarts
  <1>1. /\ f \in FcFetches /\ FcLoopOf(f) = l /\ fcFetch[f].at = "calling"
        /\ f \notin DOMAIN fcCtx /\ FcKey(f) \in FcKeys /\ f # FcNone /\ n \in Nat
        /\ fcFetch \in [FcFetches -> FcFetchSet] /\ fcLoop \in [FcLoops -> FcPlaces]
        /\ fcJobs \in [FcLoops -> Seq(FcJobSet)] /\ FcOnLoops /\ FetchTypeOK
        /\ fcTable \in [FcKeys -> FcFetches \cup {FcNone}]
        /\ DOMAIN fcCtx \subseteq FcFetches /\ \A x \in DOMAIN fcCtx : fcCtx[x] \in FcContexts
    <2>1. /\ f \in FcFetches /\ FcLoopOf(f) = l /\ fcFetch[f].at = "calling"
          /\ f \notin DOMAIN fcCtx
      BY Zenon DEF FcInv, FcHandlers, FcHandler
    <2>2. FcKey(f) \in FcKeys /\ f # FcNone /\ n \in Nat /\ FcOnLoops
      BY <2>1, FetchAssumption DEF FcInv, FcCallbacks, FcOnLoops, FcLaws, LoopOfLaw
    <2> QED
      BY <2>1, <2>2, Zenon DEF FcInv, FetchTypeOK, FcFetchSet, FcJobSet
  <1>2. /\ DOMAIN fcCtx' = DOMAIN fcCtx \cup {f} /\ fcCtx'[f] = ctx
        /\ \A x \in DOMAIN fcCtx : fcCtx'[x] = fcCtx[x]
        /\ FcCounters' /\ fcCount' \in [FcDomains -> Nat]
    BY <1>1, Created, Zenon
  <1>3. /\ fcFetch' \in [FcFetches -> FcFetchSet]
        /\ \A g \in FcFetches : g # f => fcFetch'[g] = fcFetch[g]
        /\ n = 1 => fcFetch'[f].at = "waiting" /\ fcFetch'[f].ctx = f
        /\ n = 0 => fcFetch'[f].at = "calling"
    <2>1. CASE n = 1
      BY <1>1, <2>1 DEF FcLaws, WaitsOnLaw
    <2>2. CASE n = 0
      BY <1>1, <2>2, Zenon
    <2> QED
      BY <2>1, <2>2, Zenon
  <1>4. /\ fcJobs' \in [FcLoops -> Seq(FcJobSet)] /\ FcOnLoops'
        /\ \A i \in {"start", "shutdown", "call"}, x \in FcFetches :
             FcPosted(i, x)' = FcPosted(i, x) + (IF i = "start" /\ x = f THEN n ELSE 0)
    <2>1. CASE n = 1
      <3>1. FcPost(FcLoopOf(f), [job |-> "start", of |-> f])
        BY <1>1, <2>1, Zenon
      <3> QED
        BY <1>1, <2>1, <3>1 DEF FcLaws, PostedAppendLaw
    <2>2. CASE n = 0
      <3>1. \A i \in {"start", "shutdown", "call"}, x \in FcFetches :
              FcPosted(i, x)' = FcPosted(i, x) /\ FcPosted(i, x) \in Nat
        BY <1>1, <2>2, Zenon DEF FcPosted, FcLaws, PostedNatLaw
      <3>2. FcOnLoops' /\ fcJobs' = fcJobs
        BY <1>1, <2>2 DEF FcOnLoops
      <3> QED
        BY <1>1, <2>2, <3>1, <3>2
    <2> QED
      BY <2>1, <2>2, Zenon
  <1>5. /\ fcLoop' \in [FcLoops -> FcPlaces] /\ fcLoop'[l] = pc
        /\ \A m \in FcLoops : m # l => fcLoop'[m] = fcLoop[m]
    BY <1>1, Zenon DEF FcGoto
  <1>6. FcQueuesOK' /\ FcElsewhere(l) /\ FcFetchKept(l)
    <2>1. FcQueuesOK' /\ FcElsewhere(l)
      BY <1>4, <1>5, Zenon DEF FcQueuesOK, FcElsewhere
    <2>2. FcFetchKept(l)
      BY <1>1, <1>3, Zenon DEF FcFetchKept, FcInv, FcLists
    <2> QED
      BY <2>1, <2>2, Zenon
  <1>7. /\ \A g \in FcFetches, x \in FcFetches : g # f \/ x # f =>
              FcUse(g, x)' = FcUse(g, x) /\ (FcWaitsFor(g, x)' <=> FcWaitsFor(g, x))
        /\ FcUse(f, f) = 0 /\ FcUse(f, f)' = n /\ (FcWaitsFor(f, f)' <=> n = 1)
    BY <1>1, <1>3, Zenon DEF FcUse, FcWaitsFor
  <1>8. \A g \in FcFetches : ~FcWaitsFor(g, f)
    <2> SUFFICES ASSUME NEW g \in FcFetches, FcWaitsFor(g, f) PROVE FALSE
      BY Zenon
    <2>1. FcUse(g, f) = 1
      BY Zenon DEF FcWaitsFor, FcUse
    <2> QED
      BY <1>1, <2>1, Zenon DEF FcInv, FcLaws, ReferencedLaw
  <1>9. /\ \A x \in FcFetches : /\ FcDrops(l, x) = 0 /\ FcDrops(l, x)' = 0 /\ FcLocks(l, x) = 0
        /\ \A x \in FcFetches : x # f => FcLocks(l, x)' = 0
        /\ FcLocks(l, f)' = IF pc.at = "lock" THEN 1 ELSE 0
    BY <1>5, Zenon DEF FcLocks, FcDrops
  <1>10. \A x \in FcFetches : x # f => FcSameFor(l, x)
    <2>1. \A x \in FcFetches : x # f => /\ FcPosted("start", x)' = FcPosted("start", x)
                                        /\ FcPosted("shutdown", x)' = FcPosted("shutdown", x)
      BY <1>1, <1>4, SMTT(30) DEF FcLaws, PostedNatLaw
    <2> QED
      BY <1>7, <1>9, <2>1, Zenon DEF FcSameFor
  <1>11. /\ fcTable' \in [FcKeys -> FcFetches \cup {FcNone}] /\ fcTable[FcKey(f)] # f
         /\ fcTable'[FcKey(f)] = f <=> ctx.hashed
         /\ \A k \in FcKeys : \/ fcTable'[k] = fcTable[k]
                              \/ k = FcKey(f) /\ fcTable'[k] = f /\ fcTable[k] = FcNone
    <2>1. fcTable[FcKey(f)] # f
      BY <1>1, Zenon DEF FcInv, FcStore
    <2> QED
      BY <1>1, <2>1, Zenon
  <1>12. FcOneChanged(f) /\ FcSafeFor(l, f) /\ FcAllForOne(l, f, f)
    <2>1. FcOneChanged(f)
      BY <1>1, <1>2, <1>11, Zenon DEF FcOneChanged
    <2>2. FcSafeFor(l, f)
      BY <1>1, Zenon DEF FcSafeFor
    <2>3. FcAllForOne(l, f, f)
      BY <1>1, <1>6, <1>7, <1>10, Zenon DEF FcAllForOne, FcReached
    <2> QED
      BY <2>1, <2>2, <2>3, Zenon
  <1>13. FcTidy(f)'
    BY <1>1, <1>2, <1>3, <1>5, <1>11, Zenon DEF FcTidy
  <1>14. \A g \in FcFetches : g \in fcCtx'[f].resps <=> FcWaitsFor(g, f)'
    <2>1. CASE n = 1
      BY <1>1, <1>2, <1>7, <1>8, <2>1
    <2>2. CASE n = 0
      BY <1>1, <1>2, <1>7, <1>8, <2>2, Zenon
    <2> QED
      BY <2>1, <2>2, Zenon
  <1>15. /\ FcRefs(f)' \in Nat
         /\ FcRefs(f)' + FcRefersTo(l, f, f) + FcAlive(f) = FcRefs(f) + FcRefersTo(l, f, f)' + FcAlive(f)'
    <2> DEFINE p == FcPosted("start", f) + FcPosted("shutdown", f)
               k == IF pc.at = "lock" THEN 1 ELSE 0
    <2>1. /\ FcRefs(f) = 0 /\ FcAlive(f) = 0 /\ FcRefs(f)' = ctx.refs /\ FcAlive(f)' = 1
      BY <1>1, <1>2, Zenon DEF FcRefs, FcAlive
    <2>2. /\ FcPosted("start", f)' = FcPosted("start", f) + n
          /\ FcPosted("shutdown", f)' = FcPosted("shutdown", f)
          /\ FcPosted("start", f) \in Nat /\ FcPosted("shutdown", f) \in Nat
      BY <1>1, <1>4, SMTT(30) DEF FcLaws, PostedNatLaw
    <2>3. /\ FcRefersTo(l, f, f) = FcPosted("start", f) + FcPosted("shutdown", f)
          /\ FcRefersTo(l, f, f)' = (n + k) + (FcPosted("start", f) + n + FcPosted("shutdown", f))
      <3>1. /\ FcUse(f, f) = 0 /\ FcLocks(l, f) = 0 /\ FcDrops(l, f) = 0
            /\ FcUse(f, f)' = n /\ FcLocks(l, f)' = k /\ FcDrops(l, f)' = 0
            /\ n \in Nat /\ k \in Nat
        BY <1>1, <1>7, <1>9, Zenon
      <3> HIDE DEF k
      <3> QED
        BY <2>2, <3>1 DEF FcRefersTo
    <2>4. /\ p \in Nat /\ k \in Nat /\ FcRefersTo(l, f, f) = p /\ FcRefersTo(l, f, f)' = (n + n) + k + p
          /\ ctx.refs = 1 + (n + n) + k
      <3>1. n \in Nat /\ k \in Nat /\ ctx.refs = 1 + (n + n) + k
        BY <1>1, Zenon
      <3> HIDE DEF k, FcStarts
      <3>2. p \in Nat /\ FcRefersTo(l, f, f) = p
        BY <2>2, <2>3, SMTT(30)
      <3>3. FcRefersTo(l, f, f)' = (n + n) + k + p
        BY <2>2, <2>3, <3>1
      <3> QED
        BY <3>1, <3>2, <3>3, Zenon
    <2> HIDE DEF p, k
    <2> QED
      BY <1>1, <2>1, <2>4
  <1>16. FcHandlers' /\ FcStore' /\ FcLists' /\ FcAccounts'
    BY <1>1, <1>6, <1>12, <1>13, <1>14, <1>15, Zenon DEF FcLaws, ChangeStepLaw
  <1>17. FcCallbacks'
    <2>1. \A g \in FcFetches : FcPosted("call", g)' = IF fcFetch'[g].at = "called" THEN 1 ELSE 0
      <3>1. \A g \in FcFetches : FcPosted("call", g)' = FcPosted("call", g)
        BY <1>1, <1>4, SMTT(30) DEF FcLaws, PostedNatLaw
      <3> QED
        BY <1>1, <1>3, <3>1, Zenon DEF FcInv, FcCallbacks
    <2> QED
      BY <1>4, <2>1, Zenon DEF FcCallbacks, FcOnLoops
  <1>18. FetchTypeOK'
    <2>1. DOMAIN fcCtx' \subseteq FcFetches /\ \A x \in DOMAIN fcCtx' : fcCtx'[x] \in FcContexts
      BY <1>1, <1>2, Zenon
    <2>2. fcRes' = fcRes
      BY Zenon
    <2> QED
      BY <1>1, <1>2, <1>3, <1>4, <1>5, <1>11, <2>1, <2>2, ZenonT(30) DEF FetchTypeOK, FcFetchSet, FcJobSet
  <1> QED
    BY <1>2, <1>16, <1>17, <1>18, Zenon DEF FcInv, FcAsserts

\* A call that is refused before it refers to a context.
LEMMA Refused ==
  ASSUME FcLaws, FcInv, NEW l \in FcLoops, fcLoop[l].at \in FcNowhere, NEW f \in FcFetches,
         fcFetch[f].at \in {"new", "calling"}, FcLoopOf(f) = l, FcRefuse(f), FcGoto(l, FcIdle),
         UNCHANGED <<fcCtx, fcTable, fcCount, fcJobs, fcRes, fcFailed>>
  PROVE  FcInv'
  <1>1. /\ fcFetch \in [FcFetches -> FcFetchSet] /\ fcLoop \in [FcLoops -> FcPlaces]
        /\ fcRes' \in FcResSet /\ FcAsserts'
    BY Zenon DEF FcInv, FetchTypeOK, FcFetchSet, FcResSet, FcAsserts
  <1>2. FcIdle \in FcPlaces /\ FcIdle.at = "idle" /\ ~FcIdle.new /\ FcIdle.at \in FcNowhere
    BY DEF FcIdle, FcPlaces, FcNowhere
  <1>3. /\ fcFetch' \in [FcFetches -> FcFetchSet] /\ fcFetch'[f].at = "refused"
        /\ \A g \in FcFetches : g # f => fcFetch'[g] = fcFetch[g]
    BY <1>1, Zenon DEF FcRefuse, FcFetchSet
  <1>4. fcLoop'[l] = FcIdle
    BY <1>1, Zenon DEF FcGoto
  <1>5. FcHandler(l)'
    BY <1>2, <1>4, Zenon DEF FcHandler
  <1>6. FcFetchKept(l)
    BY <1>3, Zenon DEF FcFetchKept, FcInv, FcLists
  <1> QED
    BY <1>1, <1>2, <1>3, <1>5, <1>6, Zenon DEF FcLaws, QuietInvLaw

\* A call of createfetch starts.
LEMMA CreatefetchInv ==
  ASSUME FcLaws, FcInv, NEW f \in FcFetches, FcCreatefetch(f)
  PROVE  FcInv'
  <1>a. PICK l \in FcLoops : l = FcLoopOf(f)
    BY Zenon DEF FcLaws, LoopOfLaw
  <1>1. /\ FcIsIdle(l) /\ fcFetch[f].at = "new"
        /\ UNCHANGED <<fcCtx, fcTable, fcCount, fcJobs, fcRes, fcFailed>>
        /\ fcFetch \in [FcFetches -> FcFetchSet] /\ fcLoop \in [FcLoops -> FcPlaces]
        /\ fcRes' \in FcResSet /\ fcRes.spillat \in Nat /\ FcAsserts'
    BY <1>a, Zenon DEF FcCreatefetch, FcInv, FetchTypeOK, FcFetchSet, FcResSet, FcAsserts
  <1>2. fcLoop[l] = FcIdle /\ fcLoop[l].at \in FcNowhere /\ l \in FcLoops
    BY <1>a, <1>1 DEF FcIsIdle, FcIdle, FcNowhere
  <1>3. CASE fcRes.exiting
    <2>1. FcRefuse(f) /\ fcLoop' = fcLoop
      BY <1>a, <1>3, Zenon DEF FcCreatefetch
    <2>2. FcGoto(l, FcIdle)
      BY <1>1, <1>2, <2>1, Zenon DEF FcGoto
    <2> QED
      BY <1>a, <1>1, <1>2, <2>1, <2>2, Refused, Zenon
  <1>4. CASE ~fcRes.exiting
    <2>1. PICK pc : pc = [FcIdle EXCEPT !.at = IF FcCall[f].shared THEN "find" ELSE "unshared",
                                        !.fetch = f, !.spillat = fcRes.spillat]
      BY Zenon
    <2>2. FcGoto(l, pc) /\ fcFetch' = [fcFetch EXCEPT ![f].at = "calling"]
      BY <1>a, <1>4, <2>1, Zenon DEF FcCreatefetch
    <2>3. /\ pc \in FcPlaces /\ pc.at = (IF FcCall[f].shared THEN "find" ELSE "unshared")
          /\ pc.fetch = f /\ ~pc.new /\ pc.at \in FcNowhere
      <3>1. FcIdle \in FcPlaces /\ ~FcIdle.new
        BY DEF FcIdle, FcPlaces
      <3> QED
        BY <1>1, <2>1, <3>1, Zenon DEF FcPlaces, FcNowhere
    <2>4. /\ fcFetch' \in [FcFetches -> FcFetchSet] /\ fcFetch'[f].at = "calling"
          /\ \A g \in FcFetches : g # f => fcFetch'[g] = fcFetch[g]
      BY <1>1, <2>2, Zenon DEF FcFetchSet
    <2>5. fcLoop'[l] = pc
      BY <1>1, <1>2, <2>2, Zenon DEF FcGoto
    <2>6. f \notin DOMAIN fcCtx
      BY <1>1, Zenon DEF FcInv, FcStore, FcTidy
    <2>7. FcHandler(l)'
      BY <1>a, <1>1, <2>3, <2>4, <2>5, <2>6, FetchAssumption, Zenon DEF FcHandler
    <2>8. FcFetchKept(l)
      BY <1>1, <2>4, Zenon DEF FcFetchKept, FcInv, FcLists
    <2> QED
      BY <1>1, <1>2, <2>2, <2>3, <2>4, <2>7, <2>8, Zenon DEF FcLaws, QuietInvLaw
  <1> QED
    BY <1>3, <1>4, Zenon

\* An unshared fetch is refused, or has a context of its own.
LEMMA UnsharedInv ==
  ASSUME FcLaws, FcInv, NEW l \in FcLoops, FcUnshared(l)
  PROVE  FcInv'
  <1>a. PICK f : f = fcLoop[l].fetch
    BY Zenon
  <1>1. /\ fcLoop[l].at = "unshared" /\ FcGoto(l, FcIdle)
        /\ fcTable' = fcTable /\ fcRes' = fcRes /\ fcFailed' = fcFailed
    BY Zenon DEF FcUnshared
  <1>2. /\ f \in FcFetches /\ FcLoopOf(f) = l /\ fcFetch[f].at = "calling" /\ ~FcCall[f].shared
        /\ fcLoop \in [FcLoops -> FcPlaces] /\ FcKey(f) \in FcKeys
    <2>1. /\ f \in FcFetches /\ FcLoopOf(f) = l /\ fcFetch[f].at = "calling" /\ ~FcCall[f].shared
      BY <1>a, <1>1, Zenon DEF FcInv, FcHandlers, FcHandler
    <2> QED
      BY <2>1, Zenon DEF FcInv, FetchTypeOK, FcLaws, LoopOfLaw
  <1>3. CASE FcQuota(FcKey(f))
    <2>1. FcRefuse(f) /\ fcCtx' = fcCtx /\ fcCount' = fcCount /\ fcJobs' = fcJobs
      BY <1>a, <1>3, Zenon DEF FcUnshared
    <2> QED
      BY <1>1, <1>2, <2>1, Refused, Zenon DEF FcNowhere
  <1>4. CASE ~FcQuota(FcKey(f))
    <2>1. PICK ctx : ctx = [FcNewCtx(f) EXCEPT !.refs = 3, !.resps = {f}]
      BY Zenon
    <2>2. /\ fcCtx' = FcWith(f, ctx) /\ fcCount' = FcIncr(FcKey(f)) /\ fcFetch' = FcWaitsOn(f, f)
          /\ FcPost(l, [job |-> "start", of |-> f])
      BY <1>a, <1>4, <2>1, Zenon DEF FcUnshared
    <2>3. /\ ctx \in FcContexts /\ ctx.key = FcKey(f) /\ ctx.counted = (FcZspill # 0)
          /\ ~ctx.done /\ ~ctx.cloned /\ ~ctx.hashed /\ ctx.refs = 3 /\ ctx.resps = {f}
      <3>1. FcNewCtx(f) \in FcContexts
        BY <1>2 DEF FcNewCtx, FcContexts
      <3>2. ctx \in FcContexts /\ ctx.refs = 3 /\ ctx.resps = {f}
        <4>1. PICK r : r = [FcNewCtx(f) EXCEPT !.refs = 3]
          BY Zenon
        <4>2. r \in FcContexts /\ r.refs = 3
          BY <3>1, <4>1 DEF FcContexts
        <4>3. ctx = [r EXCEPT !.resps = {f}]
          BY <2>1, <4>1, Zenon
        <4> QED
          BY <1>2, <4>2, <4>3, Zenon DEF FcContexts
      <3>3. /\ ctx.key = FcKey(f) /\ ctx.counted = (FcZspill # 0) /\ ~ctx.done /\ ~ctx.cloned
            /\ ~ctx.hashed
        BY <2>1, Zenon DEF FcNewCtx
      <3> QED
        BY <3>2, <3>3, Zenon
    <2>4. FcIdle \in FcPlaces /\ FcIdle.at = "idle" /\ ~FcIdle.new
      BY DEF FcIdle, FcPlaces
    <2>5. fcLoop'[l] = FcIdle
      BY <1>1, <1>2, Zenon DEF FcGoto
    <2>6. FcHandler(l)'
      BY <2>4, <2>5, Zenon DEF FcHandler
    <2>7. FcStarts(l, f, ctx, FcIdle, 1)
      BY <2>2, <2>3, <2>4 DEF FcStarts
    <2> QED
      BY <1>a, <1>1, <1>2, <1>4, <2>2, <2>3, <2>4, <2>6, <2>7, NewInv, Zenon
  <1> QED
    BY <1>3, <1>4, Zenon

\* A context found in the table is referenced under the lock of the table.
FcRefersNow(l, c) ==
  /\ fcCtx' = [fcCtx EXCEPT ![c].refs = @ + 1]
  /\ FcGoto(l, [fcLoop[l] EXCEPT !.at = "lock", !.ctx = c])

\* get_attached_fctx finds a context in the table and takes a reference to it.
LEMMA Found ==
  ASSUME FcLaws, FcInv, NEW l \in FcLoops, fcLoop[l].at = "find", NEW f,
         f = fcLoop[l].fetch,
         NEW c, c = fcTable[FcKey(f)], c # FcNone, FcRefersNow(l, c),
         UNCHANGED <<fcTable, fcCount, fcFetch, fcJobs, fcRes, fcFailed>>
  PROVE  FcInv'
  <1>a. PICK pc : pc = [fcLoop[l] EXCEPT !.at = "lock", !.ctx = c]
    BY Zenon
  <1>1. /\ f \in FcFetches /\ FcLoopOf(f) = l /\ fcFetch[f].at = "calling" /\ FcCall[f].shared
        /\ f \notin DOMAIN fcCtx /\ ~fcLoop[l].new /\ fcLoop[l] \in FcPlaces
        /\ fcLoop \in [FcLoops -> FcPlaces] /\ fcJobs \in [FcLoops -> Seq(FcJobSet)] /\ FetchTypeOK
    <2>1. /\ f \in FcFetches /\ FcLoopOf(f) = l /\ fcFetch[f].at = "calling" /\ FcCall[f].shared
          /\ f \notin DOMAIN fcCtx /\ ~fcLoop[l].new
      BY Zenon DEF FcInv, FcHandlers, FcHandler, FetchTypeOK
    <2> QED
      BY <2>1, Zenon DEF FcInv, FetchTypeOK, FcJobSet
  <1>2. /\ c \in DOMAIN fcCtx /\ c \in FcFetches /\ fcCtx[c] \in FcContexts /\ FcTidy(c)
        /\ DOMAIN fcCtx \subseteq FcFetches /\ \A x \in DOMAIN fcCtx : fcCtx[x] \in FcContexts
        /\ FcLoopOf(c) \in FcLoops
    <2>1. c \in DOMAIN fcCtx /\ DOMAIN fcCtx \subseteq FcFetches
      BY <1>1, Zenon DEF FcInv, FcStore, FetchTypeOK, FcLaws, LoopOfLaw
    <2> QED
      BY <2>1, Zenon DEF FcInv, FcStore, FetchTypeOK, FcLaws, LoopOfLaw
  <1>r. fcCtx[c].hashed
    <2>1. FcKey(c) = FcKey(f)
      BY <1>1, Zenon DEF FcInv, FcStore, FcLaws, LoopOfLaw
    <2> QED
      BY <1>2, <2>1, Zenon DEF FcTidy
  <1>3. /\ DOMAIN fcCtx' = DOMAIN fcCtx /\ \A x \in DOMAIN fcCtx : x # c => fcCtx'[x] = fcCtx[x]
        /\ fcCtx'[c] \in FcContexts /\ fcCtx'[c].resps = fcCtx[c].resps
        /\ fcCtx'[c].key = fcCtx[c].key /\ fcCtx'[c].done = fcCtx[c].done
        /\ fcCtx'[c].hashed = fcCtx[c].hashed /\ fcCtx'[c].cloned = fcCtx[c].cloned
        /\ fcCtx'[c].counted = fcCtx[c].counted /\ fcCtx'[c].refs = fcCtx[c].refs + 1
        /\ fcCtx[c].refs \in Nat
    <2>1. fcCtx[c].refs \in Nat /\ fcCtx[c].refs + 1 \in Nat \ {0}
      BY <1>2 DEF FcContexts
    <2>2. PICK r : r = [fcCtx[c] EXCEPT !.refs = fcCtx[c].refs + 1]
      BY Zenon
    <2>3. /\ r \in FcContexts /\ r.resps = fcCtx[c].resps /\ r.key = fcCtx[c].key
          /\ r.done = fcCtx[c].done /\ r.hashed = fcCtx[c].hashed /\ r.cloned = fcCtx[c].cloned
          /\ r.counted = fcCtx[c].counted /\ r.refs = fcCtx[c].refs + 1
      BY <1>2, <2>1, <2>2 DEF FcContexts
    <2>4. fcCtx' = [fcCtx EXCEPT ![c] = r]
      BY <2>2, Zenon DEF FcRefersNow
    <2> QED
      BY <1>2, <2>1, <2>3, <2>4, Zenon
  <1>4. pc \in FcPlaces /\ pc.at = "lock" /\ pc.ctx = c /\ ~pc.new /\ pc.fetch = f
    BY <1>a, <1>1, <1>2, Zenon DEF FcPlaces
  <1>5. /\ fcLoop' \in [FcLoops -> FcPlaces] /\ fcLoop'[l] = pc
        /\ \A m \in FcLoops : m # l => fcLoop'[m] = fcLoop[m]
    BY <1>a, <1>1, <1>4, Zenon DEF FcGoto, FcRefersNow
  <1>6. FcQueuesOK' /\ FcElsewhere(l)
    BY <1>1, <1>5, Zenon DEF FcQueuesOK, FcElsewhere
  <1>7. /\ FcFetchKept(l)
        /\ \A g, x : FcUse(g, x)' = FcUse(g, x) /\ (FcWaitsFor(g, x)' <=> FcWaitsFor(g, x))
    BY Zenon DEF FcLaws, FetchSameLaw
  <1>8. /\ \A x \in FcFetches : FcDrops(l, x) = 0 /\ FcDrops(l, x)' = 0 /\ FcLocks(l, x) = 0
        /\ \A x \in FcFetches : FcLocks(l, x)' = IF x = c THEN 1 ELSE 0
        /\ \A j, x : FcPosted(j, x)' = FcPosted(j, x)
    BY <1>4, <1>5, Zenon DEF FcLocks, FcDrops, FcPosted
  <1>9. \A x \in FcFetches : x # c => FcSameFor(l, x)
    BY <1>7, <1>8, Zenon DEF FcSameFor
  <1>10. FcHandler(l)'
    BY <1>1, <1>2, <1>3, <1>4, <1>5, Zenon DEF FcHandler
  <1>11. FcOneChanged(c) /\ FcSafeFor(l, c) /\ FcAllForOne(l, f, c)
    <2>1. FcOneChanged(c)
      BY <1>2, <1>3, Zenon DEF FcOneChanged
    <2>2. FcSafeFor(l, c)
      BY <1>3, Zenon DEF FcSafeFor
    <2>3. FcAllForOne(l, f, c)
      BY <1>r, <1>1, <1>6, <1>7, <1>9, Zenon DEF FcAllForOne, FcReached
    <2> QED
      BY <2>1, <2>2, <2>3, Zenon
  <1>12. FcTidy(c)'
    <2>1. FcSettled(c)
      BY <1>2, <1>3, <1>5, <1>7, ZenonT(30) DEF FcSettled, FcFetchKept
    <2> QED
      BY <1>2, <2>1, Zenon DEF FcLaws, TidyKeptLaw
  <1>13. \A g \in FcFetches : g \in fcCtx'[c].resps <=> FcWaitsFor(g, c)'
    <2>1. \A g \in FcFetches : g \in fcCtx[c].resps <=> FcWaitsFor(g, c)
      BY <1>2, Zenon DEF FcInv, FcLists, FcWaitsFor
    <2> QED
      BY <1>3, <1>7, <2>1, Zenon
  <1>14. /\ FcRefs(c)' \in Nat
         /\ FcRefs(c)' + FcRefersTo(l, f, c) + FcAlive(c) = FcRefs(c) + FcRefersTo(l, f, c)' + FcAlive(c)'
    <2>1. /\ FcRefs(c) = fcCtx[c].refs /\ FcRefs(c)' = fcCtx[c].refs + 1 /\ fcCtx[c].refs \in Nat
          /\ FcAlive(c)' = FcAlive(c) /\ FcAlive(c) \in Nat
      BY <1>2, <1>3, Zenon DEF FcRefs, FcAlive
    <2>2. /\ FcUse(f, c) \in Nat /\ FcUse(f, c)' = FcUse(f, c)
          /\ FcPosted("start", c) \in Nat /\ FcPosted("shutdown", c) \in Nat
      BY <1>1, <1>2, <1>7, Zenon DEF FcUse, FcLaws, PostedNatLaw
    <2>3. FcRefersTo(l, f, c)' = FcRefersTo(l, f, c) + 1 /\ FcRefersTo(l, f, c) \in Nat
      BY <1>2, <1>8, <2>2 DEF FcRefersTo
    <2> QED
      BY <2>1, <2>3
  <1>15. FcHandlers' /\ FcStore' /\ FcLists' /\ FcAccounts'
    BY <1>1, <1>2, <1>6, <1>10, <1>11, <1>12, <1>13, <1>14, Zenon DEF FcLaws, ChangeStepLaw
  <1>16. FcCounters'
    BY <1>3, ZenonT(30) DEF FcInv, FcLaws, CountersKeptLaw
  <1>17. FcCallbacks'
    BY <1>8, Zenon DEF FcInv, FcCallbacks
  <1>18. FetchTypeOK'
    BY <1>2, <1>3, <1>5, Zenon DEF FcInv, FetchTypeOK
  <1> QED
    BY <1>15, <1>16, <1>17, <1>18, Zenon DEF FcInv, FcAsserts

\* createfetch under the lock of the table.
LEMMA FindInv ==
  ASSUME FcLaws, FcInv, NEW l \in FcLoops, FcFind(l)
  PROVE  FcInv'
  <1>a. PICK f : f = fcLoop[l].fetch
    BY Zenon
  <1>1. /\ fcLoop[l].at = "find" /\ fcJobs' = fcJobs /\ fcRes' = fcRes /\ fcFailed' = fcFailed
    BY Zenon DEF FcFind
  <1>2. /\ f \in FcFetches /\ FcLoopOf(f) = l /\ fcFetch[f].at = "calling" /\ FcCall[f].shared
        /\ ~fcLoop[l].new /\ fcLoop[l] \in FcPlaces /\ fcLoop \in [FcLoops -> FcPlaces]
        /\ FcKey(f) \in FcKeys /\ f \notin DOMAIN fcCtx
    <2>1. /\ f \in FcFetches /\ FcLoopOf(f) = l /\ fcFetch[f].at = "calling" /\ FcCall[f].shared
          /\ ~fcLoop[l].new /\ f \notin DOMAIN fcCtx
      BY <1>a, <1>1, Zenon DEF FcInv, FcHandlers, FcHandler, FetchTypeOK
    <2> QED
      BY <2>1, Zenon DEF FcInv, FetchTypeOK, FcLaws, LoopOfLaw
  <1>3. CASE fcTable[FcKey(f)] # FcNone
    <2>1. PICK c : c = fcTable[FcKey(f)]
      BY Zenon
    <2>2. /\ fcCtx' = [fcCtx EXCEPT ![c].refs = @ + 1]
          /\ FcGoto(l, [fcLoop[l] EXCEPT !.at = "lock", !.ctx = c])
          /\ fcTable' = fcTable /\ fcCount' = fcCount /\ fcFetch' = fcFetch
      BY <1>a, <1>3, <2>1, Zenon DEF FcFind
    <2> QED
      BY <1>a, <1>1, <1>3, <2>1, <2>2, Found, ZenonT(30) DEF FcRefersNow
  <1>4. CASE fcTable[FcKey(f)] = FcNone /\ FcQuota(FcKey(f))
    <2>1. FcRefuse(f) /\ FcGoto(l, FcIdle) /\ UNCHANGED <<fcCtx, fcTable, fcCount>>
      BY <1>a, <1>4, Zenon DEF FcFind
    <2> QED
      BY <1>1, <1>2, <2>1, Refused, Zenon DEF FcNowhere
  <1>5. CASE fcTable[FcKey(f)] = FcNone /\ ~FcQuota(FcKey(f))
    <2>1. /\ fcCount' = FcIncr(FcKey(f)) /\ fcFetch' = fcFetch
      BY <1>a, <1>5, Zenon DEF FcFind
    <2>2. FcNewCtx(f) \in FcContexts
      BY <1>2 DEF FcNewCtx, FcContexts
    <2>3. CASE fcLoop[l].write
      <3>1. PICK ctx : ctx = [FcNewCtx(f) EXCEPT !.refs = 2, !.hashed = TRUE]
        BY Zenon
      <3>2. PICK pc : pc = [fcLoop[l] EXCEPT !.at = "lock", !.ctx = f, !.new = TRUE]
        BY Zenon
      <3>3. /\ fcCtx' = FcWith(f, ctx) /\ fcTable' = [fcTable EXCEPT ![FcKey(f)] = f] /\ FcGoto(l, pc)
        BY <1>a, <1>5, <2>3, <3>1, <3>2, Zenon DEF FcFind
      <3>4. /\ ctx \in FcContexts /\ ctx.key = FcKey(f) /\ ctx.counted = (FcZspill # 0)
            /\ ~ctx.done /\ ~ctx.cloned /\ ctx.hashed /\ ctx.refs = 2 /\ ctx.resps = {}
        <4>1. ctx \in FcContexts /\ ctx.refs = 2 /\ ctx.hashed
          <5>1. PICK r : r = [FcNewCtx(f) EXCEPT !.refs = 2]
            BY Zenon
          <5>2. r \in FcContexts /\ r.refs = 2
            BY <2>2, <5>1 DEF FcContexts
          <5>3. ctx = [r EXCEPT !.hashed = TRUE]
            BY <3>1, <5>1, Zenon
          <5> QED
            BY <5>2, <5>3, Zenon DEF FcContexts
        <4>2. /\ ctx.key = FcKey(f) /\ ctx.counted = (FcZspill # 0) /\ ~ctx.done /\ ~ctx.cloned
              /\ ctx.resps = {}
          BY <3>1, Zenon DEF FcNewCtx
        <4> QED
          BY <4>1, <4>2, Zenon
      <3>5. pc \in FcPlaces /\ pc.at = "lock" /\ pc.ctx = f /\ pc.new /\ pc.fetch = f
        BY <1>a, <1>2, <3>2, Zenon DEF FcPlaces
      <3>6. fcLoop'[l] = pc /\ f \in DOMAIN fcCtx' /\ fcCtx'[f] = ctx
        BY <1>2, <3>3, Zenon DEF FcGoto, FcWith
      <3>7. FcHandler(l)'
        BY <1>2, <2>1, <3>4, <3>5, <3>6, Zenon DEF FcHandler
      <3>8. FcStarts(l, f, ctx, pc, 0)
        BY <1>1, <2>1, <3>4, <3>5 DEF FcStarts
      <3> QED
        BY <1>a, <1>1, <1>5, <2>1, <3>3, <3>4, <3>5, <3>7, <3>8, NewInv, Zenon
    <2>4. CASE ~fcLoop[l].write
      <3>1. PICK ctx : ctx = FcNewCtx(f)
        BY Zenon
      <3>2. PICK pc : pc = [fcLoop[l] EXCEPT !.at = "add"]
        BY Zenon
      <3>3. /\ fcCtx' = FcWith(f, ctx) /\ fcTable' = fcTable /\ FcGoto(l, pc)
        BY <1>a, <1>5, <2>4, <3>1, <3>2, Zenon DEF FcFind
      <3>4. /\ ctx \in FcContexts /\ ctx.key = FcKey(f) /\ ctx.counted = (FcZspill # 0)
            /\ ~ctx.done /\ ~ctx.cloned /\ ~ctx.hashed /\ ctx.refs = 1 /\ ctx.resps = {}
        BY <2>2, <3>1, Zenon DEF FcNewCtx
      <3>5. pc \in FcPlaces /\ pc.at = "add" /\ ~pc.new /\ pc.fetch = f
        BY <1>a, <1>2, <3>2, Zenon DEF FcPlaces
      <3>6. fcLoop'[l] = pc /\ f \in DOMAIN fcCtx' /\ fcCtx'[f] = ctx
        BY <1>2, <3>3, Zenon DEF FcGoto, FcWith
      <3>7. FcHandler(l)'
        BY <1>2, <2>1, <3>4, <3>5, <3>6, Zenon DEF FcHandler
      <3>8. FcStarts(l, f, ctx, pc, 0)
        BY <1>1, <2>1, <3>4, <3>5 DEF FcStarts
      <3> QED
        BY <1>a, <1>1, <1>5, <2>1, <3>3, <3>4, <3>5, <3>7, <3>8, NewInv, Zenon
    <2> QED
      BY <2>3, <2>4, Zenon
  <1> QED
    BY <1>3, <1>4, <1>5, Zenon

\* The new context is inserted, and its creator goes on to its lock.
LEMMA Inserted ==
  ASSUME FcLaws, FcInv, NEW l \in FcLoops, fcLoop[l].at = "add", NEW f, f = fcLoop[l].fetch,
         fcTable[FcKey(f)] = FcNone,
         fcCtx' = [fcCtx EXCEPT ![f].hashed = TRUE, ![f].refs = @ + 1],
         fcTable' = [fcTable EXCEPT ![FcKey(f)] = f],
         FcGoto(l, [[fcLoop[l] EXCEPT !.at = "lock", !.write = TRUE] EXCEPT !.ctx = f, !.new = TRUE]),
         UNCHANGED <<fcCount, fcFailed, fcFetch, fcJobs, fcRes>>
  PROVE  FcInv'
  <1>a. PICK pc : pc = [[fcLoop[l] EXCEPT !.at = "lock", !.write = TRUE] EXCEPT !.ctx = f, !.new = TRUE]
    BY Zenon
  <1>1. /\ f \in FcFetches /\ FcLoopOf(f) = l /\ fcFetch[f].at = "calling" /\ FcCall[f].shared
        /\ f \in DOMAIN fcCtx /\ ~fcCtx[f].done
    BY Zenon DEF FcInv, FcHandlers, FcHandler
  <1>2. /\ fcLoop[l] \in FcPlaces /\ fcLoop \in [FcLoops -> FcPlaces] /\ fcCtx[f] \in FcContexts
        /\ fcJobs \in [FcLoops -> Seq(FcJobSet)] /\ FetchTypeOK
        /\ fcTable \in [FcKeys -> FcFetches \cup {FcNone}] /\ FcKey(f) \in FcKeys
        /\ DOMAIN fcCtx \subseteq FcFetches /\ \A x \in DOMAIN fcCtx : fcCtx[x] \in FcContexts
        /\ FcTidy(f)
    BY <1>1, Zenon DEF FcInv, FetchTypeOK, FcJobSet, FcStore, FcLaws, LoopOfLaw
  <1>3. /\ DOMAIN fcCtx' = DOMAIN fcCtx /\ \A x \in DOMAIN fcCtx : x # f => fcCtx'[x] = fcCtx[x]
        /\ fcCtx'[f] \in FcContexts /\ fcCtx'[f].resps = fcCtx[f].resps
        /\ fcCtx'[f].key = fcCtx[f].key /\ fcCtx'[f].done = fcCtx[f].done
        /\ fcCtx'[f].hashed /\ fcCtx'[f].cloned = fcCtx[f].cloned
        /\ fcCtx'[f].counted = fcCtx[f].counted /\ fcCtx'[f].refs = fcCtx[f].refs + 1
        /\ fcCtx[f].refs \in Nat
    <2>1. fcCtx[f].refs \in Nat /\ fcCtx[f].refs + 1 \in Nat \ {0}
      BY <1>2 DEF FcContexts
    <2>2. PICK s : s = [fcCtx[f] EXCEPT !.hashed = TRUE]
      BY Zenon
    <2>3. /\ s \in FcContexts /\ s.resps = fcCtx[f].resps /\ s.key = fcCtx[f].key
          /\ s.done = fcCtx[f].done /\ s.hashed /\ s.cloned = fcCtx[f].cloned
          /\ s.counted = fcCtx[f].counted /\ s.refs = fcCtx[f].refs
      BY <1>2, <2>2, Zenon DEF FcContexts
    <2>4. PICK r : r = [s EXCEPT !.refs = fcCtx[f].refs + 1]
      BY Zenon
    <2>5. /\ r \in FcContexts /\ r.resps = fcCtx[f].resps /\ r.key = fcCtx[f].key
          /\ r.done = fcCtx[f].done /\ r.hashed /\ r.cloned = fcCtx[f].cloned
          /\ r.counted = fcCtx[f].counted /\ r.refs = fcCtx[f].refs + 1
      BY <2>1, <2>3, <2>4, Zenon DEF FcContexts
    <2>6. fcCtx' = [fcCtx EXCEPT ![f] = r]
      BY <1>1, <2>2, <2>4, Zenon
    <2> QED
      BY <1>1, <2>1, <2>5, <2>6, Zenon
  <1>4. pc \in FcPlaces /\ pc.at = "lock" /\ pc.ctx = f /\ pc.new /\ pc.fetch = f
    <2>1. PICK q : q = [fcLoop[l] EXCEPT !.at = "lock", !.write = TRUE]
      BY Zenon
    <2>2. q \in FcPlaces /\ q.at = "lock" /\ q.fetch = f
      BY <1>2, <2>1, ZenonT(30) DEF FcPlaces
    <2>3. pc = [q EXCEPT !.ctx = f, !.new = TRUE]
      BY <1>a, <2>1, Zenon
    <2> QED
      BY <1>1, <2>2, <2>3, Zenon DEF FcPlaces
  <1>5. /\ fcLoop' \in [FcLoops -> FcPlaces] /\ fcLoop'[l] = pc
        /\ \A m \in FcLoops : m # l => fcLoop'[m] = fcLoop[m]
    BY <1>a, <1>2, <1>4, Zenon DEF FcGoto
  <1>6. FcQueuesOK' /\ FcElsewhere(l)
    BY <1>2, <1>5, Zenon DEF FcQueuesOK, FcElsewhere
  <1>7. /\ FcFetchKept(l)
        /\ \A g, x : FcUse(g, x)' = FcUse(g, x) /\ (FcWaitsFor(g, x)' <=> FcWaitsFor(g, x))
    BY Zenon DEF FcLaws, FetchSameLaw
  <1>8. /\ \A x \in FcFetches : FcDrops(l, x) = 0 /\ FcDrops(l, x)' = 0 /\ FcLocks(l, x) = 0
        /\ \A x \in FcFetches : FcLocks(l, x)' = IF x = f THEN 1 ELSE 0
        /\ \A j, x : FcPosted(j, x)' = FcPosted(j, x)
    BY <1>4, <1>5, Zenon DEF FcLocks, FcDrops, FcPosted
  <1>9. \A x \in FcFetches : x # f => FcSameFor(l, x)
    BY <1>7, <1>8, Zenon DEF FcSameFor
  <1>10. FcHandler(l)'
    BY <1>1, <1>3, <1>4, <1>5, Zenon DEF FcHandler
  <1>11. FcOneChanged(f) /\ FcSafeFor(l, f) /\ FcAllForOne(l, f, f)
    <2>1. FcOneChanged(f)
      BY <1>1, <1>2, <1>3, Zenon DEF FcOneChanged
    <2>2. FcSafeFor(l, f)
      BY <1>1, Zenon DEF FcSafeFor
    <2>3. FcAllForOne(l, f, f)
      BY <1>1, <1>6, <1>7, <1>9, Zenon DEF FcAllForOne, FcReached
    <2> QED
      BY <2>1, <2>2, <2>3, Zenon
  <1>12. FcTidy(f)'
    <2>1. ~fcCtx[f].cloned
      BY <1>1, <1>2, Zenon DEF FcTidy
    <2>2. fcTable'[FcKey(f)] = f
      BY <1>2, Zenon
    <2> QED
      BY <1>1, <1>2, <1>3, <2>1, <2>2, Zenon DEF FcTidy
  <1>13. \A g \in FcFetches : g \in fcCtx'[f].resps <=> FcWaitsFor(g, f)'
    <2>1. \A g \in FcFetches : g \in fcCtx[f].resps <=> FcWaitsFor(g, f)
      BY <1>1, SMTT(30) DEF FcInv, FcLists, FcWaitsFor
    <2> QED
      BY <1>3, <1>7, <2>1, ZenonT(30)
  <1>14. /\ FcRefs(f)' \in Nat
         /\ FcRefs(f)' + FcRefersTo(l, f, f) + FcAlive(f) = FcRefs(f) + FcRefersTo(l, f, f)' + FcAlive(f)'
    <2>1. /\ FcRefs(f) = fcCtx[f].refs /\ FcRefs(f)' = fcCtx[f].refs + 1 /\ fcCtx[f].refs \in Nat
          /\ FcAlive(f)' = FcAlive(f) /\ FcAlive(f) \in Nat
      BY <1>1, <1>3, Zenon DEF FcRefs, FcAlive
    <2>2. /\ FcUse(f, f) \in Nat /\ FcUse(f, f)' = FcUse(f, f)
          /\ FcPosted("start", f) \in Nat /\ FcPosted("shutdown", f) \in Nat
      BY <1>1, <1>2, <1>7, Zenon DEF FcUse, FcLaws, PostedNatLaw
    <2>3. FcRefersTo(l, f, f)' = FcRefersTo(l, f, f) + 1 /\ FcRefersTo(l, f, f) \in Nat
      BY <1>1, <1>8, <2>2 DEF FcRefersTo
    <2> QED
      BY <2>1, <2>3
  <1>15. FcHandlers' /\ FcStore' /\ FcLists' /\ FcAccounts'
    BY <1>1, <1>6, <1>10, <1>11, <1>12, <1>13, <1>14, ZenonT(30) DEF FcLaws, ChangeStepLaw
  <1>16. FcCounters'
    BY <1>1, <1>3, Zenon DEF FcInv, FcLaws, CountersKeptLaw
  <1>17. FcCallbacks'
    BY <1>8, Zenon DEF FcInv, FcCallbacks
  <1>18. FetchTypeOK'
    BY <1>1, <1>2, <1>3, <1>5, Zenon DEF FetchTypeOK
  <1> QED
    BY <1>15, <1>16, <1>17, <1>18, Zenon DEF FcInv, FcAsserts

\* Another context, c, got there first: the creator gives up its own and takes that one.
FcGivesUp(l, f, c) ==
  /\ fcLoop[l].at = "add" /\ f = fcLoop[l].fetch /\ c = fcTable[FcKey(f)] /\ c # FcNone
  /\ FcDetach([fcCtx EXCEPT ![c].refs = @ + 1, ![f].done = TRUE], f, 1, {})
  /\ FcGoto(l, [[fcLoop[l] EXCEPT !.at = "lock", !.write = TRUE] EXCEPT !.ctx = c])
  /\ UNCHANGED <<fcTable, fcFetch, fcJobs, fcRes>>

\* Nothing but its creator refers to the context that is given up, so it is freed.
LEMMA GivenUp ==
  ASSUME FcLaws, FcInv, NEW l \in FcLoops, NEW f, NEW c, FcGivesUp(l, f, c)
  PROVE  FcInv'
  <1>0. UNCHANGED <<fcTable, fcFetch, fcJobs, fcRes>>
    BY ZenonT(30) DEF FcGivesUp
  <1>1. /\ f \in FcFetches /\ FcLoopOf(f) = l /\ fcFetch[f].at = "calling" /\ FcCall[f].shared
        /\ f \in DOMAIN fcCtx /\ ~fcCtx[f].done /\ ~fcCtx[f].hashed /\ fcCtx[f].refs = 1
        /\ ~fcLoop[l].new
    BY Zenon DEF FcGivesUp, FcInv, FcHandlers, FcHandler
  <1>2. /\ fcLoop[l] \in FcPlaces /\ fcLoop \in [FcLoops -> FcPlaces] /\ fcCtx[f] \in FcContexts
        /\ fcJobs \in [FcLoops -> Seq(FcJobSet)] /\ FetchTypeOK
        /\ fcTable \in [FcKeys -> FcFetches \cup {FcNone}] /\ FcKey(f) \in FcKeys
        /\ DOMAIN fcCtx \subseteq FcFetches /\ \A x \in DOMAIN fcCtx : fcCtx[x] \in FcContexts
        /\ FcTidy(f)
    BY <1>1, ZenonT(30) DEF FcInv, FetchTypeOK, FcJobSet, FcStore, FcLaws, LoopOfLaw
  <1>3. /\ c \in DOMAIN fcCtx /\ c \in FcFetches /\ fcCtx[c] \in FcContexts /\ c # f
        /\ fcCtx[c].hashed /\ FcKey(c) = FcKey(f)
    <2>1. c \in DOMAIN fcCtx /\ FcKey(c) = FcKey(f)
      BY <1>2, Zenon DEF FcGivesUp, FcInv, FcStore
    <2>2. c # f
      BY <1>1, <1>2, Zenon DEF FcGivesUp, FcTidy
    <2> QED
      BY <1>2, <2>1, <2>2, Zenon DEF FcGivesUp, FcInv, FcStore, FcTidy
  <1>4. FcOwed(f) = 0 /\ FcAlive(f) = 1 /\ FcRefs(f) = 1
    <2>1. FcRefs(f) = FcOwed(f) + FcAlive(f) /\ FcAlive(f) = 1 /\ FcRefs(f) = 1
      BY <1>1, Zenon DEF FcInv, FcAccounts, FcRefs, FcAlive
    <2>2. FcHeld(f) \in Nat /\ FcPosted("start", f) \in Nat /\ FcPosted("shutdown", f) \in Nat
      BY <1>1, <1>2 DEF FcHeld, FcLaws, OwedPartsLaw
    <2>3. FcOwed(f) = FcHeld(f) + (FcPosted("start", f) + FcPosted("shutdown", f))
      BY Zenon DEF FcOwed
    <2> QED
      BY <2>1, <2>2, <2>3
  <1>a. PICK pc : pc = [[fcLoop[l] EXCEPT !.at = "lock", !.write = TRUE] EXCEPT !.ctx = c]
    BY Zenon
  <1>5. pc \in FcPlaces /\ pc.at = "lock" /\ pc.ctx = c /\ ~pc.new /\ pc.fetch = f
    <2>1. PICK q : q = [fcLoop[l] EXCEPT !.at = "lock", !.write = TRUE]
      BY Zenon
    <2>2. q \in FcPlaces /\ q.at = "lock" /\ q.fetch = f /\ ~q.new
      <3>1. fcLoop[l].fetch = f
        BY Zenon DEF FcGivesUp
      <3> QED
        BY <1>1, <1>2, <2>1, <3>1, Zenon DEF FcPlaces
    <2>3. pc = [q EXCEPT !.ctx = c]
      BY <1>a, <2>1, Zenon
    <2> QED
      BY <1>3, <2>2, <2>3, Zenon DEF FcPlaces
  <1>6. /\ fcLoop' \in [FcLoops -> FcPlaces] /\ fcLoop'[l] = pc
        /\ \A m \in FcLoops : m # l => fcLoop'[m] = fcLoop[m]
    BY <1>a, <1>2, <1>5, Zenon DEF FcGivesUp, FcGoto
  <1>7. FcQueuesOK' /\ FcElsewhere(l)
    BY <1>0, <1>2, <1>6, Zenon DEF FcQueuesOK, FcElsewhere
  <1>8. /\ FcFetchKept(l)
        /\ \A g, x : FcUse(g, x)' = FcUse(g, x) /\ (FcWaitsFor(g, x)' <=> FcWaitsFor(g, x))
    BY <1>0, Zenon DEF FcLaws, FetchSameLaw
  <1>9. /\ \A x \in FcFetches : FcDrops(l, x) = 0 /\ FcDrops(l, x)' = 0 /\ FcLocks(l, x) = 0
        /\ \A x \in FcFetches : FcLocks(l, x)' = IF x = c THEN 1 ELSE 0
        /\ \A j, x : FcPosted(j, x)' = FcPosted(j, x)
    <2>1. fcLoop[l].at = "add"
      BY Zenon DEF FcGivesUp
    <2> QED
      BY <1>0, <1>5, <1>6, <2>1, Zenon DEF FcLocks, FcDrops, FcPosted
  <1>10. ASSUME NEW x \in FcFetches
         PROVE  /\ FcOwed(x) \in Nat /\ FcOwed(x)' = FcOwed(x) + (IF x = c THEN 1 ELSE 0)
                /\ \A g \in FcFetches : FcUse(g, x)' = 1 => FcOwed(x)' >= 1
    <2>1. /\ FcOwed(x) \in Nat /\ FcOwed(x)' \in Nat
          /\ FcRefersTo(l, f, x) \in Nat /\ FcRefersTo(l, f, x)' \in Nat
          /\ FcOwed(x)' + FcRefersTo(l, f, x) = FcOwed(x) + FcRefersTo(l, f, x)'
          /\ \A g \in FcFetches : FcUse(g, x)' = 1 => FcOwed(x)' >= 1
      BY <1>1, <1>7, <1>8, Zenon DEF FcLaws, OwedChangeLaw
    <2>2. /\ FcUse(f, x) \in Nat /\ FcUse(f, x)' = FcUse(f, x)
          /\ FcPosted("start", x) \in Nat /\ FcPosted("shutdown", x) \in Nat
      BY <1>2, <1>8, ZenonT(30) DEF FcUse, FcLaws, PostedNatLaw
    <2>3. FcRefersTo(l, f, x)' = FcRefersTo(l, f, x) + (IF x = c THEN 1 ELSE 0)
      BY <1>9, <2>2 DEF FcRefersTo
    <2> QED
      BY <2>1, <2>3
  <1>11. fcCtx[f].resps = {}
    <2>1. \A g \in FcFetches : g \in fcCtx[f].resps => FcUse(g, f)' = 1
      <3>1. \A g \in FcFetches : g \in fcCtx[f].resps => FcUse(g, f) = 1
        BY <1>1 DEF FcInv, FcLists, FcUse
      <3> QED
        BY <1>8, <3>1, Zenon
    <2>2. FcOwed(f)' = 0
      BY <1>1, <1>3, <1>4, <1>10
    <2>3. fcCtx[f].resps \subseteq FcFetches
      BY <1>2, Zenon DEF FcContexts
    <2> QED
      BY <1>1, <1>10, <2>1, <2>2, <2>3
  <1> DEFINE ctxs == [fcCtx EXCEPT ![c].refs = @ + 1, ![f].done = TRUE]
  <1>12. /\ DOMAIN ctxs = DOMAIN fcCtx
         /\ \A x \in DOMAIN fcCtx : x \notin {c, f} => ctxs[x] = fcCtx[x]
         /\ ctxs[c] \in FcContexts /\ ctxs[c].resps = fcCtx[c].resps
         /\ ctxs[c].key = fcCtx[c].key /\ ctxs[c].done = fcCtx[c].done
         /\ ctxs[c].hashed = fcCtx[c].hashed /\ ctxs[c].cloned = fcCtx[c].cloned
         /\ ctxs[c].counted = fcCtx[c].counted /\ ctxs[c].refs = fcCtx[c].refs + 1
         /\ fcCtx[c].refs \in Nat
         /\ ctxs[f] \in FcContexts /\ ctxs[f].done /\ ctxs[f].resps = {} /\ ctxs[f].refs = 1
         /\ ctxs[f].key = fcCtx[f].key /\ ctxs[f].counted = fcCtx[f].counted
    <2>1. fcCtx[c].refs \in Nat /\ fcCtx[c].refs + 1 \in Nat \ {0}
      BY <1>3 DEF FcContexts
    <2>2. PICK r : r = [fcCtx[c] EXCEPT !.refs = fcCtx[c].refs + 1]
      BY Zenon
    <2>3. /\ r \in FcContexts /\ r.resps = fcCtx[c].resps /\ r.key = fcCtx[c].key
          /\ r.done = fcCtx[c].done /\ r.hashed = fcCtx[c].hashed /\ r.cloned = fcCtx[c].cloned
          /\ r.counted = fcCtx[c].counted /\ r.refs = fcCtx[c].refs + 1
      BY <1>3, <2>1, <2>2, Zenon DEF FcContexts
    <2>4. PICK s : s = [fcCtx[f] EXCEPT !.done = TRUE]
      BY Zenon
    <2>5. /\ s \in FcContexts /\ s.done /\ s.resps = {} /\ s.refs = 1
          /\ s.key = fcCtx[f].key /\ s.counted = fcCtx[f].counted
      BY <1>1, <1>2, <1>11, <2>4, Zenon DEF FcContexts
    <2>6. ctxs = [[fcCtx EXCEPT ![c] = r] EXCEPT ![f] = s]
      BY <1>1, <1>3, <2>2, <2>4, Zenon
    <2> HIDE DEF ctxs
    <2> QED
      BY <1>1, <1>3, <2>1, <2>3, <2>5, <2>6, Zenon
  <1>13. FcDetach(ctxs, f, 1, {})
    BY Zenon DEF FcGivesUp
  <1> HIDE DEF ctxs
  <1>14. /\ fcFailed' = fcFailed /\ FcCounters' /\ fcCount' \in [FcDomains -> Nat]
         /\ \A x \in DOMAIN fcCtx' : fcCtx'[x] \in FcContexts
         /\ FcLess(ctxs, f, 1)
    <2>1. \A x \in DOMAIN fcCtx : /\ ctxs[x] \in FcContexts /\ ctxs[x].key = fcCtx[x].key
                                 /\ ctxs[x].counted = fcCtx[x].counted
      BY <1>2, <1>12, Zenon
    <2> QED
      BY <1>1, <1>12, <1>13, <2>1 DEF FcLaws, DetachedLaw
  <1>15. /\ DOMAIN fcCtx' = DOMAIN fcCtx \ {f}
         /\ \A x \in DOMAIN fcCtx' : x # c => fcCtx'[x] = fcCtx[x]
         /\ FcRefs(f)' = 0 /\ FcAlive(f)' = 0
         /\ fcCtx'[c].resps = fcCtx[c].resps /\ fcCtx'[c].key = fcCtx[c].key
         /\ fcCtx'[c].done = fcCtx[c].done /\ fcCtx'[c].hashed = fcCtx[c].hashed
         /\ fcCtx'[c].cloned = fcCtx[c].cloned /\ fcCtx'[c].refs = fcCtx[c].refs + 1
    <2>1. DOMAIN fcCtx' = DOMAIN fcCtx \ {f} /\ FcRefs(f)' = 0 /\ FcAlive(f)' = 0
      BY <1>12, <1>14 DEF FcLess
    <2>2. \A x \in DOMAIN fcCtx' : fcCtx'[x] = ctxs[x]
      BY <1>14, <2>1, Zenon DEF FcLess
    <2> QED
      BY <1>3, <1>12, <2>1, <2>2, Zenon
  <1>16. FcHandlers'
    <2>1. ASSUME NEW m \in FcLoops, m # l PROVE FcHandler(m)'
      <3>1. FcUndisturbed(m)
        BY <1>0, <1>1, <1>3, <1>6, <1>15, <2>1, Zenon DEF FcUndisturbed
      <3> QED
        BY <3>1, Zenon DEF FcInv, FcHandlers, FcLaws, HandlerKeptLaw
    <2>2. FcHandler(l)'
      BY <1>0, <1>1, <1>3, <1>5, <1>6, <1>15, Zenon DEF FcHandler
    <2> QED
      BY <2>1, <2>2, Zenon DEF FcHandlers
  <1>17. FcStore'
    <2>1. ASSUME NEW x \in DOMAIN fcCtx' PROVE FcTidy(x)'
      <3>1. x \in DOMAIN fcCtx /\ x # f /\ x \in FcFetches /\ FcTidy(x) /\ FcLoopOf(x) \in FcLoops
        BY <1>2, <1>15, Zenon DEF FcInv, FcStore, FcLaws, LoopOfLaw
      <3>2. FcSettled(x)
        <4>1. fcLoop[l].at = "add" /\ fcLoop[l].fetch = f
          BY Zenon DEF FcGivesUp
        <4> QED
          BY <1>0, <1>6, <1>15, <3>1, <4>1, Zenon DEF FcSettled
      <3> QED
        BY <3>1, <3>2, Zenon DEF FcLaws, TidyKeptLaw
    <2>2. ASSUME NEW k \in FcKeys, fcTable[k] # FcNone
          PROVE  fcTable[k] \in DOMAIN fcCtx' /\ FcKey(fcTable[k]) = k
      <3>1. fcTable[k] \in DOMAIN fcCtx /\ FcKey(fcTable[k]) = k
        BY <2>2, Zenon DEF FcInv, FcStore
      <3>2. fcTable[k] # f
        BY <1>3, <3>1, Zenon DEF FcGivesUp
      <3> QED
        BY <1>15, <3>1, <3>2, Zenon
    <2> QED
      BY <1>0, <2>1, <2>2, Zenon DEF FcStore
  <1>18. FcLists'
    <2>1. \A g \in FcFetches : \A x \in DOMAIN fcCtx : g \in fcCtx[x].resps <=> FcWaitsFor(g, x)
      BY Zenon DEF FcInv, FcLists, FcWaitsFor
    <2>2. \A g \in FcFetches : \A x \in DOMAIN fcCtx' : g \in fcCtx'[x].resps <=> FcWaitsFor(g, x)'
      BY <1>8, <1>15, <2>1, Zenon
    <2> QED
      BY <1>8, <2>2, Zenon DEF FcLists, FcWaitsFor, FcFetchKept
  <1>19. FcAccounts'
    <2> SUFFICES ASSUME NEW x \in FcFetches PROVE FcRefs(x)' = FcOwed(x)' + FcAlive(x)'
      BY Zenon DEF FcAccounts
    <2>1. FcRefs(x) = FcOwed(x) + FcAlive(x) /\ FcAlive(x) \in Nat
      BY Zenon DEF FcInv, FcAccounts, FcAlive
    <2>2. CASE x = f
      BY <1>3, <1>4, <1>10, <1>15, <2>2, SMTT(30)
    <2>3. CASE x = c
      <3>1. c \in DOMAIN fcCtx' /\ c # f
        BY <1>3, <1>15, Zenon
      <3>2. FcRefs(c) = fcCtx[c].refs /\ FcRefs(c)' = fcCtx[c].refs + 1 /\ FcAlive(c)' = FcAlive(c)
        BY <1>3, <1>15, <3>1, Zenon DEF FcRefs, FcAlive
      <3>3. FcOwed(c) \in Nat /\ FcOwed(c)' = FcOwed(c) + 1
        BY <1>3, <1>10, Zenon
      <3> QED
        BY <2>1, <2>3, <3>2, <3>3
    <2>4. CASE x # f /\ x # c
      <3>1. FcRefs(x)' = FcRefs(x) /\ FcAlive(x)' = FcAlive(x)
        BY <1>15, <2>4, Zenon DEF FcRefs, FcAlive
      <3>2. FcOwed(x)' = FcOwed(x)
        BY <1>10, <2>4
      <3> QED
        BY <2>1, <3>1, <3>2, Zenon
    <2> QED
      BY <2>2, <2>3, <2>4, Zenon
  <1>20. FcCallbacks'
    BY <1>0, <1>9, Zenon DEF FcInv, FcCallbacks
  <1>21. FetchTypeOK'
    BY <1>0, <1>2, <1>6, <1>14, <1>15, Zenon DEF FetchTypeOK
  <1> QED
    BY <1>14, <1>16, <1>17, <1>18, <1>19, <1>20, <1>21, Zenon DEF FcInv, FcAsserts

\* The insertion after the lock was upgraded.
LEMMA AddInv ==
  ASSUME FcLaws, FcInv, NEW l \in FcLoops, FcAdd(l)
  PROVE  FcInv'
  <1>a. PICK f : f = fcLoop[l].fetch
    BY Zenon
  <1>1. fcLoop[l].at = "add" /\ UNCHANGED <<fcFetch, fcJobs, fcRes>>
    BY ZenonT(30) DEF FcAdd
  <1>2. CASE fcTable[FcKey(f)] = FcNone
    <2>1. /\ fcCtx' = [fcCtx EXCEPT ![f].hashed = TRUE, ![f].refs = @ + 1]
          /\ fcTable' = [fcTable EXCEPT ![FcKey(f)] = f]
          /\ FcGoto(l, [[fcLoop[l] EXCEPT !.at = "lock", !.write = TRUE] EXCEPT !.ctx = f, !.new = TRUE])
          /\ UNCHANGED <<fcCount, fcFailed>>
      BY <1>a, <1>2, Zenon DEF FcAdd
    <2> QED
      BY <1>a, <1>1, <1>2, <2>1, Inserted, ZenonT(30)
  <1>3. CASE fcTable[FcKey(f)] # FcNone
    <2>1. PICK c : c = fcTable[FcKey(f)]
      BY Zenon
    <2>2. /\ FcDetach([fcCtx EXCEPT ![c].refs = @ + 1, ![f].done = TRUE], f, 1, {})
          /\ FcGoto(l, [[fcLoop[l] EXCEPT !.at = "lock", !.write = TRUE] EXCEPT !.ctx = c])
          /\ UNCHANGED fcTable
      BY <1>a, <1>3, <2>1, ZenonT(30) DEF FcAdd
    <2>3. FcGivesUp(l, f, c)
      BY <1>a, <1>1, <1>3, <2>1, <2>2, Zenon DEF FcGivesUp
    <2> QED
      BY <2>3, GivenUp, Zenon
  <1> QED
    BY <1>2, <1>3, Zenon
=============================================================================
