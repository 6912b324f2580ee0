----------------------------- MODULE FetchEnding ----------------------------
(***************************************************************************)
(* Each step that runs, answers, cancels or ends a fetch context keeps the *)
(* invariant FcInv.  FcTellAll stands apart from the others: it refers to  *)
(* every context in the table at once.                                     *)
(***************************************************************************)
EXTENDS FetchLaws, TLAPS

\* A fetch's callback has run, and its reference is dropped.
LEMMA CallbackInv ==
  ASSUME FcLaws, FcInv, NEW l \in FcLoops, FcCallback(l)
  PROVE  FcInv'
  <1>a. PICK f : f = Head(fcJobs[l]).of
    BY Zenon
  <1>b. PICK c : c = fcFetch[f].ctx
    BY Zenon
  <1>1. /\ FcJob(l, "call") /\ FcTaken(l) /\ fcLoop' = fcLoop /\ fcTable' = fcTable /\ fcRes' = fcRes
        /\ FcDetach(fcCtx, c, 1,
             IF ~fcCtx[c].done /\ f \in fcCtx[c].resps THEN {"destroyfetch"} ELSE {})
        /\ fcFetch' = [fcFetch EXCEPT ![f].at = "over"]
    BY <1>a, <1>b, Zenon DEF FcCallback
  <1>2. /\ fcJobs' \in [FcLoops -> Seq(FcJobSet)] /\ FcOnLoops'
        /\ f \in FcFetches /\ FcLoopOf(f) = l /\ FcPosted("call", f) >= 1
        /\ \A i \in {"start", "shutdown", "call"}, x \in FcFetches :
             FcPosted(i, x) = FcPosted(i, x)' + (IF i = "call" /\ x = f THEN 1 ELSE 0)
    BY <1>a, <1>1 DEF FcInv, FcCallbacks, FcOnLoops, FcLaws, PostedTailLaw
  <1>3. /\ fcFetch \in [FcFetches -> FcFetchSet] /\ fcLoop \in [FcLoops -> FcPlaces]
        /\ fcLoop[l].at = "idle" /\ ~fcLoop[l].new
    BY <1>1 DEF FcInv, FetchTypeOK, FcFetchSet, FcJob, FcIsIdle, FcIdle
  <1>4. fcFetch[f].at = "called" /\ c \in FcFetches
    BY <1>b, <1>2 DEF FcInv, FcCallbacks, FcLists
  <1>5. c \in DOMAIN fcCtx
    BY <1>b, <1>2, <1>4, Zenon DEF FcUse, FcInv, FcLaws, ReferencedLaw
  <1>6. f \notin fcCtx[c].resps
    BY <1>2, <1>4, <1>5, Zenon DEF FcInv, FcLists
  <1>7. FcDetach(fcCtx, c, 1, {})
    BY <1>1, <1>6, Zenon
  <1>8. /\ fcFetch' \in [FcFetches -> FcFetchSet] /\ fcFetch'[f].at = "over"
        /\ \A g \in FcFetches : g # f => fcFetch'[g] = fcFetch[g]
    BY <1>1, <1>2, <1>3, ZenonT(30) DEF FcFetchSet
  <1>9. FcQueuesOK' /\ FcElsewhere(l) /\ FcFetchKept(l) /\ FcOnly(fcCtx, c)
    <2>1. FcQueuesOK' /\ FcElsewhere(l)
      BY <1>1, <1>2, <1>3, Zenon DEF FcQueuesOK, FcElsewhere
    <2>2. FcFetchKept(l)
      BY <1>2, <1>8, Zenon DEF FcFetchKept, FcInv, FcLists
    <2>3. FcOnly(fcCtx, c)
      BY <1>5, Zenon DEF FcOnly, FcInv, FetchTypeOK
    <2> QED
      BY <2>1, <2>2, <2>3, Zenon
  <1>10. /\ \A g \in FcFetches, x \in FcFetches : g # f => FcUse(g, x)' = FcUse(g, x)
         /\ \A x \in FcFetches : FcUse(f, x)' = 0 /\ FcUse(f, x) = IF x = c THEN 1 ELSE 0
         /\ \A g \in FcFetches, x \in FcFetches : FcWaitsFor(g, x)' <=> FcWaitsFor(g, x)
    BY <1>b, <1>4, <1>8, Zenon DEF FcUse, FcWaitsFor
  <1>11. \A x \in FcFetches : /\ FcLocks(l, x)' = FcLocks(l, x) /\ FcDrops(l, x)' = FcDrops(l, x)
                               /\ FcPosted("start", x)' = FcPosted("start", x)
                               /\ FcPosted("shutdown", x)' = FcPosted("shutdown", x)
    <2>1. \A x \in FcFetches : FcPosted("start", x)' \in Nat /\ FcPosted("shutdown", x)' \in Nat
      BY <1>2, Zenon DEF FcPosted, FcLaws, OccursNatLaw, LoopOfLaw
    <2> QED
      BY <1>1, <1>2, <2>1 DEF FcLocks, FcDrops
  <1>12. \A x \in FcFetches : x # c => FcSameFor(l, x)
    BY <1>10, <1>11, Zenon DEF FcSameFor
  <1>13. FcRefersTo(l, f, c) = FcRefersTo(l, f, c)' + 1
    <2>1. /\ FcUse(f, c) = 1 /\ FcUse(f, c)' = 0 /\ FcLocks(l, c) \in Nat /\ FcDrops(l, c) \in Nat
          /\ FcPosted("start", c) \in Nat /\ FcPosted("shutdown", c) \in Nat
      BY <1>4, <1>10, Zenon DEF FcInv, FcLaws, PartsNatLaw, PostedNatLaw
    <2> QED
      BY <1>4, <1>11, <2>1 DEF FcRefersTo
  <1>14. \A g \in FcFetches : g \in fcCtx[c].resps <=> FcWaitsFor(g, c)'
    BY <1>4, <1>5, <1>10 DEF FcInv, FcLists, FcWaitsFor
  <1>15. /\ DOMAIN fcCtx' \subseteq FcFetches
         /\ \A x \in DOMAIN fcCtx' : fcCtx'[x] \in FcContexts
         /\ fcCount' \in [FcDomains -> Nat] /\ fcFailed' = fcFailed
         /\ FcHandlers' /\ FcStore' /\ FcLists' /\ FcAccounts' /\ FcCounters'
    <2>1. fcLoop[l].at \notin {"finish", "add"} /\ fcLoop'[l].at = "idle" /\ ~fcLoop'[l].new
      BY <1>1, <1>3, Zenon
    <2>2. \A g \in FcFetches : g # f => FcUse(g, c)' = FcUse(g, c)
      BY <1>4, <1>10, Zenon
    <2>3. \A g \in FcFetches, x \in FcFetches : x # c => (FcWaitsFor(g, x)' <=> FcWaitsFor(g, x))
      BY <1>10, Zenon
    <2>4. UNCHANGED fcTable /\ 1 \in Nat
      BY <1>1, Zenon
    <2>6. FcReached(l, f, c)
      BY <1>4, <1>10, Zenon DEF FcReached
    <2>5. FcLetsGo(l, f, c, 1)
      BY <2>6, <1>9, <1>12, <1>13, <2>1, <2>2, <2>3, <2>4, ZenonT(30) DEF FcLetsGo
    <2> QED
      BY <1>2, <1>5, <1>7, <1>9, <1>14, <2>4, <2>5, Zenon DEF FcLaws, DetachStepLaw
  <1>16. FcCallbacks'
    <2>1. \A g \in FcFetches : FcPosted("call", g)' \in Nat
      BY <1>2, Zenon DEF FcPosted, FcLaws, OccursNatLaw, LoopOfLaw
    <2>2. \A g \in FcFetches : FcPosted("call", g)' = (IF fcFetch'[g].at = "called" THEN 1 ELSE 0)
      BY <1>2, <1>4, <1>8, <2>1 DEF FcInv, FcCallbacks
    <2> QED
      BY <1>2, <2>2, Zenon DEF FcCallbacks, FcOnLoops
  <1>17. FetchTypeOK'
    BY <1>1, <1>2, <1>3, <1>8, <1>15, Zenon DEF FetchTypeOK, FcInv, FcFetchSet, FcJobSet
  <1> QED
    BY <1>15, <1>16, <1>17, Zenon DEF FcInv, FcAsserts

\* A callback for a context that does no more than drop the reference it holds.
LEMMA JobDetach ==
  ASSUME FcLaws, FcInv, NEW l \in FcLoops, NEW j \in {"start", "shutdown"}, FcJob(l, j),
         FcTaken(l),
         NEW c, c = Head(fcJobs[l]).of, NEW ctxs,
         c \in DOMAIN fcCtx => FcOnly(ctxs, c) /\ ctxs[c].resps = fcCtx[c].resps,
         FcDetach(ctxs, c, 1, {}), UNCHANGED <<fcTable, fcFetch, fcLoop, fcRes>>
  PROVE  FcInv'
  <1>2. /\ fcJobs' \in [FcLoops -> Seq(FcJobSet)] /\ FcOnLoops'
        /\ c \in FcFetches /\ FcLoopOf(c) = l /\ FcPosted(j, c) >= 1
        /\ \A i \in {"start", "shutdown", "call"}, x \in FcFetches :
             FcPosted(i, x) = FcPosted(i, x)' + (IF i = j /\ x = c THEN 1 ELSE 0)
    BY DEF FcInv, FcCallbacks, FcOnLoops, FcLaws, PostedTailLaw
  <1>3. /\ fcLoop \in [FcLoops -> FcPlaces] /\ fcFetch \in [FcFetches -> FcFetchSet]
        /\ fcLoop[l].at = "idle" /\ ~fcLoop[l].new
    BY DEF FcInv, FetchTypeOK, FcFetchSet, FcJob, FcIsIdle, FcIdle
  <1>4. \A x \in FcFetches : /\ FcPosted("start", x)' \in Nat /\ FcPosted("shutdown", x)' \in Nat
                              /\ FcPosted("call", x)' \in Nat
    BY <1>2, Zenon DEF FcPosted, FcLaws, OccursNatLaw, LoopOfLaw
  <1>5. c \in DOMAIN fcCtx
    <2>1. FcPosted("start", c) # 0 \/ FcPosted("shutdown", c) # 0
      BY <1>2
    <2> QED
      BY <1>2, <2>1, Zenon DEF FcInv, FcLaws, ReferencedLaw
  <1>6. FcQueuesOK' /\ FcElsewhere(l)
    BY <1>2, <1>3, Zenon DEF FcQueuesOK, FcElsewhere
  <1>7. \A x \in FcFetches : FcLocks(l, x)' = FcLocks(l, x) /\ FcDrops(l, x)' = FcDrops(l, x)
    BY Zenon DEF FcLocks, FcDrops
  <1>8. /\ FcFetchKept(l)
        /\ \A g, x : FcUse(g, x)' = FcUse(g, x) /\ (FcWaitsFor(g, x)' <=> FcWaitsFor(g, x))
    BY Zenon DEF FcLaws, FetchSameLaw
  <1>9. \A x \in FcFetches : x # c => FcSameFor(l, x)
    BY <1>2, <1>4, <1>7, <1>8, SMTT(30) DEF FcSameFor
  <1>10. FcRefersTo(l, c, c) = FcRefersTo(l, c, c)' + 1
    <2>1. /\ FcUse(c, c) \in Nat /\ FcLocks(l, c) \in Nat /\ FcDrops(l, c) \in Nat
      BY Zenon DEF FcInv, FcLaws, PartsNatLaw
    <2>2. /\ FcUse(c, c)' = FcUse(c, c) /\ FcLocks(l, c)' = FcLocks(l, c)
          /\ FcDrops(l, c)' = FcDrops(l, c)
      BY <1>2, <1>7, <1>8, Zenon
    <2>3. FcPosted("start", c) + FcPosted("shutdown", c)
          = FcPosted("start", c)' + FcPosted("shutdown", c)' + 1
      BY <1>2, <1>4
    <2> QED
      BY <1>2, <1>4, <2>1, <2>2, <2>3 DEF FcRefersTo
  <1>11. \A g \in FcFetches : g \in ctxs[c].resps <=> FcWaitsFor(g, c)'
    BY <1>5, <1>8, Zenon DEF FcInv, FcLists, FcWaitsFor
  <1>12. /\ DOMAIN fcCtx' \subseteq FcFetches
         /\ \A x \in DOMAIN fcCtx' : fcCtx'[x] \in FcContexts
         /\ fcCount' \in [FcDomains -> Nat] /\ fcFailed' = fcFailed
         /\ FcHandlers' /\ FcStore' /\ FcLists' /\ FcAccounts' /\ FcCounters'
    <2>1. fcLoop[l].at \notin {"finish", "add"} /\ fcLoop'[l].at = "idle" /\ ~fcLoop'[l].new
      BY <1>3, Zenon
    <2>2. \A g \in FcFetches : g # c => FcUse(g, c)' = FcUse(g, c)
      BY <1>8, Zenon
    <2>3. \A g \in FcFetches, x \in FcFetches : x # c => (FcWaitsFor(g, x)' <=> FcWaitsFor(g, x))
      BY <1>8, Zenon
    <2>4. UNCHANGED fcTable /\ 1 \in Nat /\ FcOnly(ctxs, c)
      BY <1>5, Zenon
    <2>6. FcReached(l, c, c)
      BY <1>2, Zenon DEF FcReached
    <2>5. FcLetsGo(l, c, c, 1)
      BY <2>6, <1>6, <1>8, <1>9, <1>10, <2>1, <2>2, <2>3, <2>4, ZenonT(30) DEF FcLetsGo
    <2> QED
      BY <1>2, <1>5, <1>6, <1>11, <2>4, <2>5, Zenon DEF FcLaws, DetachStepLaw
  <1>13. FcCallbacks'
    <2>1. \A g \in FcFetches : FcPosted("call", g)' = FcPosted("call", g)
      BY <1>2, <1>4
    <2> QED
      BY <1>2, <2>1, Zenon DEF FcCallbacks, FcOnLoops, FcInv
  <1>14. FetchTypeOK'
    BY <1>2, <1>3, <1>12, Zenon DEF FetchTypeOK, FcInv, FcFetchSet, FcJobSet
  <1> QED
    BY <1>12, <1>13, <1>14, Zenon DEF FcInv, FcAsserts

\* fctx_start drops the reference of the callback.
LEMMA StartInv ==
  ASSUME FcLaws, FcInv, NEW l \in FcLoops, FcStart(l)
  PROVE  FcInv'
  <1>a. PICK c : c = Head(fcJobs[l]).of
    BY Zenon
  <1> DEFINE ctxs == [fcCtx EXCEPT ![c].started = ~fcCtx[c].done]
  <1>1. /\ FcJob(l, "start") /\ FcTaken(l) /\ FcDetach(ctxs, c, 1, {})
        /\ UNCHANGED <<fcTable, fcFetch, fcLoop, fcRes>>
    BY <1>a, Zenon DEF FcStart
  <1>2. c \in DOMAIN fcCtx => FcOnly(ctxs, c) /\ ctxs[c].resps = fcCtx[c].resps
    <2> SUFFICES ASSUME c \in DOMAIN fcCtx
                 PROVE  FcOnly(ctxs, c) /\ ctxs[c].resps = fcCtx[c].resps
      BY Zenon
    <2>1. fcCtx[c] \in FcContexts /\ ctxs[c] = [fcCtx[c] EXCEPT !.started = ~fcCtx[c].done]
      BY Zenon DEF FcInv, FetchTypeOK
    <2>2. /\ ctxs[c] \in FcContexts /\ ctxs[c].resps = fcCtx[c].resps
          /\ \A i \in {"key", "done", "hashed", "cloned", "counted", "refs"} : ctxs[c][i] = fcCtx[c][i]
      BY <2>1, Zenon DEF FcContexts
    <2> QED
      BY <2>2, Zenon DEF FcOnly
  <1> HIDE DEF ctxs
  <1> QED
    BY <1>a, <1>1, <1>2, JobDetach, Zenon

\* The smaller and the larger of two numbers are numbers.
LEMMA MinOfTwo ==
  ASSUME FcLaws, NEW a \in Nat, NEW b \in Nat
  PROVE  Min({a, b}) \in Nat /\ Max({a, b}) \in Nat
  <1>1. \E x \in {a, b} : \A y \in {a, b} : x <= y
    OBVIOUS
  <1>2. \E x \in {a, b} : \A y \in {a, b} : x >= y
    OBVIOUS
  <1>3. Min({a, b}) \in {a, b}
    BY <1>1, Zenon DEF Min
  <1>4. Max({a, b}) \in {a, b}
    BY <1>2, Zenon DEF Max
  <1> QED
    BY <1>3, <1>4, Zenon

\* The handler that has sent the responses drops its references.
LEMMA SpillatInv ==
  ASSUME FcLaws, FcInv, NEW l \in FcLoops, FcSpillat(l)
  PROVE  FcInv'
  <1>a. PICK c : c = fcLoop[l].ctx
    BY Zenon
  <1>b. PICK n : n = fcLoop[l].drop
    BY Zenon
  <1>1. /\ fcLoop[l].at = "spill" /\ FcDetach(fcCtx, c, n, {}) /\ FcGoto(l, FcIdle)
        /\ fcTable' = fcTable /\ fcFetch' = fcFetch /\ fcJobs' = fcJobs
    BY <1>a, <1>b, Zenon DEF FcSpillat
  <1>2. /\ n \in Nat /\ c \in FcFetches /\ FcLoopOf(c) = l /\ n # 0
        /\ fcFetch' \in [FcFetches -> FcFetchSet]
    BY <1>a, <1>b, <1>1, Zenon
      DEF FcInv, FetchTypeOK, FcHandlers, FcHandler, FcFetchSet, FcLaws, DropNatLaw
  <1>3. c \in DOMAIN fcCtx
    BY <1>a, <1>b, <1>1, <1>2, Zenon DEF FcDropped, FcInv, FcLaws, ReferencedLaw
  <1>4. FcOnly(fcCtx, c)
    BY <1>3, Zenon DEF FcOnly, FcInv, FetchTypeOK
  <1>5. fcRes' \in [exiting : BOOLEAN, shutdown : {"no", "exiting", "told", "over"},
                   spillat : Nat, timer : FcLoops \cup {FcNone}]
    <2>1. fcRes \in [exiting : BOOLEAN, shutdown : {"no", "exiting", "told", "over"},
                    spillat : Nat, timer : FcLoops \cup {FcNone}]
      BY Zenon DEF FcInv, FetchTypeOK
    <2>2. fcRes.spillat \in Nat /\ fcRes.spillat + 5 \in Nat
      BY <2>1
    <2>3. Min({fcRes.spillat + 5, FcSpillatMax}) \in Nat
      BY <2>2, MinOfTwo, FetchAssumption, Zenon
    <2> HIDE <2>2
    <2> QED
      BY <2>1, <2>2, <2>3, Zenon DEF FcSpillat
  <1> QED
    BY <1>a, <1>b, <1>1, <1>2, <1>3, <1>4, <1>5, Zenon DEF FcLaws, FetchSameLaw, LoopDetachLaw

\* fctx__done: the context goes from the one that keeps it alive to the handler
\* that will drop it.
LEMMA MarkDoneInv ==
  ASSUME FcLaws, FcInv, NEW c \in DOMAIN fcCtx, NEW l, l = FcLoopOf(c), ~fcCtx[c].done,
         NEW result \in {"answer", "servfail", "shuttingdown"}, NEW n \in {1, 2},
         FcMarkDone(l, c, result, n),
         \/ FcIsIdle(l)
         \/ fcLoop[l].at = "finish" /\ fcLoop[l].ctx = c,
         fcJobs' \in [FcLoops -> Seq(FcJobSet)], FcOnLoops',
         \A x \in FcFetches : FcPosted("call", x)' = FcPosted("call", x),
         \A x \in FcFetches : x # c => /\ FcPosted("start", x)' = FcPosted("start", x)
                                      /\ FcPosted("shutdown", x)' = FcPosted("shutdown", x),
         FcPosted("start", c) + FcPosted("shutdown", c) + 1
           = FcPosted("start", c)' + FcPosted("shutdown", c)' + n
  PROVE  FcInv'
  <1> DEFINE pc == [FcIdle EXCEPT !.at = "send", !.ctx = c, !.result = result, !.drop = n]
  <1>1. /\ c \in FcFetches /\ l \in FcLoops /\ FcKey(c) \in FcKeys /\ FcTidy(c)
        /\ fcCtx[c] \in FcContexts /\ fcCtx[c].key = FcKey(c) /\ c # FcNone
    BY FetchAssumption DEF FcInv, FetchTypeOK, FcStore, FcTidy, FcLaws, LoopOfLaw
  <1>2. /\ fcLoop \in [FcLoops -> FcPlaces] /\ fcTable \in [FcKeys -> FcFetches \cup {FcNone}]
        /\ DOMAIN fcCtx \subseteq FcFetches /\ \A x \in DOMAIN fcCtx : fcCtx[x] \in FcContexts
    BY Zenon DEF FcInv, FetchTypeOK
  <1>3. pc \in FcPlaces /\ pc.at = "send" /\ pc.ctx = c /\ pc.drop = n /\ ~pc.new
    <2>1. FcIdle \in FcPlaces /\ n \in 0 .. 2
      BY DEF FcIdle, FcPlaces
    <2>2. pc \in FcPlaces
      BY <1>1, <2>1, Zenon DEF FcPlaces
    <2>3. pc.at = "send" /\ pc.ctx = c /\ pc.drop = n /\ ~pc.new
      BY Zenon DEF FcIdle
    <2> QED
      BY <2>2, <2>3, Zenon
  <1>4. /\ fcCtx' = [fcCtx EXCEPT ![c] = [fcCtx[c] EXCEPT !.done = TRUE, !.hashed = FALSE]]
        /\ fcTable' = FcReleased(c) /\ fcFailed' = fcFailed \cup FcReleaseFails(c)
        /\ fcLoop' = [fcLoop EXCEPT ![l] = pc]
        /\ fcCount' = fcCount /\ fcFetch' = fcFetch /\ fcRes' = fcRes
    BY Zenon DEF FcMarkDone, FcCheck, FcGoto
  <1> HIDE DEF pc
  <1>5. /\ fcFailed' = fcFailed /\ fcTable' \in [FcKeys -> FcFetches \cup {FcNone}]
        /\ fcTable'[FcKey(c)] # c
        /\ \A k \in FcKeys : \/ fcTable'[k] = fcTable[k]
                             \/ k = FcKey(c) /\ fcTable'[k] = FcNone /\ fcTable[k] = c
    BY <1>1, <1>2, <1>4, Zenon DEF FcReleased, FcReleaseFails, FcTidy
  <1>6. /\ DOMAIN fcCtx' = DOMAIN fcCtx /\ fcCtx'[c] \in FcContexts
        /\ \A x \in DOMAIN fcCtx : x # c => fcCtx'[x] = fcCtx[x]
        /\ fcCtx'[c].done /\ ~fcCtx'[c].hashed /\ fcCtx'[c].key = fcCtx[c].key
        /\ fcCtx'[c].resps = fcCtx[c].resps /\ fcCtx'[c].refs = fcCtx[c].refs
        /\ fcCtx'[c].counted = fcCtx[c].counted
    BY <1>1, <1>4, Zenon DEF FcContexts
  <1>7. fcLoop' \in [FcLoops -> FcPlaces] /\ fcLoop'[l] = pc /\ FcElsewhere(l) /\ FcQueuesOK'
    BY <1>1, <1>2, <1>3, <1>4, Zenon DEF FcElsewhere, FcQueuesOK
  <1>8. /\ FcFetchKept(l)
        /\ \A g, x : FcUse(g, x)' = FcUse(g, x) /\ (FcWaitsFor(g, x)' <=> FcWaitsFor(g, x))
    BY <1>1, <1>4, Zenon DEF FcLaws, FetchSameLaw
  <1>9. /\ fcLoop[l].at \in {"idle", "finish"} /\ (fcLoop[l].at = "finish" => fcLoop[l].ctx = c)
    BY DEF FcIsIdle, FcIdle
  <1>10. /\ \A x \in FcFetches : FcLocks(l, x) = 0 /\ FcDrops(l, x) = 0 /\ FcLocks(l, x)' = 0
         /\ \A x \in FcFetches : FcDrops(l, x)' = IF x = c THEN n ELSE 0
    BY <1>3, <1>7, <1>9, Zenon DEF FcLocks, FcDrops
  <1>11. \A x \in FcFetches : x # c => FcSameFor(l, x)
    BY <1>8, <1>10, Zenon DEF FcSameFor
  <1>12. FcHandler(l)'
    BY <1>1, <1>3, <1>6, <1>7 DEF FcHandler
  <1>13. FcTidy(c)'
    BY <1>1, <1>4, <1>5, <1>6, Zenon DEF FcTidy
  <1>14. FcOneChanged(c) /\ FcSafeFor(l, c) /\ FcAllForOne(l, c, c)
    <2>1. FcOneChanged(c)
      BY <1>1, <1>2, <1>5, <1>6, Zenon DEF FcOneChanged
    <2>2. FcSafeFor(l, c)
      BY Zenon DEF FcSafeFor
    <2>3. FcAllForOne(l, c, c)
      BY <1>7, <1>8, <1>9, <1>11, Zenon DEF FcAllForOne, FcReached
    <2> QED
      BY <2>1, <2>2, <2>3, Zenon
  <1>15. \A g \in FcFetches : g \in fcCtx'[c].resps <=> FcWaitsFor(g, c)'
    <2>1. \A g \in FcFetches : g \in fcCtx[c].resps <=> FcWaitsFor(g, c)
      BY Zenon DEF FcInv, FcLists, FcWaitsFor
    <2> QED
      BY <1>6, <1>8, <2>1, Zenon
  <1>16. /\ FcRefs(c)' \in Nat
         /\ FcRefs(c)' + FcRefersTo(l, c, c) + FcAlive(c) = FcRefs(c) + FcRefersTo(l, c, c)' + FcAlive(c)'
    <2>1. /\ FcRefs(c) = fcCtx[c].refs /\ FcRefs(c)' = fcCtx[c].refs /\ fcCtx[c].refs \in Nat
          /\ FcAlive(c) = 1 /\ FcAlive(c)' = 0
      BY <1>1, <1>6, Zenon DEF FcRefs, FcAlive, FcContexts
    <2>2. FcUse(c, c) \in Nat /\ FcUse(c, c)' = FcUse(c, c)
      BY <1>8, Zenon DEF FcUse
    <2>3. /\ FcPosted("start", c) \in Nat /\ FcPosted("shutdown", c) \in Nat
          /\ FcPosted("start", c)' \in Nat /\ FcPosted("shutdown", c)' \in Nat
      <3>1. fcJobs'[FcLoopOf(c)] \in Seq(FcJobSet)
        BY <1>1, Zenon
      <3> QED
        BY <1>1, <3>1, Zenon DEF FcPosted, FcInv, FcLaws, PostedNatLaw, OccursNatLaw
    <2>4. /\ FcRefersTo(l, c, c) = FcUse(c, c) + (FcPosted("start", c) + FcPosted("shutdown", c))
          /\ FcRefersTo(l, c, c)' = FcUse(c, c) + n + (FcPosted("start", c)' + FcPosted("shutdown", c)')
      BY <1>1, <1>10, <2>2, <2>3 DEF FcRefersTo
    <2> DEFINE p == FcPosted("start", c) + FcPosted("shutdown", c)
               p1 == FcPosted("start", c)' + FcPosted("shutdown", c)'
    <2>5. p \in Nat /\ p1 \in Nat /\ p + 1 = p1 + n
      BY <2>3
    <2>6. FcRefersTo(l, c, c) = FcUse(c, c) + p /\ FcRefersTo(l, c, c)' = FcUse(c, c) + n + p1
      BY <2>4, Zenon
    <2> HIDE DEF p, p1
    <2> QED
      BY <2>1, <2>2, <2>5, <2>6
  <1>17. FcHandlers' /\ FcStore' /\ FcLists' /\ FcAccounts'
    BY <1>1, <1>7, <1>12, <1>13, <1>14, <1>15, <1>16, Zenon DEF FcLaws, ChangeStepLaw
  <1>18. FcCounters'
    BY <1>4, <1>6, Zenon DEF FcInv, FcLaws, CountersKeptLaw
  <1>19. FcCallbacks'
    BY <1>4, Zenon DEF FcInv, FcCallbacks, FcOnLoops
  <1>20. FetchTypeOK'
    BY <1>2, <1>4, <1>5, <1>6, <1>7, Zenon DEF FcInv, FetchTypeOK, FcJobSet
  <1> QED
    BY <1>5, <1>17, <1>18, <1>19, <1>20, Zenon DEF FcInv, FcAsserts

\* The handler of the answer marks the context done.
LEMMA FinishInv ==
  ASSUME FcLaws, FcInv, NEW l \in FcLoops, FcFinish(l)
  PROVE  FcInv'
  <1>a. PICK c : c = fcLoop[l].ctx
    BY Zenon
  <1>1. fcLoop[l].at = "finish" /\ FcMarkDone(l, c, "answer", 1) /\ fcJobs' = fcJobs
    BY <1>a, Zenon DEF FcFinish
  <1>2. c \in DOMAIN fcCtx /\ c \in FcFetches /\ ~fcCtx[c].done /\ l = FcLoopOf(c)
    BY <1>a, <1>1, Zenon DEF FcInv, FcHandlers, FcHandler
  <1>3. fcJobs' \in [FcLoops -> Seq(FcJobSet)] /\ FcOnLoops'
    BY <1>1, Zenon DEF FcInv, FetchTypeOK, FcJobSet, FcCallbacks, FcOnLoops
  <1>4. \A j, x : FcPosted(j, x)' = FcPosted(j, x)
    BY <1>1, Zenon DEF FcPosted
  <1> QED
    BY <1>a, <1>1, <1>2, <1>3, <1>4, MarkDoneInv, Zenon

\* A context that gives up is marked done.
LEMMA GiveUpInv ==
  ASSUME FcLaws, FcInv, NEW c \in DOMAIN fcCtx, FcGiveUp(c)
  PROVE  FcInv'
  <1>1. /\ FcRunning(c) /\ FcMarkDone(FcLoopOf(c), c, "servfail", 1) /\ fcJobs' = fcJobs
    BY Zenon DEF FcGiveUp
  <1>2. ~fcCtx[c].done /\ FcIsIdle(FcLoopOf(c))
    BY <1>1, Zenon DEF FcRunning
  <1>3. fcJobs' \in [FcLoops -> Seq(FcJobSet)] /\ FcOnLoops'
    BY <1>1, Zenon DEF FcInv, FetchTypeOK, FcJobSet, FcCallbacks, FcOnLoops
  <1>4. \A j, x : FcPosted(j, x)' = FcPosted(j, x)
    BY <1>1, Zenon DEF FcPosted
  <1>5. PICK l : l = FcLoopOf(c)
    BY Zenon
  <1> QED
    BY <1>1, <1>2, <1>3, <1>4, <1>5, MarkDoneInv, Zenon

\* fctx_shutdown drops its reference, or marks the context done and keeps it until
\* the responses are sent.
LEMMA ShutdownInv ==
  ASSUME FcLaws, FcInv, NEW l \in FcLoops, FcShutdown(l)
  PROVE  FcInv'
  <1>a. PICK c : c = Head(fcJobs[l]).of
    BY Zenon
  <1>1. FcJob(l, "shutdown") /\ FcTaken(l)
    BY Zenon DEF FcShutdown
  <1>2. CASE fcCtx[c].done
    <2>1. FcDetach(fcCtx, c, 1, {}) /\ UNCHANGED <<fcTable, fcFetch, fcLoop, fcRes>>
      BY <1>a, <1>2, Zenon DEF FcShutdown
    <2>2. c \in DOMAIN fcCtx => FcOnly(fcCtx, c)
      BY Zenon DEF FcOnly, FcInv, FetchTypeOK
    <2> QED
      BY <1>a, <1>1, <2>1, <2>2, JobDetach, Zenon
  <1>3. CASE ~fcCtx[c].done
    <2>1. FcMarkDone(l, c, "shuttingdown", 2)
      BY <1>a, <1>3, Zenon DEF FcShutdown
    <2>2. /\ fcJobs' \in [FcLoops -> Seq(FcJobSet)] /\ FcOnLoops'
          /\ c \in FcFetches /\ FcLoopOf(c) = l /\ FcPosted("shutdown", c) >= 1
          /\ \A i \in {"start", "shutdown", "call"}, x \in FcFetches :
               FcPosted(i, x) = FcPosted(i, x)' + (IF i = "shutdown" /\ x = c THEN 1 ELSE 0)
      BY <1>a, <1>1 DEF FcInv, FcCallbacks, FcOnLoops, FcLaws, PostedTailLaw
    <2>3. c \in DOMAIN fcCtx
      <3>1. FcPosted("shutdown", c) # 0
        BY <2>2
      <3> QED
        BY <2>2, <3>1, Zenon DEF FcInv, FcLaws, ReferencedLaw
    <2>4. \A x \in FcFetches : /\ FcPosted("start", x)' \in Nat /\ FcPosted("shutdown", x)' \in Nat
                                /\ FcPosted("call", x)' \in Nat
      BY <2>2, Zenon DEF FcPosted, FcLaws, OccursNatLaw, LoopOfLaw
    <2>5. /\ \A x \in FcFetches : FcPosted("call", x)' = FcPosted("call", x)
          /\ \A x \in FcFetches : x # c => /\ FcPosted("start", x)' = FcPosted("start", x)
                                          /\ FcPosted("shutdown", x)' = FcPosted("shutdown", x)
          /\ FcPosted("start", c) + FcPosted("shutdown", c) + 1
               = FcPosted("start", c)' + FcPosted("shutdown", c)' + 2
      BY <2>2, <2>4
    <2>6. FcIsIdle(l)
      BY <1>1, Zenon DEF FcJob
    <2> QED
      BY <1>3, <2>1, <2>2, <2>3, <2>5, <2>6, MarkDoneInv, Zenon
  <1> QED
    BY <1>2, <1>3, Zenon

\* Every fetch that waits on the context is taken off its list, and its callback is
\* posted to its own loop.
LEMMA SendInv ==
  ASSUME FcLaws, FcInv, NEW l \in FcLoops, FcSend(l)
  PROVE  FcInv'
  <1>a. PICK c : c = fcLoop[l].ctx
    BY Zenon
  <1>b. PICK n : n = fcLoop[l].drop
    BY Zenon
  <1>c. PICK S : S = fcCtx[c].resps
    BY Zenon
  <1>1. /\ fcLoop[l].at = "send" /\ fcTable' = fcTable /\ fcRes' = fcRes
        /\ fcFetch' = [f \in FcFetches |->
             IF f \in S THEN [fcFetch[f] EXCEPT !.at = "called",
                                               !.result = FcResult(c, f, fcLoop[l].result)]
             ELSE fcFetch[f]]
        /\ fcJobs' = [m \in FcLoops |-> fcJobs[m] \o FcPosts("call", {f \in S : FcLoopOf(f) = m})]
    BY <1>a, <1>c, ZenonT(30) DEF FcSend
  <1>2. /\ \/ /\ fcCtx' = [fcCtx EXCEPT ![c].resps = {}]
              /\ FcGoto(l, [fcLoop[l] EXCEPT !.at = "spill", !.count = Cardinality(S)])
              /\ fcCount' = fcCount /\ fcFailed' = fcFailed
           \/ FcDetach([fcCtx EXCEPT ![c].resps = {}], c, n, {}) /\ FcGoto(l, FcIdle)
    BY <1>a, <1>b, <1>c, Zenon DEF FcSend
  <1>3. /\ fcLoop \in [FcLoops -> FcPlaces] /\ fcLoop[l] \in FcPlaces
        /\ fcFetch \in [FcFetches -> FcFetchSet] /\ FetchTypeOK /\ FcAccounts
        /\ DOMAIN fcCtx \subseteq FcFetches /\ \A x \in DOMAIN fcCtx : fcCtx[x] \in FcContexts
        /\ fcRes \in [exiting : BOOLEAN, shutdown : {"no", "exiting", "told", "over"},
                      spillat : Nat, timer : FcLoops \cup {FcNone}]
        /\ fcTable \in [FcKeys -> FcFetches \cup {FcNone}]
    BY Zenon DEF FcInv, FetchTypeOK, FcFetchSet
  <1>4. /\ n \in Nat /\ n # 0 /\ c \in FcFetches /\ FcLoopOf(c) = l /\ ~fcLoop[l].new
        /\ c \in DOMAIN fcCtx => fcCtx[c].done
    BY <1>a, <1>b, <1>1, <1>3, ZenonT(30)
      DEF FcInv, FcHandlers, FcHandler, FcLaws, DropNatLaw
  <1>5. c \in DOMAIN fcCtx /\ fcCtx[c].done /\ fcCtx[c] \in FcContexts /\ FcTidy(c)
    <2>1. FcDropped(c) # 0
      BY <1>a, <1>b, <1>1, <1>4, Zenon DEF FcDropped
    <2> QED
      BY <1>3, <1>4, <2>1, Zenon DEF FcInv, FcStore, FcLaws, ReferencedLaw
  <1>6. /\ S \in SUBSET FcFetches /\ IsFiniteSet(S) /\ Cardinality(S) \in Nat
        /\ \A g \in FcFetches : g \in S <=> FcWaitsFor(g, c)
    <2>1. S \in SUBSET FcFetches
      BY <1>c, <1>5, Zenon DEF FcContexts
    <2>2. \A g \in FcFetches : g \in S <=> FcWaitsFor(g, c)
      BY <1>c, <1>5, Zenon DEF FcInv, FcLists, FcWaitsFor
    <2> QED
      BY <2>1, <2>2, FetchAssumption, Zenon DEF FcLaws, FiniteLaw
  <1>7. /\ fcJobs' \in [FcLoops -> Seq(FcJobSet)] /\ FcOnLoops'
        /\ \A i \in {"start", "shutdown", "call"}, x \in FcFetches :
             FcPosted(i, x)' = FcPosted(i, x) + (IF i = "call" /\ x \in S THEN 1 ELSE 0)
    BY <1>1, <1>3, <1>6, ZenonT(30) DEF FcInv, FcCallbacks, FcOnLoops, FcLaws, PostedManyLaw
  <1>8. /\ fcFetch' \in [FcFetches -> FcFetchSet]
        /\ \A g \in FcFetches : /\ fcFetch'[g].ctx = fcFetch[g].ctx
                                 /\ fcFetch'[g].at = IF g \in S THEN "called" ELSE fcFetch[g].at
    <2>1. ASSUME NEW g \in FcFetches
          PROVE  /\ fcFetch'[g] \in FcFetchSet /\ fcFetch'[g].ctx = fcFetch[g].ctx
                 /\ fcFetch'[g].at = IF g \in S THEN "called" ELSE fcFetch[g].at
      <3>1. fcFetch[g] \in FcFetchSet
        BY <1>3, Zenon
      <3>2. FcResult(c, g, fcLoop[l].result) \in {FcNone, "answer", "servfail", "canceled", "shuttingdown"}
        BY <1>3, <3>1, Zenon DEF FcResult, FcFetchSet, FcPlaces
      <3>3. CASE g \in S
        <4>1. fcFetch'[g] = [fcFetch[g] EXCEPT !.at = "called",
                                               !.result = FcResult(c, g, fcLoop[l].result)]
          BY <1>1, <3>3, Zenon
        <4> QED
          BY <3>1, <3>2, <3>3, <4>1, ZenonT(30) DEF FcFetchSet
      <3>4. CASE g \notin S
        BY <1>1, <3>1, <3>4, ZenonT(30)
      <3> QED
        BY <3>3, <3>4, Zenon
    <2>2. fcFetch' = [g \in FcFetches |-> fcFetch'[g]]
      BY <1>1, Zenon
    <2> QED
      BY <2>1, <2>2, Zenon
  <1>9. FcFetchKept(l)
    BY <1>6, <1>8, Zenon DEF FcFetchKept, FcInv, FcLists, FcWaitsFor
  <1>10. /\ \A g \in FcFetches, x \in FcFetches : FcUse(g, x)' = FcUse(g, x)
         /\ \A g \in FcFetches, x \in FcFetches : x # c => (FcWaitsFor(g, x)' <=> FcWaitsFor(g, x))
         /\ \A g \in FcFetches : ~FcWaitsFor(g, c)'
    BY <1>6, <1>8 DEF FcUse, FcWaitsFor
  <1>11. \A x \in FcFetches : /\ FcPosted("start", x)' = FcPosted("start", x)
                               /\ FcPosted("shutdown", x)' = FcPosted("shutdown", x)
    BY <1>3, <1>7 DEF FcLaws, PostedNatLaw
  <1> DEFINE ctxs == [fcCtx EXCEPT ![c].resps = {}]
  <1>12. FcOnly(ctxs, c) /\ ctxs[c].resps = {}
    <2>1. ctxs[c] = [fcCtx[c] EXCEPT !.resps = {}]
      BY <1>5, Zenon
    <2>2. /\ ctxs[c] \in FcContexts /\ ctxs[c].resps = {}
          /\ \A i \in {"key", "done", "hashed", "cloned", "counted", "refs"} : ctxs[c][i] = fcCtx[c][i]
      BY <1>5, <2>1, Zenon DEF FcContexts
    <2> QED
      BY <2>2, Zenon DEF FcOnly
  <1>13. FcCallbacks'
    <2>1. \A g \in FcFetches : FcPosted("call", g)' = IF fcFetch'[g].at = "called" THEN 1 ELSE 0
      <3> SUFFICES ASSUME NEW g \in FcFetches
                   PROVE  FcPosted("call", g)' = IF fcFetch'[g].at = "called" THEN 1 ELSE 0
        BY Zenon
      <3>1. FcPosted("call", g) = IF fcFetch[g].at = "called" THEN 1 ELSE 0
        BY Zenon DEF FcInv, FcCallbacks
      <3>2. FcPosted("call", g)' = FcPosted("call", g) + (IF g \in S THEN 1 ELSE 0)
        BY <1>7, Zenon
      <3>3. g \in S => fcFetch[g].at = "waiting"
        BY <1>6, Zenon DEF FcWaitsFor
      <3> QED
        BY <1>8, <3>1, <3>2, <3>3
    <2> QED
      BY <1>7, <2>1, Zenon DEF FcCallbacks, FcOnLoops
  <1>14. CASE FcDetach(ctxs, c, n, {}) /\ FcGoto(l, FcIdle)
    <2> HIDE DEF ctxs
    <2>1. FcIdle \in FcPlaces /\ FcIdle.at = "idle" /\ ~FcIdle.new
      BY DEF FcIdle, FcPlaces
    <2>2. /\ fcLoop' \in [FcLoops -> FcPlaces] /\ fcLoop'[l] = FcIdle
          /\ \A m \in FcLoops : m # l => fcLoop'[m] = fcLoop[m]
      BY <1>3, <1>14, <2>1, Zenon DEF FcGoto
    <2>3. FcQueuesOK' /\ FcElsewhere(l)
      BY <1>7, <2>2, Zenon DEF FcQueuesOK, FcElsewhere
    <2>4. /\ \A x \in FcFetches : FcLocks(l, x) = 0 /\ FcLocks(l, x)' = 0 /\ FcDrops(l, x)' = 0
          /\ \A x \in FcFetches : FcDrops(l, x) = IF x = c THEN n ELSE 0
      BY <1>a, <1>b, <1>1, <1>4, <2>1, <2>2, ZenonT(30) DEF FcLocks, FcDrops
    <2>5. \A x \in FcFetches : x # c => FcSameFor(l, x)
      BY <1>10, <1>11, <2>4, Zenon DEF FcSameFor
    <2>6. FcRefersTo(l, c, c) = FcRefersTo(l, c, c)' + n
      <3>1. /\ FcUse(c, c) \in Nat /\ FcUse(c, c)' = FcUse(c, c)
            /\ FcPosted("start", c) \in Nat /\ FcPosted("shutdown", c) \in Nat
        BY <1>3, <1>4, <1>10, Zenon DEF FcUse, FcLaws, PostedNatLaw
      <3> QED
        BY <1>4, <1>11, <2>4, <3>1 DEF FcRefersTo
    <2>7. FcLetsGo(l, c, c, n)
      <3>1. fcLoop[l].at \notin {"finish", "add"} /\ fcLoop'[l].at = "idle" /\ ~fcLoop'[l].new
        BY <1>1, <2>1, <2>2, Zenon
      <3>2. \A g \in FcFetches : g # c => FcUse(g, c)' = FcUse(g, c)
        BY <1>4, <1>10, Zenon
      <3>3. FcReached(l, c, c)
        BY <1>4, Zenon DEF FcReached
      <3> QED
        BY <1>1, <1>9, <1>10, <2>3, <2>5, <2>6, <3>1, <3>2, <3>3, ZenonT(30) DEF FcLetsGo
    <2>8. \A g \in FcFetches : g \in ctxs[c].resps <=> FcWaitsFor(g, c)'
      BY <1>10, <1>12, Zenon
    <2>9. /\ DOMAIN fcCtx' \subseteq FcFetches
          /\ \A x \in DOMAIN fcCtx' : fcCtx'[x] \in FcContexts
          /\ fcCount' \in [FcDomains -> Nat] /\ fcFailed' = fcFailed
          /\ FcHandlers' /\ FcStore' /\ FcLists' /\ FcAccounts' /\ FcCounters'
      BY <1>4, <1>5, <1>12, <1>14, <2>3, <2>7, <2>8, Zenon DEF FcLaws, DetachStepLaw
    <2>10. FetchTypeOK'
      BY <1>1, <1>3, <1>7, <1>8, <2>2, <2>9, ZenonT(30) DEF FetchTypeOK, FcFetchSet, FcJobSet
    <2> QED
      BY <1>13, <2>9, <2>10, Zenon DEF FcInv, FcAsserts
  <1>15. CASE /\ fcCtx' = ctxs
              /\ FcGoto(l, [fcLoop[l] EXCEPT !.at = "spill", !.count = Cardinality(S)])
              /\ fcCount' = fcCount /\ fcFailed' = fcFailed
    <2>0. PICK pc : pc = [fcLoop[l] EXCEPT !.at = "spill", !.count = Cardinality(S)]
      BY Zenon
    <2> HIDE DEF ctxs
    <2>1. /\ pc \in FcPlaces /\ pc.at = "spill" /\ pc.ctx = c /\ pc.drop = n /\ ~pc.new
      BY <1>a, <1>b, <1>3, <1>4, <1>6, <2>0, ZenonT(30) DEF FcPlaces
    <2>2. /\ fcLoop' \in [FcLoops -> FcPlaces] /\ fcLoop'[l] = pc
          /\ \A m \in FcLoops : m # l => fcLoop'[m] = fcLoop[m]
      BY <1>3, <1>15, <2>0, <2>1, Zenon DEF FcGoto
    <2>3. FcQueuesOK' /\ FcElsewhere(l)
      BY <1>7, <2>2, Zenon DEF FcQueuesOK, FcElsewhere
    <2>4. \A x \in FcFetches : /\ FcLocks(l, x) = 0 /\ FcLocks(l, x)' = 0
                                /\ FcDrops(l, x)' = FcDrops(l, x)
      BY <1>a, <1>b, <1>1, <1>4, <2>1, <2>2, ZenonT(30) DEF FcLocks, FcDrops
    <2>5. \A x \in FcFetches : FcSameFor(l, x)
      BY <1>10, <1>11, <2>4, Zenon DEF FcSameFor
    <2>6. /\ DOMAIN fcCtx' = DOMAIN fcCtx /\ \A x \in DOMAIN fcCtx : x # c => fcCtx'[x] = fcCtx[x]
          /\ fcCtx'[c] \in FcContexts /\ fcCtx'[c].resps = {}
          /\ fcCtx'[c].key = fcCtx[c].key /\ fcCtx'[c].done = fcCtx[c].done
          /\ fcCtx'[c].hashed = fcCtx[c].hashed /\ fcCtx'[c].cloned = fcCtx[c].cloned
          /\ fcCtx'[c].counted = fcCtx[c].counted /\ fcCtx'[c].refs = fcCtx[c].refs
      BY <1>12, <1>15, Zenon DEF FcOnly
    <2>7. FcHandler(l)'
      BY <1>4, <1>5, <2>1, <2>2, <2>6, Zenon DEF FcHandler
    <2>8. FcOneChanged(c) /\ FcSafeFor(l, c) /\ FcAllForOne(l, c, c)
      <3>1. FcOneChanged(c)
        BY <1>1, <1>3, <1>5, <2>6, Zenon DEF FcOneChanged
      <3>2. FcSafeFor(l, c)
        BY <1>4, Zenon DEF FcSafeFor
      <3>3. FcAllForOne(l, c, c)
        BY <1>1, <1>4, <1>9, <1>10, <2>3, <2>5, Zenon DEF FcAllForOne, FcReached
      <3> QED
        BY <3>1, <3>2, <3>3, Zenon
    <2>9. FcTidy(c)'
      <3>1. FcSettled(c)
        BY <1>1, <1>4, <1>5, <1>9, <2>6, Zenon DEF FcSettled, FcFetchKept
      <3> QED
        BY <1>5, <3>1, Zenon DEF FcLaws, TidyKeptLaw
    <2>10. /\ FcRefs(c)' \in Nat
           /\ FcRefs(c)' + FcRefersTo(l, c, c) + FcAlive(c)
              = FcRefs(c) + FcRefersTo(l, c, c)' + FcAlive(c)'
      <3>1. /\ FcRefs(c)' = FcRefs(c) /\ FcAlive(c)' = FcAlive(c) /\ FcRefs(c) \in Nat
        BY <1>5, <2>6, Zenon DEF FcRefs, FcAlive, FcContexts
      <3>2. FcRefersTo(l, c, c)' = FcRefersTo(l, c, c)
        BY <1>4, <2>5, Zenon DEF FcRefersTo, FcSameFor
      <3> QED
        BY <3>1, <3>2, Zenon
    <2>11. \A g \in FcFetches : g \in fcCtx'[c].resps <=> FcWaitsFor(g, c)'
      BY <1>10, <2>6, Zenon
    <2>12. FcHandlers' /\ FcStore' /\ FcLists' /\ FcAccounts'
      BY <1>4, <2>3, <2>7, <2>8, <2>9, <2>10, <2>11, Zenon DEF FcLaws, ChangeStepLaw
    <2>13. FcCounters'
      BY <1>15, <2>6, Zenon DEF FcInv, FcLaws, CountersKeptLaw
    <2>14. FetchTypeOK'
      BY <1>1, <1>3, <1>7, <1>8, <1>15, <2>2, <2>6, ZenonT(30) DEF FetchTypeOK, FcFetchSet, FcJobSet
    <2> QED
      BY <1>13, <1>15, <2>12, <2>13, <2>14, Zenon DEF FcInv, FcAsserts
  <1> QED
    BY <1>2, <1>14, <1>15, Zenon

\* Nothing but the resolver's own state changes.
LEMMA ResInv ==
  ASSUME FcLaws, FcInv, UNCHANGED <<fcCtx, fcTable, fcCount, fcFetch, fcLoop, fcJobs,
         fcFailed>>,
         fcRes' \in FcResSet
  PROVE  FcInv'
  <1>1. FetchTypeOK'
    BY Zenon DEF FcInv, FetchTypeOK, FcResSet
  <1>2. FcHandlers' /\ FcStore' /\ FcLists'
    BY DEF FcInv, FcHandlers, FcHandler, FcStore, FcTidy, FcLists
  <1>3. FcCallbacks'
    BY Zenon DEF FcInv, FcCallbacks, FcPosted
  <1>4. FcAccounts'
    <2>1. \A x : FcUsers(x)' = FcUsers(x) /\ FcLockers(x)' = FcLockers(x)
      BY Zenon DEF FcUsers, FcLockers
    <2>2. \A x : FcDropped(x)' = FcDropped(x) /\ \A j : FcPosted(j, x)' = FcPosted(j, x)
      BY Zenon DEF FcDropped, FcPosted
    <2>3. \A x : FcOwed(x)' = FcOwed(x)
      BY <2>1, <2>2, Zenon DEF FcOwed, FcHeld
    <2>4. \A x : FcRefs(x)' = FcRefs(x) /\ FcAlive(x)' = FcAlive(x)
      BY Zenon DEF FcRefs, FcAlive
    <2> QED
      BY <2>3, <2>4, Zenon DEF FcInv, FcAccounts
  <1>5. FcCounters'
    BY Zenon DEF FcInv, FcLaws, CountersKeptLaw
  <1> QED
    BY <1>1, <1>2, <1>3, <1>4, <1>5, Zenon DEF FcInv, FcAsserts

\* dns_resolver_shutdown sets "exiting", and in the end stops the timer.
LEMMA ExitInv ==
  ASSUME FcLaws, FcInv, FcExit \/ FcStopTimer
  PROVE  FcInv'
  <1>1. fcRes \in FcResSet
    BY Zenon DEF FcInv, FetchTypeOK, FcResSet
  <1>2. fcRes' \in FcResSet
    BY <1>1, Zenon DEF FcResSet, FcExit, FcStopTimer
  <1>3. UNCHANGED <<fcCtx, fcTable, fcCount, fcFetch, fcLoop, fcJobs, fcFailed>>
    BY Zenon DEF FcExit, FcStopTimer
  <1> QED
    BY <1>2, <1>3, ResInv, Zenon

\* The handler of the spillat timer, which has to do with no context.
LEMMA TimerInv ==
  ASSUME FcLaws, FcInv, NEW l \in FcLoops,
         FcTick(l) \/ FcCountdown(l) \/ FcCountdownLocked(l)
  PROVE  FcInv'
  <1>1. /\ UNCHANGED <<fcCtx, fcTable, fcCount, fcFetch, fcJobs>>
        /\ fcFetch \in [FcFetches -> FcFetchSet] /\ fcLoop \in [FcLoops -> FcPlaces]
        /\ fcRes \in FcResSet
    BY Zenon DEF FcTick, FcCountdown, FcCountdownLocked, FcInv, FetchTypeOK, FcFetchSet, FcResSet
  <1>2. fcLoop[l].at \in FcNowhere
    BY DEF FcTick, FcCountdown, FcCountdownLocked, FcIsIdle, FcIdle, FcNowhere
  <1>3. PICK pc \in FcPlaces : FcGoto(l, pc) /\ pc.at \in {"idle", "tick", "tock"} /\ ~pc.new
    <2>1. FcIdle \in FcPlaces /\ FcIdle.at = "idle" /\ ~FcIdle.new
      BY DEF FcIdle, FcPlaces
    <2>2. CASE FcTick(l)
      <3>1. PICK q : q = [FcIdle EXCEPT !.at = "tick"]
        BY Zenon
      <3>2. q \in FcPlaces /\ q.at = "tick" /\ ~q.new
        BY <2>1, <3>1, Zenon DEF FcPlaces
      <3>3. FcGoto(l, q)
        BY <2>2, <3>1, Zenon DEF FcTick
      <3> QED
        BY <3>2, <3>3, Zenon
    <2>3. CASE FcCountdown(l) /\ fcRes.exiting
      BY <2>1, <2>3, Zenon DEF FcCountdown
    <2>4. CASE FcCountdown(l) /\ ~fcRes.exiting
      <3>1. PICK q : q = [FcIdle EXCEPT !.at = "tock"]
        BY Zenon
      <3>2. q \in FcPlaces /\ q.at = "tock" /\ ~q.new
        BY <2>1, <3>1, Zenon DEF FcPlaces
      <3>3. FcGoto(l, q)
        BY <2>4, <3>1, Zenon DEF FcCountdown
      <3> QED
        BY <3>2, <3>3, Zenon
    <2>5. CASE FcCountdownLocked(l)
      BY <2>1, <2>5, Zenon DEF FcCountdownLocked
    <2> QED
      BY <2>2, <2>3, <2>4, <2>5, Zenon
  <1>5. pc.at \in FcNowhere
    BY <1>3, Zenon DEF FcNowhere
  <1>6. fcLoop'[l] = pc
    BY <1>1, <1>3, Zenon DEF FcGoto
  <1>7. FcHandler(l)'
    BY <1>3, <1>6, Zenon DEF FcHandler
  <1>8. FcFetchKept(l)
    BY <1>1, Zenon DEF FcLaws, FetchSameLaw
  <1>9. FcAsserts'
    BY Zenon DEF FcTick, FcCountdown, FcCountdownLocked, FcCheck, FcInv, FcAsserts
  <1>10. fcRes' \in FcResSet
    <2>1. CASE FcTick(l)
      BY <1>1, <2>1, Zenon DEF FcTick
    <2>2. CASE FcCountdown(l)
      BY <1>1, <2>2, Zenon DEF FcCountdown, FcResSet
    <2>3. CASE FcCountdownLocked(l)
      <3>1. PICK s : s = Max({fcRes.spillat - 1, FcSpillatMin})
        BY Zenon
      <3>2. s \in Nat
        <4>1. fcRes.spillat - 1 \in Int /\ FcSpillatMin \in Nat
          BY <1>1, FetchAssumption DEF FcResSet
        <4>2. \E x \in {fcRes.spillat - 1, FcSpillatMin} :
                \A y \in {fcRes.spillat - 1, FcSpillatMin} : x >= y
          BY <4>1
        <4>3. s \in {fcRes.spillat - 1, FcSpillatMin} /\ s >= FcSpillatMin
          BY <3>1, <4>2, Zenon DEF Max
        <4> QED
          BY <4>1, <4>3, SMTT(30)
      <3>3. fcRes' = [fcRes EXCEPT !.spillat = s, !.timer = IF s <= FcSpillatMin THEN FcNone ELSE @]
        BY <2>3, <3>1, Zenon DEF FcCountdownLocked
      <3> QED
        BY <1>1, <3>2, <3>3, Zenon DEF FcResSet
    <2> QED
      BY <2>1, <2>2, <2>3, Zenon
  <1>11. /\ fcFetch' \in [FcFetches -> FcFetchSet]
         /\ \A g \in FcFetches : fcFetch'[g] = fcFetch[g]
    BY <1>1, Zenon
  <1> QED
    BY <1>1, <1>2, <1>3, <1>5, <1>7, <1>8, <1>9, <1>10, <1>11, Zenon DEF FcLaws, QuietInvLaw

\* The answer comes in: the context is no longer joined if it was handed out.
LEMMA AnswerInv ==
  ASSUME FcLaws, FcInv, NEW c \in DOMAIN fcCtx, FcAnswer(c)
  PROVE  FcInv'
  <1>a. PICK l : l = FcLoopOf(c)
    BY Zenon
  <1>b. PICK pc : pc = [FcIdle EXCEPT !.at = "finish", !.ctx = c]
    BY Zenon
  <1>1. /\ c \in FcFetches /\ l \in FcLoops /\ FcKey(c) \in FcKeys /\ FcTidy(c)
        /\ fcCtx[c] \in FcContexts /\ fcCtx[c].key = FcKey(c)
    BY <1>a, Zenon DEF FcInv, FetchTypeOK, FcStore, FcTidy, FcLaws, LoopOfLaw
  <1>2. /\ fcLoop \in [FcLoops -> FcPlaces] /\ fcFetch \in [FcFetches -> FcFetchSet]
        /\ fcJobs \in [FcLoops -> Seq(FcJobSet)]
        /\ DOMAIN fcCtx \subseteq FcFetches /\ \A x \in DOMAIN fcCtx : fcCtx[x] \in FcContexts
    BY Zenon DEF FcInv, FetchTypeOK, FcFetchSet, FcJobSet
  <1>3. /\ ~fcCtx[c].done /\ fcLoop[l] = FcIdle /\ fcLoop[l].at = "idle"
        /\ FcGoto(l, pc)
        /\ fcTable' = fcTable /\ fcCount' = fcCount /\ fcJobs' = fcJobs /\ fcRes' = fcRes
        /\ fcFailed' = fcFailed
    <2>1. FcIdle.at = "idle"
      BY Zenon DEF FcIdle
    <2> QED
      BY <1>a, <1>b, <2>1, Zenon DEF FcAnswer, FcRunning, FcIsIdle
  <1>4. ~fcCtx[c].cloned /\ (FcCall[c].shared => fcCtx[c].hashed)
    <2>1. fcCtx[c].cloned => fcLoop[l].at = "finish"
      BY <1>a, <1>1, <1>3, Zenon DEF FcTidy
    <2>2. ~fcCtx[c].cloned
      BY <1>3, <2>1, Zenon
    <2>3. FcCall[c].shared /\ ~fcCtx[c].hashed => fcLoop[l].at = "add"
      BY <1>a, <1>1, <1>3, <2>2, Zenon DEF FcTidy
    <2> QED
      BY <1>3, <2>2, <2>3, Zenon
  <1>5. /\ DOMAIN fcCtx' = DOMAIN fcCtx /\ \A x \in DOMAIN fcCtx : x # c => fcCtx'[x] = fcCtx[x]
        /\ fcCtx'[c] \in FcContexts /\ fcCtx'[c].resps = fcCtx[c].resps
        /\ fcCtx'[c].key = fcCtx[c].key /\ fcCtx'[c].done = fcCtx[c].done
        /\ fcCtx'[c].hashed = fcCtx[c].hashed
        /\ fcCtx'[c].counted = fcCtx[c].counted /\ fcCtx'[c].refs = fcCtx[c].refs
    <2>1. PICK b \in BOOLEAN : b = (fcCtx[c].resps # {})
      BY Zenon
    <2>2. PICK r : r = [fcCtx[c] EXCEPT !.answer = TRUE, !.cloned = b]
      BY Zenon
    <2>3. /\ r \in FcContexts /\ r.resps = fcCtx[c].resps /\ r.key = fcCtx[c].key
          /\ r.done = fcCtx[c].done /\ r.hashed = fcCtx[c].hashed
          /\ r.counted = fcCtx[c].counted /\ r.refs = fcCtx[c].refs
      BY <1>1, <2>1, <2>2, ZenonT(30) DEF FcContexts
    <2>4. fcCtx' = [fcCtx EXCEPT ![c] = r]
      BY <2>1, <2>2, Zenon DEF FcAnswer
    <2> QED
      BY <2>3, <2>4, Zenon
  <1>6. pc \in FcPlaces /\ pc.at = "finish" /\ pc.ctx = c /\ ~pc.new
    <2>1. FcIdle \in FcPlaces /\ ~FcIdle.new
      BY DEF FcIdle, FcPlaces
    <2> QED
      BY <1>1, <1>b, <2>1, Zenon DEF FcPlaces
  <1>7. /\ fcLoop' \in [FcLoops -> FcPlaces] /\ fcLoop'[l] = pc
        /\ \A m \in FcLoops : m # l => fcLoop'[m] = fcLoop[m]
    BY <1>1, <1>2, <1>3, <1>6, Zenon DEF FcGoto
  <1>8. FcQueuesOK' /\ FcElsewhere(l)
    BY <1>2, <1>3, <1>7, Zenon DEF FcQueuesOK, FcElsewhere
  <1>9. /\ fcFetch' \in [FcFetches -> FcFetchSet]
        /\ \A g \in FcFetches : fcFetch'[g].at = fcFetch[g].at /\ fcFetch'[g].ctx = fcFetch[g].ctx
    <2>1. fcFetch' = [f \in FcFetches |->
                   IF f \in fcCtx[c].resps THEN [fcFetch[f] EXCEPT !.result = "answer"]
                   ELSE fcFetch[f]]
      BY Zenon DEF FcAnswer
    <2>2. ASSUME NEW g \in FcFetches
          PROVE  /\ [fcFetch[g] EXCEPT !.result = "answer"] \in FcFetchSet
                 /\ [fcFetch[g] EXCEPT !.result = "answer"].at = fcFetch[g].at
                 /\ [fcFetch[g] EXCEPT !.result = "answer"].ctx = fcFetch[g].ctx
      BY <1>2, Zenon DEF FcFetchSet
    <2> QED
      BY <1>2, <2>1, <2>2, Zenon
  <1>10. /\ FcFetchKept(l)
         /\ \A g \in FcFetches, x \in FcFetches :
              FcUse(g, x)' = FcUse(g, x) /\ (FcWaitsFor(g, x)' <=> FcWaitsFor(g, x))
    BY <1>9, Zenon DEF FcFetchKept, FcUse, FcWaitsFor, FcInv, FcLists
  <1>11. /\ \A x \in FcFetches : /\ FcDrops(l, x) = 0 /\ FcDrops(l, x)' = 0
                                 /\ FcLocks(l, x) = 0 /\ FcLocks(l, x)' = 0
         /\ \A j, x : FcPosted(j, x)' = FcPosted(j, x)
    BY <1>3, <1>6, <1>7, Zenon DEF FcLocks, FcDrops, FcPosted
  <1>12. \A x \in FcFetches : FcSameFor(l, x)
    BY <1>10, <1>11, Zenon DEF FcSameFor
  <1>13. FcHandler(l)'
    BY <1>a, <1>1, <1>3, <1>5, <1>6, <1>7, Zenon DEF FcHandler
  <1>14. FcOneChanged(c) /\ FcSafeFor(l, c) /\ FcAllForOne(l, c, c)
    <2>1. FcOneChanged(c)
      BY <1>2, <1>3, <1>5, Zenon DEF FcOneChanged
    <2>2. FcSafeFor(l, c)
      BY <1>a, Zenon DEF FcSafeFor
    <2>3. FcAllForOne(l, c, c)
      BY <1>a, <1>1, <1>3, <1>8, <1>10, <1>12, Zenon DEF FcAllForOne, FcReached
    <2> QED
      BY <2>1, <2>2, <2>3, Zenon
  <1>15. FcTidy(c)'
    BY <1>a, <1>1, <1>3, <1>4, <1>5, <1>6, <1>7, <1>9, Zenon DEF FcTidy
  <1>16. \A g \in FcFetches : g \in fcCtx'[c].resps <=> FcWaitsFor(g, c)'
    <2>1. \A g \in FcFetches : g \in fcCtx[c].resps <=> FcWaitsFor(g, c)
      BY <1>1, Zenon DEF FcInv, FcLists, FcWaitsFor
    <2> QED
      BY <1>1, <1>5, <1>10, <2>1, Zenon
  <1>17. /\ FcRefs(c)' \in Nat
         /\ FcRefs(c)' + FcRefersTo(l, c, c) + FcAlive(c) = FcRefs(c) + FcRefersTo(l, c, c)' + FcAlive(c)'
    <2>1. FcRefs(c)' = FcRefs(c) /\ FcAlive(c)' = FcAlive(c) /\ FcRefs(c) \in Nat
      BY <1>1, <1>5, Zenon DEF FcRefs, FcAlive, FcContexts
    <2>2. FcRefersTo(l, c, c)' = FcRefersTo(l, c, c)
      BY <1>1, <1>10, <1>11, Zenon DEF FcRefersTo
    <2> QED
      BY <2>1, <2>2, Zenon
  <1>18. FcHandlers' /\ FcStore' /\ FcLists' /\ FcAccounts'
    BY <1>1, <1>8, <1>13, <1>14, <1>15, <1>16, <1>17, Zenon DEF FcLaws, ChangeStepLaw
  <1>19. FcCounters'
    BY <1>3, <1>5, Zenon DEF FcInv, FcLaws, CountersKeptLaw
  <1>20. FcCallbacks'
    BY <1>3, <1>9, <1>11, Zenon DEF FcInv, FcCallbacks
  <1>21. FetchTypeOK'
    BY <1>2, <1>3, <1>5, <1>7, <1>9, Zenon DEF FcInv, FetchTypeOK, FcFetchSet, FcJobSet
  <1> QED
    BY <1>3, <1>18, <1>19, <1>20, <1>21, Zenon DEF FcInv, FcAsserts

\* A referral takes the context out of the count of its zone.
LEMMA ReferralInv ==
  ASSUME FcLaws, FcInv, NEW c \in DOMAIN fcCtx, FcReferral(c)
  PROVE  FcInv'
  <1>a. PICK l : l = FcLoopOf(c)
    BY Zenon
  <1>b. PICK z : z = FcDomain[FcKey(c)]
    BY Zenon
  <1>1. /\ c \in FcFetches /\ l \in FcLoops /\ FcKey(c) \in FcKeys /\ FcTidy(c)
        /\ fcCtx[c] \in FcContexts /\ fcCtx[c].key = FcKey(c) /\ z \in FcDomains
    <2>1. c \in FcFetches
      BY Zenon DEF FcInv, FetchTypeOK
    <2> QED
      BY <1>a, <1>b, <2>1, Zenon DEF FcInv, FetchTypeOK, FcStore, FcTidy, FcLaws, LoopOfLaw
  <1>2. /\ fcLoop \in [FcLoops -> FcPlaces] /\ fcCount \in [FcDomains -> Nat]
        /\ fcJobs \in [FcLoops -> Seq(FcJobSet)]
        /\ DOMAIN fcCtx \subseteq FcFetches /\ \A x \in DOMAIN fcCtx : fcCtx[x] \in FcContexts
    BY Zenon DEF FcInv, FetchTypeOK, FcFetchSet, FcJobSet
  <1>3. /\ ~fcCtx[c].done /\ fcCtx[c].counted /\ fcLoop[l].at = "idle" /\ ~fcLoop[l].new
        /\ fcTable' = fcTable /\ fcFetch' = fcFetch /\ fcLoop' = fcLoop /\ fcJobs' = fcJobs
        /\ fcRes' = fcRes /\ fcCount' = FcDecr(c)
        /\ fcCtx' = [fcCtx EXCEPT ![c] = [fcCtx[c] EXCEPT !.counted = FALSE]]
    BY <1>a DEF FcReferral, FcRunning, FcIsIdle, FcIdle
  <1>4. fcFailed' = fcFailed \cup (IF fcCount[z] = 0 THEN {"fcount_decr"} ELSE {})
    BY <1>b, <1>1, Zenon DEF FcReferral, FcCheck
  <1>5. /\ DOMAIN fcCtx' = DOMAIN fcCtx /\ \A x \in DOMAIN fcCtx : x # c => fcCtx'[x] = fcCtx[x]
        /\ fcCtx'[c] \in FcContexts /\ fcCtx'[c].resps = fcCtx[c].resps
        /\ fcCtx'[c].key = fcCtx[c].key /\ fcCtx'[c].done = fcCtx[c].done
        /\ fcCtx'[c].hashed = fcCtx[c].hashed /\ fcCtx'[c].cloned = fcCtx[c].cloned
        /\ ~fcCtx'[c].counted /\ fcCtx'[c].refs = fcCtx[c].refs
    BY <1>1, <1>3, Zenon DEF FcContexts
  <1>6. FcQueuesOK' /\ FcElsewhere(l)
    BY <1>2, <1>3, Zenon DEF FcQueuesOK, FcElsewhere
  <1>7. /\ FcFetchKept(l)
        /\ \A g, x : FcUse(g, x)' = FcUse(g, x) /\ (FcWaitsFor(g, x)' <=> FcWaitsFor(g, x))
    BY <1>1, <1>3, Zenon DEF FcLaws, FetchSameLaw
  <1>8. \A x \in FcFetches : /\ FcDrops(l, x)' = FcDrops(l, x) /\ FcLocks(l, x)' = FcLocks(l, x)
                            /\ \A j : FcPosted(j, x)' = FcPosted(j, x)
    BY <1>3, Zenon DEF FcLocks, FcDrops, FcPosted
  <1>9. \A x \in FcFetches : FcSameFor(l, x)
    BY <1>7, <1>8, Zenon DEF FcSameFor
  <1>10. FcHandler(l)'
    BY <1>3, Zenon DEF FcHandler
  <1>11. FcOneChanged(c) /\ FcSafeFor(l, c) /\ FcAllForOne(l, c, c)
    <2>1. FcOneChanged(c)
      BY <1>2, <1>3, <1>5, Zenon DEF FcOneChanged
    <2>2. FcSafeFor(l, c)
      BY <1>a, Zenon DEF FcSafeFor
    <2>3. FcAllForOne(l, c, c)
      BY <1>a, <1>1, <1>3, <1>6, <1>7, <1>9, Zenon DEF FcAllForOne, FcReached
    <2> QED
      BY <2>1, <2>2, <2>3, Zenon
  <1>12. FcTidy(c)'
    <2>1. FcSettled(c)
      BY <1>1, <1>3, <1>5, Zenon DEF FcSettled
    <2> QED
      BY <1>1, <2>1, Zenon DEF FcLaws, TidyKeptLaw
  <1>13. \A g \in FcFetches : g \in fcCtx'[c].resps <=> FcWaitsFor(g, c)'
    <2>1. \A g \in FcFetches : g \in fcCtx[c].resps <=> FcWaitsFor(g, c)
      BY <1>1, Zenon DEF FcInv, FcLists, FcWaitsFor
    <2> QED
      BY <1>5, <1>7, <2>1, Zenon
  <1>14. /\ FcRefs(c)' \in Nat
         /\ FcRefs(c)' + FcRefersTo(l, c, c) + FcAlive(c) = FcRefs(c) + FcRefersTo(l, c, c)' + FcAlive(c)'
    <2>1. FcRefs(c)' = FcRefs(c) /\ FcAlive(c)' = FcAlive(c) /\ FcRefs(c) \in Nat
      BY <1>1, <1>5, Zenon DEF FcRefs, FcAlive, FcContexts
    <2>2. FcRefersTo(l, c, c)' = FcRefersTo(l, c, c)
      BY <1>1, <1>7, <1>8, Zenon DEF FcRefersTo
    <2> QED
      BY <2>1, <2>2, Zenon
  <1>15. FcHandlers' /\ FcStore' /\ FcLists' /\ FcAccounts'
    BY <1>1, <1>6, <1>10, <1>11, <1>12, <1>13, <1>14, Zenon DEF FcLaws, ChangeStepLaw
  <1>16. fcCount[z] >= 1 /\ fcCount[z] <= FcZspill
    <2>1. fcCount[z] = Cardinality(FcCountedIn(z)) /\ fcCount[z] <= FcZspill /\ c \in FcCountedIn(z)
      BY <1>b, <1>1, <1>3, Zenon DEF FcInv, FcCounters, FcCountedIn
    <2>2. FcCountedIn(z) \in SUBSET FcFetches
      BY <1>2, Zenon DEF FcCountedIn
    <2>3. IsFiniteSet(FcCountedIn(z))
      BY <2>2, FetchAssumption, Zenon DEF FcLaws, FiniteLaw
    <2>4. Cardinality(FcCountedIn(z)) # 0
      BY <2>1, <2>3, Zenon DEF FcLaws, FiniteLaw
    <2> QED
      BY <1>1, <1>2, <2>1, <2>4
  <1>17. FcCounters' /\ fcCount' \in [FcDomains -> Nat]
    <2>1. FcIn(c) = 1 /\ FcIn(c)' = 0
      BY <1>3, <1>5, Zenon DEF FcIn
    <2>2. fcCount' = [fcCount EXCEPT ![z] = fcCount[z] - 1]
      BY <1>b, <1>1, <1>3, Zenon DEF FcDecr
    <2>3. fcCount[z] - FcIn(c) + FcIn(c)' = fcCount[z] - 1
      BY <1>1, <1>2, <2>1
    <2>4. fcCount' = [fcCount EXCEPT ![z] = fcCount[z] - FcIn(c) + FcIn(c)']
      BY <2>2, <2>3, ZenonT(30)
    <2>5. fcCount'[z] <= FcZspill
      BY <1>1, <1>2, <1>16, <2>2, FetchAssumption
    <2> QED
      BY <1>b, <1>1, <1>2, <1>5, <2>4, <2>5, ZenonT(30) DEF FcInv, FcLaws, CountersStepLaw
  <1>18. fcFailed' = fcFailed
    BY <1>4, <1>16
  <1>19. FcCallbacks'
    BY <1>3, <1>8, Zenon DEF FcInv, FcCallbacks
  <1>20. FetchTypeOK'
    BY <1>2, <1>3, <1>5, <1>17, Zenon DEF FcInv, FetchTypeOK
  <1> QED
    BY <1>15, <1>17, <1>18, <1>19, <1>20, Zenon DEF FcInv, FcAsserts

\* A fetch that is canceled leaves the list of its context, and its callback is
\* posted; it keeps its reference until that has run.
LEMMA CancelfetchInv ==
  ASSUME FcLaws, FcInv, NEW f \in FcFetches, FcCancelfetch(f)
  PROVE  FcInv'
  <1>a. PICK l : l = FcLoopOf(f)
    BY Zenon
  <1>b. PICK c : c = fcFetch[f].ctx
    BY Zenon
  <1>1. /\ l \in FcLoops /\ fcFetch[f].at = "waiting" /\ c \in FcFetches
        /\ fcLoop[l].at = "idle" /\ ~fcLoop[l].new
        /\ fcTable' = fcTable /\ fcCount' = fcCount /\ fcLoop' = fcLoop
        /\ fcRes' = fcRes /\ fcFailed' = fcFailed
        /\ FcPost(l, [job |-> "call", of |-> f])
    <2>1. l \in FcLoops /\ fcFetch[f].at = "waiting" /\ fcLoop[l].at = "idle" /\ ~fcLoop[l].new
      BY <1>a DEF FcCancelfetch, FcIsIdle, FcIdle, FcLaws, LoopOfLaw
    <2>2. c \in FcFetches
      BY <1>b, <2>1, Zenon DEF FcInv, FcLists
    <2> QED
      BY <1>a, <2>1, <2>2, Zenon DEF FcCancelfetch
  <1>2. /\ fcLoop \in [FcLoops -> FcPlaces] /\ fcFetch \in [FcFetches -> FcFetchSet]
        /\ fcJobs \in [FcLoops -> Seq(FcJobSet)] /\ FcOnLoops /\ FetchTypeOK
        /\ DOMAIN fcCtx \subseteq FcFetches /\ \A x \in DOMAIN fcCtx : fcCtx[x] \in FcContexts
    BY Zenon DEF FcInv, FetchTypeOK, FcFetchSet, FcJobSet, FcCallbacks, FcOnLoops
  <1>3. FcUse(f, c) = 1
    BY <1>b, <1>1, Zenon DEF FcUse
  <1>4. c \in DOMAIN fcCtx /\ fcCtx[c] \in FcContexts /\ FcTidy(c) /\ FcLoopOf(c) \in FcLoops
    <2>1. c \in DOMAIN fcCtx
      BY <1>1, <1>3, Zenon DEF FcInv, FcLaws, ReferencedLaw
    <2> QED
      BY <1>1, <1>2, <2>1, Zenon DEF FcInv, FcStore, FcLaws, LoopOfLaw
  <1>5. /\ DOMAIN fcCtx' = DOMAIN fcCtx /\ \A x \in DOMAIN fcCtx : x # c => fcCtx'[x] = fcCtx[x]
        /\ fcCtx'[c] \in FcContexts /\ fcCtx'[c].resps = fcCtx[c].resps \ {f}
        /\ fcCtx'[c].key = fcCtx[c].key /\ fcCtx'[c].done = fcCtx[c].done
        /\ fcCtx'[c].hashed = fcCtx[c].hashed /\ fcCtx'[c].cloned = fcCtx[c].cloned
        /\ fcCtx'[c].counted = fcCtx[c].counted /\ fcCtx'[c].refs = fcCtx[c].refs
    <2>1. PICK r : r = [fcCtx[c] EXCEPT !.resps = fcCtx[c].resps \ {f}]
      BY Zenon
    <2>2. fcCtx[c].resps \ {f} \in SUBSET FcFetches
      BY <1>4, Zenon DEF FcContexts
    <2>3. /\ r \in FcContexts /\ r.resps = fcCtx[c].resps \ {f} /\ r.key = fcCtx[c].key
          /\ r.done = fcCtx[c].done /\ r.hashed = fcCtx[c].hashed /\ r.cloned = fcCtx[c].cloned
          /\ r.counted = fcCtx[c].counted /\ r.refs = fcCtx[c].refs
      BY <1>4, <2>1, <2>2, Zenon DEF FcContexts
    <2>4. fcCtx' = [fcCtx EXCEPT ![c] = r]
      BY <1>b, <2>1, Zenon DEF FcCancelfetch
    <2> QED
      BY <1>4, <2>3, <2>4, Zenon
  <1>6. /\ fcFetch' \in [FcFetches -> FcFetchSet]
        /\ fcFetch'[f].at = "called" /\ fcFetch'[f].ctx = c
        /\ \A g \in FcFetches : g # f => fcFetch'[g] = fcFetch[g]
    <2>1. PICK r : r = [fcFetch[f] EXCEPT !.at = "called", !.result = "canceled"]
      BY Zenon
    <2>2. r \in FcFetchSet /\ r.at = "called" /\ r.ctx = c
      BY <1>b, <1>2, <2>1, Zenon DEF FcFetchSet
    <2>3. fcFetch' = [fcFetch EXCEPT ![f] = r]
      BY <2>1, Zenon DEF FcCancelfetch
    <2> QED
      BY <1>2, <2>2, <2>3, Zenon
  <1>7. /\ fcJobs' \in [FcLoops -> Seq(FcJobSet)] /\ FcOnLoops'
        /\ \A i \in {"start", "shutdown", "call"}, x \in FcFetches :
             FcPosted(i, x)' = FcPosted(i, x) + (IF i = "call" /\ x = f THEN 1 ELSE 0)
    BY <1>a, <1>1, <1>2, Zenon DEF FcLaws, PostedAppendLaw
  <1>8. FcQueuesOK' /\ FcElsewhere(l)
    BY <1>1, <1>2, <1>7, Zenon DEF FcQueuesOK, FcElsewhere
  <1>9. /\ FcFetchKept(l)
        /\ \A g \in FcFetches, x \in FcFetches : FcUse(g, x)' = FcUse(g, x)
        /\ \A g \in FcFetches, x \in FcFetches :
             FcWaitsFor(g, x)' <=> FcWaitsFor(g, x) /\ ~(g = f /\ x = c)
    <2>1. FcFetchKept(l)
      BY <1>1, <1>6, Zenon DEF FcFetchKept, FcInv, FcLists
    <2>2. ASSUME NEW g \in FcFetches, NEW x \in FcFetches
          PROVE  /\ FcUse(g, x)' = FcUse(g, x)
                 /\ FcWaitsFor(g, x)' <=> FcWaitsFor(g, x) /\ ~(g = f /\ x = c)
      BY <1>b, <1>1, <1>6, Zenon DEF FcUse, FcWaitsFor
    <2> QED
      BY <2>1, <2>2, Zenon
  <1>10. \A x \in FcFetches : /\ FcDrops(l, x)' = FcDrops(l, x) /\ FcLocks(l, x)' = FcLocks(l, x)
                             /\ FcPosted("start", x)' = FcPosted("start", x)
                             /\ FcPosted("shutdown", x)' = FcPosted("shutdown", x)
    <2>1. \A x \in FcFetches : FcPosted("start", x) \in Nat /\ FcPosted("shutdown", x) \in Nat
      BY <1>2, Zenon DEF FcLaws, PostedNatLaw
    <2>2. \A x \in FcFetches : FcDrops(l, x)' = FcDrops(l, x) /\ FcLocks(l, x)' = FcLocks(l, x)
      BY <1>1, Zenon DEF FcLocks, FcDrops
    <2>3. \A x \in FcFetches : /\ FcPosted("start", x)' = FcPosted("start", x)
                              /\ FcPosted("shutdown", x)' = FcPosted("shutdown", x)
      BY <1>7, <2>1
    <2> QED
      BY <2>2, <2>3, Zenon
  <1>11. \A x \in FcFetches : FcSameFor(l, x)
    BY <1>9, <1>10, Zenon DEF FcSameFor
  <1>12. FcHandler(l)'
    BY <1>1, Zenon DEF FcHandler
  <1>13. FcOneChanged(c) /\ FcSafeFor(l, c) /\ FcAllForOne(l, f, c)
    <2>1. FcOneChanged(c)
      BY <1>1, <1>2, <1>4, <1>5, Zenon DEF FcOneChanged
    <2>2. FcSafeFor(l, c)
      BY <1>4, <1>5, Zenon DEF FcSafeFor
    <2>3. FcAllForOne(l, f, c)
      BY <1>1, <1>3, <1>8, <1>9, <1>11, Zenon DEF FcAllForOne, FcReached
    <2> QED
      BY <2>1, <2>2, <2>3, Zenon
  <1>14. FcTidy(c)'
    <2>1. FcSettled(c)
      BY <1>1, <1>4, <1>5, <1>9, Zenon DEF FcSettled, FcFetchKept
    <2> QED
      BY <1>4, <2>1, Zenon DEF FcLaws, TidyKeptLaw
  <1>15. \A g \in FcFetches : g \in fcCtx'[c].resps <=> FcWaitsFor(g, c)'
    <2>1. \A g \in FcFetches : g \in fcCtx[c].resps <=> FcWaitsFor(g, c)
      BY <1>4, Zenon DEF FcInv, FcLists, FcWaitsFor
    <2> QED
      BY <1>1, <1>5, <1>9, <2>1, Zenon
  <1>16. /\ FcRefs(c)' \in Nat
         /\ FcRefs(c)' + FcRefersTo(l, f, c) + FcAlive(c) = FcRefs(c) + FcRefersTo(l, f, c)' + FcAlive(c)'
    <2>1. FcRefs(c)' = FcRefs(c) /\ FcAlive(c)' = FcAlive(c) /\ FcRefs(c) \in Nat
      BY <1>4, <1>5, Zenon DEF FcRefs, FcAlive, FcContexts
    <2>2. FcRefersTo(l, f, c)' = FcRefersTo(l, f, c)
      BY <1>1, <1>9, <1>10, Zenon DEF FcRefersTo
    <2> QED
      BY <2>1, <2>2, Zenon
  <1>17. FcHandlers' /\ FcStore' /\ FcLists' /\ FcAccounts'
    BY <1>1, <1>8, <1>12, <1>13, <1>14, <1>15, <1>16, Zenon DEF FcLaws, ChangeStepLaw
  <1>18. FcCounters'
    BY <1>1, <1>4, <1>5, Zenon DEF FcInv, FcLaws, CountersKeptLaw
  <1>19. FcCallbacks'
    <2>1. \A g \in FcFetches : FcPosted("call", g) = (IF fcFetch[g].at = "called" THEN 1 ELSE 0)
      BY Zenon DEF FcInv, FcCallbacks
    <2>2. \A g \in FcFetches : FcPosted("call", g)' = FcPosted("call", g) + (IF g = f THEN 1 ELSE 0)
      BY <1>7, Zenon
    <2>3. \A g \in FcFetches : FcPosted("call", g)' = (IF fcFetch'[g].at = "called" THEN 1 ELSE 0)
      BY <1>1, <1>6, <2>1, <2>2
    <2> QED
      BY <1>7, <2>3, Zenon DEF FcCallbacks, FcOnLoops
  <1>20. FetchTypeOK'
    BY <1>1, <1>2, <1>5, <1>6, <1>7, Zenon DEF FetchTypeOK, FcFetchSet, FcJobSet
  <1> QED
    BY <1>1, <1>17, <1>18, <1>19, <1>20, Zenon DEF FcInv, FcAsserts

\* The shutdown refers to every context in the table while its callback is posted.
LEMMA TellAllInv ==
  ASSUME FcLaws, FcInv, FcTellAll
  PROVE  FcInv'
  <1>a. PICK told : told = Range(fcTable) \ {FcNone}
    BY Zenon
  <1>1. /\ fcTable' = fcTable /\ fcCount' = fcCount /\ fcFetch' = fcFetch /\ fcLoop' = fcLoop
        /\ fcFailed' = fcFailed /\ fcRes' = [fcRes EXCEPT !.shutdown = "told"]
        /\ fcCtx' = [c \in DOMAIN fcCtx |->
                       [fcCtx[c] EXCEPT !.refs = @ + (IF c \in told THEN 1 ELSE 0)]]
        /\ fcJobs' = [l \in FcLoops |->
                        fcJobs[l] \o FcPosts("shutdown", {c \in told : FcLoopOf(c) = l})]
    BY <1>a, Zenon DEF FcTellAll
  <1>2. /\ FetchTypeOK /\ FcOnLoops /\ fcTable \in [FcKeys -> FcFetches \cup {FcNone}]
        /\ DOMAIN fcCtx \subseteq FcFetches /\ \A x \in DOMAIN fcCtx : fcCtx[x] \in FcContexts
        /\ fcRes \in FcResSet
    BY Zenon DEF FcInv, FetchTypeOK, FcCallbacks, FcOnLoops, FcResSet
  <1>3. \A x \in told : x \in DOMAIN fcCtx /\ x \in FcFetches /\ fcCtx[x].hashed
    <2> SUFFICES ASSUME NEW x \in told PROVE x \in DOMAIN fcCtx /\ x \in FcFetches /\ fcCtx[x].hashed
      BY Zenon
    <2>1. PICK k \in FcKeys : fcTable[k] = x /\ x # FcNone
      BY <1>a, <1>2, Zenon DEF Range
    <2>2. x \in DOMAIN fcCtx /\ FcKey(x) = k
      BY <2>1, Zenon DEF FcInv, FcStore
    <2> QED
      BY <1>2, <2>1, <2>2, Zenon DEF FcInv, FcStore, FcTidy
  <1>4. /\ fcJobs' \in [FcLoops -> Seq(FcJobSet)] /\ FcOnLoops'
        /\ \A i \in {"start", "shutdown", "call"}, x \in FcFetches :
             FcPosted(i, x)' = FcPosted(i, x) + (IF i = "shutdown" /\ x \in told THEN 1 ELSE 0)
    <2>1. told \in SUBSET FcFetches
      BY <1>3, Zenon
    <2> QED
      BY <1>1, <1>2, <2>1, Zenon DEF FcLaws, PostedManyLaw
  <1>5. /\ DOMAIN fcCtx' = DOMAIN fcCtx
        /\ \A x \in DOMAIN fcCtx :
             /\ fcCtx'[x] \in FcContexts /\ fcCtx'[x].resps = fcCtx[x].resps
             /\ fcCtx'[x].key = fcCtx[x].key /\ fcCtx'[x].done = fcCtx[x].done
             /\ fcCtx'[x].hashed = fcCtx[x].hashed /\ fcCtx'[x].cloned = fcCtx[x].cloned
             /\ fcCtx'[x].counted = fcCtx[x].counted
             /\ fcCtx'[x].refs = fcCtx[x].refs + (IF x \in told THEN 1 ELSE 0)
             /\ fcCtx[x].refs \in Nat
    <2>1. DOMAIN fcCtx' = DOMAIN fcCtx
      BY <1>1, Zenon
    <2> SUFFICES ASSUME NEW x \in DOMAIN fcCtx
                 PROVE  /\ fcCtx'[x] \in FcContexts /\ fcCtx'[x].resps = fcCtx[x].resps
                        /\ fcCtx'[x].key = fcCtx[x].key /\ fcCtx'[x].done = fcCtx[x].done
                        /\ fcCtx'[x].hashed = fcCtx[x].hashed /\ fcCtx'[x].cloned = fcCtx[x].cloned
                        /\ fcCtx'[x].counted = fcCtx[x].counted
                        /\ fcCtx'[x].refs = fcCtx[x].refs + (IF x \in told THEN 1 ELSE 0)
                        /\ fcCtx[x].refs \in Nat
      BY <2>1, Zenon
    <2>2. PICK n \in Nat : n = IF x \in told THEN 1 ELSE 0
      BY Zenon
    <2>3. fcCtx[x] \in FcContexts /\ fcCtx[x].refs \in Nat /\ fcCtx[x].refs + n \in Nat \ {0}
      BY <1>2, <2>2 DEF FcContexts
    <2>4. fcCtx'[x] = [fcCtx[x] EXCEPT !.refs = fcCtx[x].refs + n]
      BY <1>1, <2>2, Zenon
    <2>5. /\ fcCtx'[x] \in FcContexts /\ fcCtx'[x].resps = fcCtx[x].resps
          /\ fcCtx'[x].key = fcCtx[x].key /\ fcCtx'[x].done = fcCtx[x].done
          /\ fcCtx'[x].hashed = fcCtx[x].hashed /\ fcCtx'[x].cloned = fcCtx[x].cloned
          /\ fcCtx'[x].counted = fcCtx[x].counted /\ fcCtx'[x].refs = fcCtx[x].refs + n
      BY <2>3, <2>4, Zenon DEF FcContexts
    <2> QED
      BY <2>2, <2>3, <2>5, Zenon
  <1>6. FcHandlers'
    <2> SUFFICES ASSUME NEW m \in FcLoops PROVE FcHandler(m)'
      BY Zenon DEF FcHandlers
    <2>1. \A x \in DOMAIN fcCtx : ~fcCtx[x].hashed => fcCtx'[x].refs = fcCtx[x].refs
      BY <1>3, <1>5
    <2>2. FcUndisturbed(m)
      BY <1>1, <1>5, <2>1, Zenon DEF FcUndisturbed
    <2> QED
      BY <2>2, Zenon DEF FcInv, FcHandlers, FcLaws, HandlerKeptLaw
  <1>7. FcStore'
    <2>1. ASSUME NEW c \in DOMAIN fcCtx PROVE FcTidy(c)'
      <3>1. FcSettled(c)
        BY <1>1, <1>5, Zenon DEF FcSettled
      <3> QED
        BY <3>1, Zenon DEF FcInv, FcStore, FcLaws, TidyKeptLaw
    <2> QED
      BY <1>1, <1>5, <2>1, Zenon DEF FcStore, FcInv
  <1>8. FcLists'
    BY <1>1, <1>5, ZenonT(30) DEF FcLists, FcInv
  <1>9. FcAccounts'
    <2> SUFFICES ASSUME NEW x \in FcFetches PROVE FcRefs(x)' = FcOwed(x)' + FcAlive(x)'
      BY Zenon DEF FcAccounts
    <2>1. PICK n \in Nat : n = IF x \in told THEN 1 ELSE 0
      BY Zenon
    <2>2. FcHeld(x)' = FcHeld(x)
      <3>1. FcUsers(x)' = FcUsers(x) /\ FcLockers(x)' = FcLockers(x) /\ FcDropped(x)' = FcDropped(x)
        BY <1>1, Zenon DEF FcUsers, FcLockers, FcDropped
      <3> QED
        BY <3>1, Zenon DEF FcHeld
    <2>3. FcHeld(x) \in Nat /\ FcPosted("start", x) \in Nat /\ FcPosted("shutdown", x) \in Nat
      BY <1>2 DEF FcHeld, FcLaws, OwedPartsLaw
    <2>4. FcPosted("start", x)' = FcPosted("start", x) /\ FcPosted("shutdown", x)' = FcPosted("shutdown", x) + n
      BY <1>4, <2>1, <2>3
    <2>5. FcAlive(x)' = FcAlive(x) /\ FcAlive(x) \in Nat
      BY <1>5, Zenon DEF FcAlive
    <2>6. FcRefs(x)' = FcRefs(x) + n
      BY <1>3, <1>5, <2>1 DEF FcRefs
    <2>7. /\ FcRefs(x) = FcOwed(x) + FcAlive(x)
          /\ FcOwed(x) = FcHeld(x) + (FcPosted("start", x) + FcPosted("shutdown", x))
          /\ FcOwed(x)' = FcHeld(x)' + (FcPosted("start", x)' + FcPosted("shutdown", x)')
      BY Zenon DEF FcInv, FcAccounts, FcOwed
    <2> QED
      BY <2>1, <2>2, <2>3, <2>4, <2>5, <2>6, <2>7
  <1>10. FcCounters'
    BY <1>1, <1>5, Zenon DEF FcInv, FcLaws, CountersKeptLaw
  <1>11. FcCallbacks'
    <2>1. \A g \in FcFetches : FcPosted("call", g)' = FcPosted("call", g)
      BY <1>2, <1>4 DEF FcLaws, PostedNatLaw
    <2> QED
      BY <1>1, <1>4, <2>1, ZenonT(30) DEF FcInv, FcCallbacks, FcOnLoops
  <1>12. FetchTypeOK'
    <2>1. fcRes' \in FcResSet
      BY <1>1, <1>2, Zenon DEF FcResSet
    <2> QED
      BY <1>1, <1>2, <1>4, <1>5, <2>1, Zenon DEF FetchTypeOK, FcResSet, FcJobSet
  <1> QED
    BY <1>1, <1>6, <1>7, <1>8, <1>9, <1>10, <1>11, <1>12, Zenon DEF FcInv, FcAsserts
=============================================================================
