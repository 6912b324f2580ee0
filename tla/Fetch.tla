------------------------------- MODULE Fetch -------------------------------
(***************************************************************************)
(* Fetch contexts of the resolver: how dns_resolver_createfetch finds,     *)
(* creates and joins a context that several clients share, how a context   *)
(* ends, and what dns_resolver_shutdown does meanwhile                     *)
(* (lib/dns/resolver.c).                                                   *)
(*                                                                         *)
(* Every loop (thread) runs one handler at a time.  A handler is cut where *)
(* it drops a lock: createfetch between its test of "exiting", the lookup  *)
(* under fctxs_lock, the insertion after the lock upgrade, and the join    *)
(* under the context's lock; fctx__done between marking the context and    *)
(* sending the responses.  Only the loop that created a context ends it;   *)
(* the others reach it through the table.  What the servers answer is left *)
(* to chance: a started context gets an answer or gives up.                *)
(***************************************************************************)
EXTENDS Integers, Sequences, FiniteSets, FiniteSetsExt, Functions

CONSTANTS
  FcFetches,      \* the calls of createfetch; a context bears its creator's name
  FcLoops,
  FcCall,         \* fetch -> [loop, key, client, shared]
  FcDomain,       \* key -> the zone whose fetches are counted together
  FcNoClient,     \* the client of a fetch the server makes for itself
  FcZspill,       \* fetches-per-zone, 0 for no limit
  FcSpillatMin,   \* clients-per-query, 0 for no limit
  FcSpillatMax,   \* max-clients-per-query
  FcScenarios     \* sets of calls, and whether the resolver may be shut down meanwhile

FcKeys == {FcCall[f].key : f \in FcFetches}
FcDomains == Range(FcDomain)
FcNone == "none"

ASSUME FetchAssumption ==
  /\ IsFiniteSet(FcFetches) /\ IsFiniteSet(FcLoops) /\ FcNone \notin FcFetches
  /\ \A f \in FcFetches : FcCall[f].loop \in FcLoops /\ FcCall[f].shared \in BOOLEAN
  /\ FcZspill \in Nat /\ FcSpillatMin \in Nat /\ FcSpillatMax \in Nat
  /\ FcSpillatMin <= FcSpillatMax
  /\ FcKeys \subseteq DOMAIN FcDomain
  /\ FcScenarios \subseteq [calls : SUBSET FcFetches, shutdown : BOOLEAN]

VARIABLES
  fcCtx,      \* the contexts in memory, by the fetch that created them
  fcTable,    \* res->fctxs
  fcCount,    \* res->counters: zone -> count, 0 when it has no entry
  fcFetch,    \* fetch -> [at, ctx, result]
  fcLoop,     \* loop -> where the handler it runs has got to, and its variables
  fcJobs,     \* loop -> the callbacks posted to it
  fcRes,      \* [exiting, shutdown, spillat, timer] of the resolver
  fcScenario, \* the member of FcScenarios that is played
  fcFailed    \* the assertions that have failed

fcvars == <<fcCtx, fcTable, fcCount, fcFetch, fcLoop, fcJobs, fcRes, fcScenario,
            fcFailed>>

FcIdle == [at |-> "idle", fetch |-> FcNone, spillat |-> 0, write |-> FALSE,
           ctx |-> FcNone, new |-> FALSE, result |-> FcNone, drop |-> 0, count |-> 0]
FcKey(f) == FcCall[f].key
FcLoopOf(f) == FcCall[f].loop

FetchInit ==
  /\ fcCtx = <<>>
  /\ fcTable = [k \in FcKeys |-> FcNone]
  /\ fcCount = [d \in FcDomains |-> 0]
  /\ fcFetch = [f \in FcFetches |-> [at |-> "new", ctx |-> FcNone, result |-> FcNone]]
  /\ fcLoop = [l \in FcLoops |-> FcIdle]
  /\ fcJobs = [l \in FcLoops |-> <<>>]
  /\ fcRes = [exiting |-> FALSE, shutdown |-> "no", spillat |-> FcSpillatMin,
              timer |-> FcNone]
  /\ fcScenario \in FcScenarios
  /\ fcFailed = {}

----------------------------------------------------------------------------
(* Counters and references *)

\* fcount_incr refuses: the zone has as many contexts as fetches-per-zone.
FcQuota(k) == FcZspill # 0 /\ fcCount[FcDomain[k]] + 1 > FcZspill

\* fctx_create, as far as others can tell: counted in, one reference.
FcNewCtx(f) ==
  [key |-> FcKey(f), done |-> FALSE, started |-> FALSE, hashed |-> FALSE,
   cloned |-> FALSE, answer |-> FALSE, spilled |-> FALSE, resps |-> {},
   refs |-> 1, counted |-> FcZspill # 0]

\* The contexts with c, new or changed, as ctx.
FcWith(c, ctx) ==
  [x \in DOMAIN fcCtx \cup {c} |-> IF x = c THEN ctx ELSE fcCtx[x]]

FcIncr(k) == [fcCount EXCEPT ![FcDomain[k]] = @ + (IF FcZspill = 0 THEN 0 ELSE 1)]

\* fcount_decr of context c, which may have no counter any more.
FcDecr(c) ==
  [fcCount EXCEPT ![FcDomain[fcCtx[c].key]] = @ - (IF fcCtx[c].counted THEN 1 ELSE 0)]

\* Fails the assertions named in broken, if any.
FcCheck(broken) == fcFailed' = fcFailed \cup broken

\* fetchctx_detach n times; fctx_destroy with the last reference.
FcDetach(ctxs, c, n, broken) ==
  IF ctxs[c].refs > n
  THEN /\ fcCtx' = [ctxs EXCEPT ![c].refs = @ - n]
       /\ FcCheck(broken)
       /\ UNCHANGED fcCount
  ELSE /\ fcCtx' = Restrict(ctxs, DOMAIN ctxs \ {c})
       /\ fcCount' = FcDecr(c)
       /\ FcCheck(broken
            \cup (IF ctxs[c].resps # {} \/ ~ctxs[c].done THEN {"fctx_destroy"} ELSE {})
            \cup (IF ctxs[c].counted /\ fcCount[FcDomain[ctxs[c].key]] = 0
                  THEN {"fcount_decr"} ELSE {}))

\* release_fctx: out of the table, if it is still there.
FcReleased(c) ==
  IF fcCtx[c].hashed THEN [fcTable EXCEPT ![fcCtx[c].key] = FcNone] ELSE fcTable

FcReleaseFails(c) ==
  IF fcCtx[c].hashed /\ fcTable[fcCtx[c].key] # c THEN {"release_fctx"} ELSE {}

FcGoto(l, pc) == fcLoop' = [fcLoop EXCEPT ![l] = pc]
FcPost(l, job) == fcJobs' = [fcJobs EXCEPT ![l] = Append(@, job)]
FcIsIdle(l) == fcLoop[l] = FcIdle

FcRefuse(f) == fcFetch' = [fcFetch EXCEPT ![f].at = "refused"]

\* fctx_join: fetch f waits on context c and holds a reference to it.
FcWaitsOn(f, c) == [fcFetch EXCEPT ![f].at = "waiting", ![f].ctx = c]

\* One callback for each member of a set, in some order.
FcPosts(job, S) ==
  LET q == CHOOSE b \in Bijection(1 .. Cardinality(S), S) : TRUE
  IN  [i \in 1 .. Cardinality(S) |-> [job |-> job, of |-> q[i]]]

----------------------------------------------------------------------------
(* dns_resolver_createfetch *)

\* The test of "exiting", and for a shared fetch the reading of spillat.
FcCreatefetch(f) ==
  LET l == FcLoopOf(f) IN
  /\ FcIsIdle(l)
  /\ fcFetch[f].at = "new"
  /\ f \in fcScenario.calls
  /\ IF fcRes.exiting
     THEN FcRefuse(f) /\ UNCHANGED fcLoop
     ELSE /\ FcGoto(l, [FcIdle EXCEPT !.at = IF FcCall[f].shared THEN "find" ELSE "unshared",
                                      !.fetch = f, !.spillat = fcRes.spillat])
          /\ fcFetch' = [fcFetch EXCEPT ![f].at = "calling"]
  /\ UNCHANGED <<fcCtx, fcTable, fcCount, fcJobs, fcRes, fcFailed>>

\* An unshared fetch has a context of its own, which is in no table.
FcUnshared(l) ==
  /\ fcLoop[l].at = "unshared"
  /\ LET f == fcLoop[l].fetch IN
     /\ IF FcQuota(FcKey(f))
        THEN FcRefuse(f) /\ UNCHANGED <<fcCtx, fcCount, fcJobs>>
        ELSE /\ fcCtx' = FcWith(f, [FcNewCtx(f) EXCEPT !.refs = 3, !.resps = {f}])
             /\ fcCount' = FcIncr(FcKey(f))
             /\ fcFetch' = FcWaitsOn(f, f)
             /\ FcPost(l, [job |-> "start", of |-> f])
     /\ FcGoto(l, FcIdle)
  /\ UNCHANGED <<fcTable, fcRes, fcFailed>>

\* Mutant: the context found in the table is not referenced.
FcFindBare(l) ==
  /\ fcLoop[l].at = "find"
  /\ LET f == fcLoop[l].fetch
         k == FcKey(f)
         c == fcTable[k] IN
     \/ /\ c # FcNone
        /\ fcCtx' = [fcCtx EXCEPT ![c].refs = @]
        /\ FcGoto(l, [fcLoop[l] EXCEPT !.at = "lock", !.ctx = c])
        /\ UNCHANGED <<fcTable, fcCount, fcFetch>>
     \/ /\ c = FcNone
        /\ FcQuota(k)
        /\ FcRefuse(f)
        /\ FcGoto(l, FcIdle)
        /\ UNCHANGED <<fcCtx, fcTable, fcCount>>
     \/ /\ c = FcNone
        /\ ~FcQuota(k)
        /\ fcCount' = FcIncr(k)
        /\ IF fcLoop[l].write
           THEN /\ fcCtx' = FcWith(f, [FcNewCtx(f) EXCEPT !.refs = 2, !.hashed = TRUE])
                /\ fcTable' = [fcTable EXCEPT ![k] = f]
                /\ FcGoto(l, [fcLoop[l] EXCEPT !.at = "lock", !.ctx = f, !.new = TRUE])
           ELSE /\ fcCtx' = FcWith(f, FcNewCtx(f))
                /\ FcGoto(l, [fcLoop[l] EXCEPT !.at = "add"])
                /\ UNCHANGED fcTable
        /\ UNCHANGED fcFetch
  /\ UNCHANGED <<fcJobs, fcRes, fcFailed>>

\* get_attached_fctx under fctxs_lock: a context found is referenced at once;
\* a new one is created, and inserted after the lock has been upgraded, which
\* may let others in between unless the lock was taken for writing (a retry of
\* a call that has upgraded it already).
FcFind(l) ==
  /\ fcLoop[l].at = "find"
  /\ LET f == fcLoop[l].fetch
         k == FcKey(f)
         c == fcTable[k] IN
     \/ /\ c # FcNone
        /\ fcCtx' = [fcCtx EXCEPT ![c].refs = @ + 1]
        /\ FcGoto(l, [fcLoop[l] EXCEPT !.at = "lock", !.ctx = c])
        /\ UNCHANGED <<fcTable, fcCount, fcFetch>>
     \/ /\ c = FcNone
        /\ FcQuota(k)
        /\ FcRefuse(f)
        /\ FcGoto(l, FcIdle)
        /\ UNCHANGED <<fcCtx, fcTable, fcCount>>
     \/ /\ c = FcNone
        /\ ~FcQuota(k)
        /\ fcCount' = FcIncr(k)
        /\ IF fcLoop[l].write
           THEN /\ fcCtx' = FcWith(f, [FcNewCtx(f) EXCEPT !.refs = 2, !.hashed = TRUE])
                /\ fcTable' = [fcTable EXCEPT ![k] = f]
                /\ FcGoto(l, [fcLoop[l] EXCEPT !.at = "lock", !.ctx = f, !.new = TRUE])
           ELSE /\ fcCtx' = FcWith(f, FcNewCtx(f))
                /\ FcGoto(l, [fcLoop[l] EXCEPT !.at = "add"])
                /\ UNCHANGED fcTable
        /\ UNCHANGED fcFetch
  /\ UNCHANGED <<fcJobs, fcRes, fcFailed>>

\* Mutant: the creator does not remember that it has to start the context.
FcAddIdle(l) ==
  /\ fcLoop[l].at = "add"
  /\ LET f == fcLoop[l].fetch
         k == FcKey(f)
         c == fcTable[k]
         pc == [fcLoop[l] EXCEPT !.at = "lock", !.write = TRUE] IN
     IF c = FcNone
     THEN /\ fcCtx' = [fcCtx EXCEPT ![f].hashed = TRUE, ![f].refs = @ + 1]
          /\ fcTable' = [fcTable EXCEPT ![k] = f]
          /\ FcGoto(l, [pc EXCEPT !.ctx = f])
          /\ UNCHANGED <<fcCount, fcFailed>>
     ELSE /\ FcDetach([fcCtx EXCEPT ![c].refs = @ + 1, ![f].done = TRUE], f, 1, {})
          /\ FcGoto(l, [pc EXCEPT !.ctx = c])
          /\ UNCHANGED fcTable
  /\ UNCHANGED <<fcFetch, fcJobs, fcRes>>

\* The insertion under the write lock.  Who finds that another context got
\* there first gives up its own and takes that one.
FcAdd(l) ==
  /\ fcLoop[l].at = "add"
  /\ LET f == fcLoop[l].fetch
         k == FcKey(f)
         c == fcTable[k]
         pc == [fcLoop[l] EXCEPT !.at = "lock", !.write = TRUE] IN
     IF c = FcNone
     THEN /\ fcCtx' = [fcCtx EXCEPT ![f].hashed = TRUE, ![f].refs = @ + 1]
          /\ fcTable' = [fcTable EXCEPT ![k] = f]
          /\ FcGoto(l, [pc EXCEPT !.ctx = f, !.new = TRUE])
          /\ UNCHANGED <<fcCount, fcFailed>>
     ELSE /\ FcDetach([fcCtx EXCEPT ![c].refs = @ + 1, ![f].done = TRUE], f, 1, {})
          /\ FcGoto(l, [pc EXCEPT !.ctx = c])
          /\ UNCHANGED fcTable
  /\ UNCHANGED <<fcFetch, fcJobs, fcRes>>

\* A response of the same client to the same query waits already.
FcDuplicate(f, c) ==
  FcCall[f].client # FcNoClient
    /\ \E g \in fcCtx[c].resps : FcCall[g].client = FcCall[f].client

\* The responses that count against clients-per-query.
FcWaiting(f, c) ==
  IF FcCall[f].client = FcNoClient THEN 0 ELSE Cardinality(fcCtx[c].resps)

\* The context has too many clients for one more: more than spillat was when
\* it was read, or it has turned one away before.
FcSpills(f, c, spillat) ==
  /\ FcSpillatMin # 0
  /\ FcWaiting(f, c) >= FcSpillatMin
  /\ FcWaiting(f, c) >= spillat \/ fcCtx[c].spilled

\* The context's lock: a context that is done, or has handed out its answer,
\* is not joined; the lookup starts again.
FcLock(l) ==
  /\ fcLoop[l].at = "lock"
  /\ LET f == fcLoop[l].fetch
         c == fcLoop[l].ctx
         new == fcLoop[l].new IN
     \/ /\ fcCtx[c].done \/ fcCtx[c].cloned
        /\ fcTable' = FcReleased(c)
        /\ FcDetach([fcCtx EXCEPT ![c].hashed = FALSE], c, 1, FcReleaseFails(c))
        /\ FcGoto(l, [fcLoop[l] EXCEPT !.at = "find", !.ctx = FcNone, !.new = FALSE])
        /\ UNCHANGED <<fcFetch, fcJobs>>
     \/ /\ ~fcCtx[c].done /\ ~fcCtx[c].cloned
        /\ FcDuplicate(f, c) \/ FcSpills(f, c, fcLoop[l].spillat)
        /\ FcDetach([fcCtx EXCEPT ![c].spilled = @ \/ ~FcDuplicate(f, c)], c, 1, {})
        /\ FcRefuse(f)
        /\ FcGoto(l, FcIdle)
        /\ UNCHANGED <<fcTable, fcJobs>>
     \/ /\ ~fcCtx[c].done /\ ~fcCtx[c].cloned
        /\ ~FcDuplicate(f, c) /\ ~FcSpills(f, c, fcLoop[l].spillat)
        /\ fcCtx' = [fcCtx EXCEPT ![c].resps = @ \cup {f},
                                  ![c].refs = @ + (IF new THEN 1 ELSE 0)]
        /\ fcFetch' = FcWaitsOn(f, c)
        /\ IF new THEN FcPost(l, [job |-> "start", of |-> c]) ELSE UNCHANGED fcJobs
        /\ FcGoto(l, FcIdle)
        /\ UNCHANGED <<fcTable, fcCount, fcFailed>>
  /\ UNCHANGED fcRes

----------------------------------------------------------------------------
(* The life of a context *)

\* fctx__done under the lock: at most once, and the context leaves the table.
\* "drop" is the number of references the handler gives up when it is over.
FcMarkDone(l, c, result, drop) ==
  /\ fcCtx' = [fcCtx EXCEPT ![c].done = TRUE, ![c].hashed = FALSE]
  /\ fcTable' = FcReleased(c)
  /\ FcCheck(FcReleaseFails(c))
  /\ FcGoto(l, [FcIdle EXCEPT !.at = "send", !.ctx = c, !.result = result, !.drop = drop])
  /\ UNCHANGED <<fcCount, fcFetch, fcRes>>

FcRunning(c) ==
  /\ c \in DOMAIN fcCtx
  /\ fcCtx[c].started /\ ~fcCtx[c].done
  /\ FcIsIdle(FcLoopOf(c))

\* The answer is in: HAVEANSWER, and clone_results if anyone waits for it.
FcAnswer(c) ==
  /\ FcRunning(c)
  /\ fcCtx' = [fcCtx EXCEPT ![c].answer = TRUE, ![c].cloned = fcCtx[c].resps # {}]
  /\ FcGoto(FcLoopOf(c), [FcIdle EXCEPT !.at = "finish", !.ctx = c])
  /\ fcFetch' = [f \in FcFetches |->
                   IF f \in fcCtx[c].resps THEN [fcFetch[f] EXCEPT !.result = "answer"]
                   ELSE fcFetch[f]]
  /\ UNCHANGED <<fcTable, fcCount, fcJobs, fcRes, fcFailed>>

FcFinish(l) ==
  /\ fcLoop[l].at = "finish"
  /\ FcMarkDone(l, fcLoop[l].ctx, "answer", 1)
  /\ UNCHANGED fcJobs

\* No server has answered, or the context's timer has expired (fctx_expired).
FcGiveUp(c) ==
  /\ FcRunning(c)
  /\ FcMarkDone(FcLoopOf(c), c, "servfail", 1)
  /\ UNCHANGED fcJobs

\* A referral: the context goes on in another zone, where it is not counted
\* (fcount_decr, fcount_incr with "force").
FcReferral(c) ==
  /\ FcRunning(c)
  /\ fcCtx[c].counted
  /\ fcCtx' = [fcCtx EXCEPT ![c].counted = FALSE]
  /\ fcCount' = FcDecr(c)
  /\ FcCheck(IF fcCount[FcDomain[fcCtx[c].key]] = 0 THEN {"fcount_decr"} ELSE {})
  /\ UNCHANGED <<fcTable, fcFetch, fcLoop, fcJobs, fcRes>>

\* fctx_sendevents: each response goes to the loop of its fetch.  Without an
\* answer they all get the result of the context; with one they keep what
\* clone_results gave them, or the SERVFAIL they were made with.
FcResult(c, f, result) ==
  IF ~fcCtx[c].answer THEN result
  ELSE IF fcFetch[f].result = FcNone THEN "servfail" ELSE fcFetch[f].result

FcSend(l) ==
  /\ fcLoop[l].at = "send"
  /\ LET c == fcLoop[l].ctx
         resps == fcCtx[c].resps
         count == Cardinality(resps) IN
     /\ fcFetch' = [f \in FcFetches |->
                      IF f \in resps
                      THEN [fcFetch[f] EXCEPT !.at = "called",
                                              !.result = FcResult(c, f, fcLoop[l].result)]
                      ELSE fcFetch[f]]
     /\ fcJobs' = [m \in FcLoops |->
                     fcJobs[m] \o FcPosts("call", {f \in resps : FcLoopOf(f) = m})]
     /\ IF fcCtx[c].answer /\ fcCtx[c].spilled
           /\ (count < FcSpillatMax \/ FcSpillatMax = 0)
        THEN /\ fcCtx' = [fcCtx EXCEPT ![c].resps = {}]
             /\ FcGoto(l, [fcLoop[l] EXCEPT !.at = "spill", !.count = count])
             /\ UNCHANGED <<fcCount, fcFailed>>
        ELSE /\ FcDetach([fcCtx EXCEPT ![c].resps = {}], c, fcLoop[l].drop, {})
             /\ FcGoto(l, FcIdle)
  /\ UNCHANGED <<fcTable, fcRes>>

\* The end of fctx_sendevents: a context that turned clients away although
\* no more than spillat waited raises the limit, and starts the timer that
\* lowers it again; then the handler drops its references.
FcSpillat(l) ==
  /\ fcLoop[l].at = "spill"
  /\ fcRes' = IF fcLoop[l].count = fcRes.spillat /\ ~fcRes.exiting
              THEN [fcRes EXCEPT !.spillat = IF FcSpillatMax = 0 THEN @ + 5
                                             ELSE Min({@ + 5, FcSpillatMax}),
                                 !.timer = IF @ = FcNone THEN l ELSE @]
              ELSE fcRes
  /\ FcDetach(fcCtx, fcLoop[l].ctx, fcLoop[l].drop, {})
  /\ FcGoto(l, FcIdle)
  /\ UNCHANGED <<fcTable, fcFetch, fcJobs>>

----------------------------------------------------------------------------
(* The callbacks posted to a loop, in the order they were posted *)

FcJob(l, what) == FcIsIdle(l) /\ fcJobs[l] # <<>> /\ Head(fcJobs[l]).job = what
FcTaken(l) == fcJobs' = [fcJobs EXCEPT ![l] = Tail(@)]

\* fctx_start: a context that is done already is left alone.
FcStart(l) ==
  /\ FcJob(l, "start")
  /\ LET c == Head(fcJobs[l]).of IN
     FcDetach([fcCtx EXCEPT ![c].started = ~fcCtx[c].done], c, 1, {})
  /\ FcTaken(l)
  /\ UNCHANGED <<fcTable, fcFetch, fcLoop, fcRes>>

\* fctx_shutdown
FcShutdown(l) ==
  /\ FcJob(l, "shutdown")
  /\ LET c == Head(fcJobs[l]).of IN
     IF fcCtx[c].done
     THEN FcDetach(fcCtx, c, 1, {}) /\ UNCHANGED <<fcTable, fcFetch, fcLoop, fcRes>>
     ELSE FcMarkDone(l, c, "shuttingdown", 2)
  /\ FcTaken(l)

\* The caller's callback, which destroys the fetch (dns_resolver_destroyfetch).
FcCallback(l) ==
  /\ FcJob(l, "call")
  /\ LET f == Head(fcJobs[l]).of
         c == fcFetch[f].ctx IN
     /\ FcDetach(fcCtx, c, 1,
          IF ~fcCtx[c].done /\ f \in fcCtx[c].resps THEN {"destroyfetch"} ELSE {})
     /\ fcFetch' = [fcFetch EXCEPT ![f].at = "over"]
  /\ FcTaken(l)
  /\ UNCHANGED <<fcTable, fcLoop, fcRes>>

\* Mutant: a canceled fetch stays in the list of its context.
FcCancelfetchStays(f) ==
  /\ FcIsIdle(FcLoopOf(f))
  /\ fcFetch[f].at = "waiting"
  /\ LET c == fcFetch[f].ctx IN
     /\ ~fcCtx[c].done
     /\ f \in fcCtx[c].resps
     /\ fcCtx' = [fcCtx EXCEPT ![c].resps = @]
  /\ fcFetch' = [fcFetch EXCEPT ![f].at = "called", ![f].result = "canceled"]
  /\ FcPost(FcLoopOf(f), [job |-> "call", of |-> f])
  /\ UNCHANGED <<fcTable, fcCount, fcLoop, fcRes, fcFailed>>

\* dns_resolver_cancelfetch, by the fetch's own loop.
FcCancelfetch(f) ==
  /\ FcIsIdle(FcLoopOf(f))
  /\ fcFetch[f].at = "waiting"
  /\ LET c == fcFetch[f].ctx IN
     /\ ~fcCtx[c].done
     /\ f \in fcCtx[c].resps
     /\ fcCtx' = [fcCtx EXCEPT ![c].resps = @ \ {f}]
  /\ fcFetch' = [fcFetch EXCEPT ![f].at = "called", ![f].result = "canceled"]
  /\ FcPost(FcLoopOf(f), [job |-> "call", of |-> f])
  /\ UNCHANGED <<fcTable, fcCount, fcLoop, fcRes, fcFailed>>

----------------------------------------------------------------------------
(* dns_resolver_shutdown, and the timer that lowers spillat *)

FcExit ==
  /\ fcScenario.shutdown
  /\ ~fcRes.exiting
  /\ fcRes' = [fcRes EXCEPT !.exiting = TRUE, !.shutdown = "exiting"]
  /\ UNCHANGED <<fcCtx, fcTable, fcCount, fcFetch, fcLoop, fcJobs, fcFailed>>

\* Every context in the table is told, under the write lock of the table.
FcTellAll ==
  /\ fcRes.shutdown = "exiting"
  /\ LET told == Range(fcTable) \ {FcNone} IN
     /\ fcCtx' = [c \in DOMAIN fcCtx |->
                    [fcCtx[c] EXCEPT !.refs = @ + (IF c \in told THEN 1 ELSE 0)]]
     /\ fcJobs' = [l \in FcLoops |->
                     fcJobs[l] \o FcPosts("shutdown", {c \in told : FcLoopOf(c) = l})]
  /\ fcRes' = [fcRes EXCEPT !.shutdown = "told"]
  /\ UNCHANGED <<fcTable, fcCount, fcFetch, fcLoop, fcFailed>>

\* The timer is stopped and given to its loop to be destroyed.
FcStopTimer ==
  /\ fcRes.shutdown = "told"
  /\ fcRes' = [fcRes EXCEPT !.shutdown = "over", !.timer = FcNone]
  /\ UNCHANGED <<fcCtx, fcTable, fcCount, fcFetch, fcLoop, fcJobs, fcFailed>>

FcTick(l) ==
  /\ fcRes.timer = l
  /\ FcIsIdle(l)
  /\ FcGoto(l, [FcIdle EXCEPT !.at = "tick"])
  /\ UNCHANGED <<fcCtx, fcTable, fcCount, fcFetch, fcJobs, fcRes, fcFailed>>

\* spillattimer_countdown before it takes the lock.
FcCountdown(l) ==
  /\ fcLoop[l].at = "tick"
  /\ IF fcRes.exiting
     THEN /\ FcCheck(IF fcRes.timer = FcNone THEN {"isc_timer_destroy"} ELSE {})
          /\ fcRes' = [fcRes EXCEPT !.timer = FcNone]
          /\ FcGoto(l, FcIdle)
     ELSE FcGoto(l, [FcIdle EXCEPT !.at = "tock"]) /\ UNCHANGED <<fcRes, fcFailed>>
  /\ UNCHANGED <<fcCtx, fcTable, fcCount, fcFetch, fcJobs>>

\* spillattimer_countdown under the lock.
FcCountdownLocked(l) ==
  /\ fcLoop[l].at = "tock"
  /\ FcCheck(IF fcRes.exiting THEN {"spillattimer_countdown"} ELSE {})
  /\ LET spillat == Max({fcRes.spillat - 1, FcSpillatMin}) IN
     fcRes' = [fcRes EXCEPT !.spillat = spillat,
                            !.timer = IF spillat <= FcSpillatMin THEN FcNone ELSE @]
  /\ FcGoto(l, FcIdle)
  /\ UNCHANGED <<fcCtx, fcTable, fcCount, fcFetch, fcJobs>>

----------------------------------------------------------------------------

\* The steps of the handler a loop runs, or of the next callback it takes.
FcRun(l) ==
  \/ FcUnshared(l) \/ FcFind(l) \/ FcAdd(l) \/ FcLock(l)
  \/ FcFinish(l) \/ FcSend(l) \/ FcSpillat(l)
  \/ FcStart(l) \/ FcShutdown(l) \/ FcCallback(l)
  \/ FcCountdown(l) \/ FcCountdownLocked(l)

FcEnds(c) == FcAnswer(c) \/ FcGiveUp(c)

FcCaller(f) == FcCreatefetch(f) \/ FcCancelfetch(f)

FcShuts == FcExit \/ FcTellAll \/ FcStopTimer

\* An assertion that fails stops the program.
FetchNext ==
  /\ fcFailed = {}
  /\ UNCHANGED fcScenario
  /\ \/ \E l \in FcLoops : FcRun(l) \/ FcTick(l)
     \/ \E f \in FcFetches : FcCaller(f)
     \/ \E c \in DOMAIN fcCtx : FcEnds(c) \/ FcReferral(c)
     \/ FcShuts

FetchSpec == FetchInit /\ [][FetchNext]_fcvars

----------------------------------------------------------------------------
(* Properties *)

FcContexts ==
  [key : FcKeys, done : BOOLEAN, started : BOOLEAN, hashed : BOOLEAN, cloned : BOOLEAN,
   answer : BOOLEAN, spilled : BOOLEAN, resps : SUBSET FcFetches, refs : Nat \ {0},
   counted : BOOLEAN]

FcPlaces ==
  [at : {"idle", "find", "unshared", "add", "lock", "finish", "send", "spill", "tick", "tock"},
   fetch : FcFetches \cup {FcNone}, ctx : FcFetches \cup {FcNone}, spillat : Nat,
   write : BOOLEAN, new : BOOLEAN, result : {FcNone, "answer", "servfail", "shuttingdown"},
   drop : 0 .. 2, count : Nat]

\* Contexts, counters, fetches, handlers and callbacks keep their types.
FetchTypeOK ==
  /\ DOMAIN fcCtx \subseteq FcFetches
  /\ \A c \in DOMAIN fcCtx : fcCtx[c] \in FcContexts
  /\ fcTable \in [FcKeys -> FcFetches \cup {FcNone}]
  /\ fcCount \in [FcDomains -> Nat]
  /\ fcFetch \in [FcFetches ->
                   [at : {"new", "calling", "refused", "waiting", "called", "over"},
                    ctx : FcFetches \cup {FcNone},
                    result : {FcNone, "answer", "servfail", "canceled", "shuttingdown"}]]
  /\ fcLoop \in [FcLoops -> FcPlaces]
  /\ fcJobs \in [FcLoops -> Seq([job : {"start", "shutdown", "call"}, of : FcFetches])]
  /\ fcRes \in [exiting : BOOLEAN, shutdown : {"no", "exiting", "told", "over"},
                spillat : Nat, timer : FcLoops \cup {FcNone}]

\* The assertions about contexts hold: a context is in the table when it is
\* taken out (release_fctx), is done and has nobody waiting when it is
\* destroyed (fctx_destroy), its counter is not below one (fcount_decr), and
\* a fetch is destroyed only after its callback was run (destroyfetch).
FcAsserts ==
  fcFailed \cap {"release_fctx", "fctx_destroy", "fcount_decr", "destroyfetch"} = {}

\* How often a callback is posted to the loop of the fetch or context it is for.
FcOccurs(q, job) == Cardinality({i \in 1 .. Len(q) : q[i] = job})
FcPosted(job, x) == FcOccurs(fcJobs[FcLoopOf(x)], [job |-> job, of |-> x])

\* A fetch that was accepted is called back exactly once, and on its own loop,
\* however its cancellation, the end of its context and the shutdown meet: while
\* it waits it is in the list of a context in memory, and in no other; once it
\* has been taken off, one callback is posted, until that has run.
FcOneCallback ==
  /\ \A f \in FcFetches :
       /\ {c \in DOMAIN fcCtx : f \in fcCtx[c].resps}
            = (IF fcFetch[f].at = "waiting" THEN {fcFetch[f].ctx} ELSE {})
       /\ FcPosted("call", f) = (IF fcFetch[f].at = "called" THEN 1 ELSE 0)
  /\ \A l \in FcLoops : \A i \in 1 .. Len(fcJobs[l]) : FcLoopOf(fcJobs[l][i].of) = l

FcUsers(c) == {f \in FcFetches : fcFetch[f].at \in {"waiting", "called"} /\ fcFetch[f].ctx = c}
FcLockers(c) == {l \in FcLoops : fcLoop[l].at = "lock" /\ fcLoop[l].ctx = c}
FcDropped(c) ==
  LET pc == fcLoop[FcLoopOf(c)]
  IN  IF pc.at \in {"send", "spill"} /\ pc.ctx = c THEN pc.drop ELSE 0

\* A context is referenced exactly as often as something still points to it: a
\* fetch that has not been destroyed, a callback posted for it, a handler of
\* createfetch on its way to its lock, and the handler that will end it or is at
\* it.  None of them can meet a context that was freed.
FcReferences ==
  /\ \A c \in DOMAIN fcCtx :
       fcCtx[c].refs = Cardinality(FcUsers(c)) + FcPosted("start", c) + FcPosted("shutdown", c)
                       + Cardinality(FcLockers(c)) + (IF fcCtx[c].done THEN 0 ELSE 1)
                       + FcDropped(c)
  /\ \A k \in FcKeys : fcTable[k] # FcNone => fcTable[k] \in DOMAIN fcCtx
  /\ \A f \in FcFetches : fcFetch[f].at \in {"waiting", "called"}
                            => fcFetch[f].ctx \in DOMAIN fcCtx

\* The table holds the one context per question that may still be joined: a
\* shared context that its creator has inserted, and that is neither done nor
\* has given out its answer, is the one the next client of the question finds.
FcOneContext ==
  \A c \in DOMAIN fcCtx :
    /\ fcCtx[c].hashed <=> fcTable[fcCtx[c].key] = c
    /\ FcCall[c].shared /\ ~fcCtx[c].done /\ ~fcCtx[c].cloned
         /\ ~(fcLoop[FcLoopOf(c)].at = "add" /\ fcLoop[FcLoopOf(c)].fetch = c)
       => fcCtx[c].hashed

\* fetches-per-zone: the counter of a zone is the number of contexts counted
\* in it, whichever way they ended, and never more than the limit.
FcCounters ==
  \A d \in FcDomains :
    /\ fcCount[d] = Cardinality({c \in DOMAIN fcCtx :
                                   fcCtx[c].counted /\ FcDomain[fcCtx[c].key] = d})
    /\ fcCount[d] <= FcZspill

\* What fetches share is kept in step with them: no assertion about a context
\* fails, and reference counts, the table of contexts and the counters of zones
\* are exactly what the fetches and handlers under way make them.
FcBooks == FcAsserts /\ FcReferences /\ FcOneContext /\ FcCounters

\* A context that someone waits for will run: it was started, or its start is
\* posted, or the call that created it has yet to join it.  Does not hold:
\* the creator can find, when it locks its own new context, that others have
\* joined it first, and be refused as a duplicate or as one client too many;
\* it then leaves without posting fctx_start.
FcWillRun ==
  \A c \in DOMAIN fcCtx :
    fcCtx[c].resps # {} =>
      \/ fcCtx[c].started \/ fcCtx[c].done
      \/ \E i \in DOMAIN fcJobs[FcLoopOf(c)] :
           fcJobs[FcLoopOf(c)][i] = [job |-> "start", of |-> c]
      \/ fcLoop[FcLoopOf(c)].at = "lock" /\ fcLoop[FcLoopOf(c)].ctx = c

\* A fetch on a context that got its answer is given that answer, unless it
\* was canceled.  Does not hold: with nobody waiting the results are not
\* cloned, and a fetch that joins before the context is marked done keeps the
\* SERVFAIL its response was made with.
FcGetsAnswer ==
  \A f \in FcFetches :
    fcFetch[f].at = "called" /\ fcFetch[f].result # "canceled" /\ fcCtx[fcFetch[f].ctx].answer
      => fcFetch[f].result = "answer"

\* The timer that lowers spillat and the shutdown that destroys it do not
\* meet.  Does not hold: "exiting" is set without the lock under which
\* spillattimer_countdown asserts that it is not.
FcTimerAsserts == fcFailed = {}

\* Every call of dns_resolver_createfetch returns, and every fetch that was
\* accepted is called back in the end and destroyed, a context that the shutdown
\* did not find in the table included: it is ended by its answer or its timer.
\* (As long as no caller is refused: FcWillRun tells of a context left behind.)
FcCalledBack ==
  <>[](\A f \in FcFetches : fcFetch[f].at \in {"new", "refused", "over"})

=============================================================================
