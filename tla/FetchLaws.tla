------------------------------ MODULE FetchLaws -----------------------------
(***************************************************************************)
(* The inductive invariant of Fetch, and the facts that the proofs about   *)
(* its steps share.                                                        *)
(*                                                                         *)
(* The inductive invariant FcInv keeps an account for every context name:  *)
(* what refers to it (FcOwed: fetches, handlers on their way to its lock,  *)
(* the handler that ends it, callbacks posted for it) and one more while   *)
(* it is not done make up its reference count (FcAccounts).  A name that   *)
(* no context bears has the count 0, so nothing points to a freed context; *)
(* ReferencedLaw draws that conclusion, and most steps start from it.      *)
(* FcHandler says what the handler of a loop relies on across the points   *)
(* where it holds no lock, FcTidy how a context, the table and the handler *)
(* of its loop belong together.                                            *)
(*                                                                         *)
(* The shared facts are definitions here (the laws), so that the lemmas on *)
(* the actions can assume them without the modules that prove them:        *)
(* FetchAccounts proves FcLaws from FcCounting, FetchCreation and          *)
(* FetchEnding assume FcLaws, and FetchProofs proves FcCounting and puts   *)
(* the parts together.  The theorems of FetchProofs assume no law.         *)
(***************************************************************************)
EXTENDS Fetch

-----------------------------------------------------------------------------
(* The inductive invariant *)

\* What a handler may rely on where it is.  A fetch in createfetch has no context
\* of its own but the one it has just made, and a context is marked done by the
\* loop that runs it and no other.
FcHandler(l) ==
  LET pc == fcLoop[l]
      f == pc.fetch
      c == pc.ctx IN
  /\ pc.at \in {"find", "unshared", "add", "lock"} =>
       f \in FcFetches /\ FcLoopOf(f) = l /\ fcFetch[f].at = "calling"
  /\ pc.at \in {"find", "unshared"} => f \notin DOMAIN fcCtx
  /\ pc.at \in {"find", "add", "lock"} => FcCall[f].shared
  /\ pc.at = "unshared" => ~FcCall[f].shared
  /\ pc.at = "add" => /\ f \in DOMAIN fcCtx /\ ~fcCtx[f].done /\ ~fcCtx[f].hashed
                       /\ fcCtx[f].refs = 1
  /\ pc.at = "lock" =>
       c \in FcFetches /\ IF pc.new THEN c = f /\ f \in DOMAIN fcCtx /\ ~fcCtx[f].done
                         ELSE f \notin DOMAIN fcCtx
  /\ pc.new => pc.at = "lock"
  /\ pc.at \in {"finish", "send", "spill"} => c \in FcFetches /\ FcLoopOf(c) = l
  /\ pc.at = "finish" => c \in DOMAIN fcCtx /\ ~fcCtx[c].done
  /\ pc.at \in {"send", "spill"} =>
       pc.drop # 0 /\ (c \in DOMAIN fcCtx => fcCtx[c].done)

\* A context, its place in the table, and the handler of its loop.
FcTidy(c) ==
  LET pc == fcLoop[FcLoopOf(c)] IN
  /\ fcCtx[c].key = FcKey(c) /\ fcFetch[c].at # "new"
  /\ fcCtx[c].hashed => ~fcCtx[c].done
  /\ fcCtx[c].hashed <=> fcTable[FcKey(c)] = c
  /\ fcCtx[c].cloned /\ ~fcCtx[c].done => pc.at = "finish" /\ pc.ctx = c
  /\ FcCall[c].shared /\ ~fcCtx[c].done /\ ~fcCtx[c].cloned /\ ~fcCtx[c].hashed
       => pc.at = "add" /\ pc.fetch = c

FcStore ==
  /\ \A c \in DOMAIN fcCtx : FcTidy(c)
  /\ \A k \in FcKeys : fcTable[k] # FcNone =>
       fcTable[k] \in DOMAIN fcCtx /\ FcKey(fcTable[k]) = k

\* Who waits on a context is in its list.
FcLists ==
  /\ \A f \in FcFetches : fcFetch[f].at \in {"waiting", "called"} => fcFetch[f].ctx \in FcFetches
  /\ \A f \in FcFetches : \A c \in DOMAIN fcCtx :
       f \in fcCtx[c].resps <=> fcFetch[f].at = "waiting" /\ fcFetch[f].ctx = c

FcCallbacks ==
  /\ \A f \in FcFetches : FcPosted("call", f) = (IF fcFetch[f].at = "called" THEN 1 ELSE 0)
  /\ \A l \in FcLoops : \A i \in 1 .. Len(fcJobs[l]) : FcLoopOf(fcJobs[l][i].of) = l

\* The references to a context.  A name that no context bears has none: that
\* makes FcAccounts say too that nothing points to a context that was freed.
FcHeld(c) == Cardinality(FcUsers(c)) + Cardinality(FcLockers(c)) + FcDropped(c)

FcOwed(c) == FcHeld(c) + (FcPosted("start", c) + FcPosted("shutdown", c))

FcRefs(c) == IF c \in DOMAIN fcCtx THEN fcCtx[c].refs ELSE 0

FcAlive(c) == IF c \in DOMAIN fcCtx THEN (IF fcCtx[c].done THEN 0 ELSE 1) ELSE 0

FcAccounts == \A c \in FcFetches : FcRefs(c) = FcOwed(c) + FcAlive(c)

FcHandlers == \A l \in FcLoops : FcHandler(l)

FcInv ==
  /\ FetchTypeOK /\ FcHandlers /\ FcStore /\ FcLists /\ FcCallbacks /\ FcAccounts
  /\ FcCounters /\ FcAsserts

-----------------------------------------------------------------------------
(* What steps change *)

FcJobSet == [job : {"start", "shutdown", "call"}, of : FcFetches]

FcQueuesOK == fcLoop \in [FcLoops -> FcPlaces] /\ fcJobs \in [FcLoops -> Seq(FcJobSet)]

FcUse(f, x) ==
  IF fcFetch[f].at \in {"waiting", "called"} /\ fcFetch[f].ctx = x THEN 1 ELSE 0

FcLocks(l, x) == IF fcLoop[l].at = "lock" /\ fcLoop[l].ctx = x THEN 1 ELSE 0

FcDrops(l, x) ==
  IF FcLoopOf(x) = l /\ fcLoop[l].at \in {"send", "spill"} /\ fcLoop[l].ctx = x
  THEN fcLoop[l].drop ELSE 0

FcOnLoops == \A l \in FcLoops : \A i \in 1 .. Len(fcJobs[l]) : FcLoopOf(fcJobs[l][i].of) = l

\* Nothing that the handler of loop m relies on is disturbed: its fetches, whether
\* they have contexts, and whether those are done.
FcUndisturbed(m) ==
  /\ fcLoop'[m] = fcLoop[m]
  /\ \A f \in FcFetches : FcLoopOf(f) = m =>
       /\ fcFetch[f].at = "calling" => fcFetch'[f].at = "calling"
       /\ f \in DOMAIN fcCtx' => f \in DOMAIN fcCtx /\ fcCtx'[f].done = fcCtx[f].done
       /\ f \in DOMAIN fcCtx' /\ fcCtx'[f].hashed => fcCtx[f].hashed
       /\ f \in DOMAIN fcCtx /\ ~fcCtx[f].done => f \in DOMAIN fcCtx'
       /\ f \in DOMAIN fcCtx' /\ ~fcCtx[f].done /\ ~fcCtx[f].hashed /\ fcCtx[f].refs = 1
            => fcCtx'[f].refs = 1

\* Context c stays as it is, as far as the table and its handler are concerned.
FcSettled(c) ==
  /\ c \in DOMAIN fcCtx /\ c \in DOMAIN fcCtx'
  /\ fcCtx'[c].key = fcCtx[c].key /\ fcCtx'[c].done = fcCtx[c].done
  /\ fcCtx'[c].hashed = fcCtx[c].hashed /\ fcCtx'[c].cloned = fcCtx[c].cloned
  /\ fcFetch[c].at # "new" => fcFetch'[c].at # "new"
  /\ fcTable'[FcKey(c)] = c <=> fcTable[FcKey(c)] = c
  /\ LET pc == fcLoop[FcLoopOf(c)]
         next == fcLoop'[FcLoopOf(c)]
     IN  /\ pc.at = "finish" /\ pc.ctx = c => next.at = "finish" /\ next.ctx = c
         /\ pc.at = "add" /\ pc.fetch = c => next.at = "add" /\ next.fetch = c

FcIn(c) == IF c \in DOMAIN fcCtx /\ fcCtx[c].counted THEN 1 ELSE 0

FcCountedIn(d) == {c \in DOMAIN fcCtx : fcCtx[c].counted /\ FcDomain[fcCtx[c].key] = d}

\* The contexts after n references to c were dropped from ctxs.
FcLess(ctxs, c, n) ==
  /\ DOMAIN fcCtx' = IF ctxs[c].refs = n THEN DOMAIN ctxs \ {c} ELSE DOMAIN ctxs
  /\ \A x \in DOMAIN fcCtx' : x # c => fcCtx'[x] = ctxs[x]
  /\ c \in DOMAIN fcCtx' => fcCtx'[c] = [ctxs[c] EXCEPT !.refs = ctxs[c].refs - n]
  /\ FcRefs(c)' = ctxs[c].refs - n
  /\ FcAlive(c)' = IF ctxs[c].done THEN 0 ELSE 1

FcElsewhere(l) == \A m \in FcLoops : m # l => fcLoop'[m] = fcLoop[m]

\* A step of loop l: the calls that other loops are in go on.
FcFetchKept(l) ==
  \A g \in FcFetches :
    /\ fcFetch[g].at = "calling" /\ FcLoopOf(g) # l => fcFetch'[g].at = "calling"
    /\ fcFetch[g].at # "new" => fcFetch'[g].at # "new"
    /\ fcFetch'[g].at \in {"waiting", "called"} => fcFetch'[g].ctx \in FcFetches

\* Nothing that refers to x changes.
FcSameFor(l, x) ==
  /\ \A g \in FcFetches : FcUse(g, x)' = FcUse(g, x)
  /\ FcLocks(l, x)' = FcLocks(l, x) /\ FcDrops(l, x)' = FcDrops(l, x)
  /\ FcPosted("start", x)' = FcPosted("start", x)
  /\ FcPosted("shutdown", x)' = FcPosted("shutdown", x)

FcWaitsFor(g, x) == fcFetch[g].at = "waiting" /\ fcFetch[g].ctx = x

FcRefersTo(l, f, x) ==
  (FcUse(f, x) + FcLocks(l, x) + FcDrops(l, x)) + (FcPosted("start", x) + FcPosted("shutdown", x))

\* Loop l changes context c, which may be new or be gone then, and no other.
FcOneChanged(c) ==
  /\ DOMAIN fcCtx' \subseteq FcFetches
  /\ \A x \in FcFetches : x # c =>
       /\ x \in DOMAIN fcCtx' <=> x \in DOMAIN fcCtx
       /\ x \in DOMAIN fcCtx => fcCtx'[x] = fcCtx[x]
  /\ \A k \in FcKeys : \/ fcTable'[k] = fcTable[k]
                       \/ k = FcKey(c) /\ fcTable'[k] \in {c, FcNone} /\ fcTable[k] \in {c, FcNone}
  /\ fcTable'[FcKey(c)] = c => c \in DOMAIN fcCtx'

\* What the handlers of other loops rely on when the context is one of theirs.
FcSafeFor(l, c) ==
  FcLoopOf(c) # l =>
    /\ c \in DOMAIN fcCtx' => /\ c \in DOMAIN fcCtx /\ fcCtx'[c].done = fcCtx[c].done
                              /\ fcCtx'[c].hashed => fcCtx[c].hashed
    /\ c \in DOMAIN fcCtx /\ ~fcCtx[c].done => c \in DOMAIN fcCtx'

\* How a loop gets at a context: it is its own, or in the table, or already referenced.
FcReached(l, f, c) ==
  FcLoopOf(c) = l \/ fcCtx[c].hashed \/ FcUse(f, c) = 1 \/ FcLocks(l, c) = 1

\* The handler of loop l, and with it fetch f, has to do with context c alone.
FcAllForOne(l, f, c) ==
  /\ FcReached(l, f, c)
  /\ FcElsewhere(l) /\ FcFetchKept(l)
  /\ fcLoop[l].at = "finish" => fcLoop[l].ctx = c
  /\ fcLoop[l].at = "add" => fcLoop[l].fetch = c
  /\ \A x \in FcFetches : x # c => FcSameFor(l, x)
  /\ \A g \in FcFetches : g # f => FcUse(g, c)' = FcUse(g, c)
  /\ \A g \in FcFetches, x \in FcFetches : x # c => (FcWaitsFor(g, x)' <=> FcWaitsFor(g, x))

\* Of the contexts, only c changes, and nothing that others see of it.
FcOnly(ctxs, c) ==
  /\ DOMAIN ctxs = DOMAIN fcCtx
  /\ \A x \in DOMAIN fcCtx : x # c => ctxs[x] = fcCtx[x]
  /\ ctxs[c] \in FcContexts
  /\ \A i \in {"key", "done", "hashed", "cloned", "counted", "refs"} : ctxs[c][i] = fcCtx[c][i]

\* Loop l is done with a handler or callback that, with fetch f, held n references
\* to c.
FcLetsGo(l, f, c, n) ==
  /\ FcReached(l, f, c)
  /\ UNCHANGED fcTable /\ FcElsewhere(l) /\ FcFetchKept(l)
  /\ fcLoop[l].at \notin {"finish", "add"} /\ fcLoop'[l].at = "idle" /\ ~fcLoop'[l].new
  /\ \A x \in FcFetches : x # c => FcSameFor(l, x)
  /\ \A g \in FcFetches : g # f => FcUse(g, c)' = FcUse(g, c)
  /\ FcRefersTo(l, f, c) = FcRefersTo(l, f, c)' + n
  /\ \A g \in FcFetches, x \in FcFetches : x # c => (FcWaitsFor(g, x)' <=> FcWaitsFor(g, x))

FcFetchSet ==
  [at : {"new", "calling", "refused", "waiting", "called", "over"},
   ctx : FcFetches \cup {FcNone},
   result : {FcNone, "answer", "servfail", "canceled", "shuttingdown"}]

FcResSet ==
  [exiting : BOOLEAN, shutdown : {"no", "exiting", "told", "over"}, spillat : Nat,
   timer : FcLoops \cup {FcNone}]

FcNowhere == {"idle", "find", "unshared", "tick", "tock"}

-----------------------------------------------------------------------------
(* Counting: sets that differ in one element, and jobs in a queue *)

\* Two subsets of a finite set that differ at most in e.
CardChangeLaw ==
  \A S, e :
    \A A \in SUBSET S, B \in SUBSET S :
      /\ IsFiniteSet(S)
      /\ \A y \in S : y # e => (y \in A <=> y \in B)
      => /\ Cardinality(A) \in Nat /\ Cardinality(B) \in Nat
         /\ Cardinality(B) + (IF e \in A THEN 1 ELSE 0)
              = Cardinality(A) + (IF e \in B THEN 1 ELSE 0)

\* A job is posted a natural number of times, and never if it is not in the queue.
OccursNatLaw ==
  \A T, e :
    \A q \in Seq(T) :
      /\ FcOccurs(q, e) \in Nat
      /\ FcOccurs(q, e) = 0 <=> \A i \in 1 .. Len(q) : q[i] # e

\* Two queues one after the other.
OccursConcatLaw ==
  \A T, e :
    \A q \in Seq(T), r \in Seq(T) :
      FcOccurs(q \o r, e) = FcOccurs(q, e) + FcOccurs(r, e)

\* A queue of one job.
OccursOneLaw ==
  \A x, e :
    FcOccurs(<<x>>, e) = IF x = e THEN 1 ELSE 0

\* A callback for each member of a set.
OccursPostsLaw ==
  \A S, job :
    IsFiniteSet(S)
    => /\ FcPosts(job, S) \in Seq([job : {job}, of : S])
       /\ \A j, x : FcOccurs(FcPosts(job, S), [job |-> j, of |-> x])
                   = IF j = job /\ x \in S THEN 1 ELSE 0

\* A subset of a finite set is counted, and is empty if the count is 0.
FiniteLaw ==
  \A S, A :
    IsFiniteSet(S) /\ A \subseteq S
    => IsFiniteSet(A) /\ Cardinality(A) \in Nat /\ (Cardinality(A) = 0 <=> A = {})

FcCounting ==
  /\ CardChangeLaw /\ OccursNatLaw /\ OccursConcatLaw /\ OccursOneLaw /\ OccursPostsLaw
  /\ FiniteLaw

-----------------------------------------------------------------------------
(* The laws: what steps keep, shown once for several actions *)

\* A fetch has a loop, a key and a zone.
LoopOfLaw ==
  \A f \in FcFetches :
    FcLoopOf(f) \in FcLoops /\ FcKey(f) \in FcKeys /\ FcDomain[FcKey(f)] \in FcDomains

\* A handler drops a natural number of references.
DropNatLaw ==
  \A L \in [FcLoops -> FcPlaces], l \in FcLoops :
    L[l].drop \in Nat

\* What a fetch and a handler refer to a context with are numbers.
PartsNatLaw ==
  \A f, x :
    \A l \in FcLoops :
      FetchTypeOK
      => FcUse(f, x) \in Nat /\ FcLocks(l, x) \in Nat /\ FcDrops(l, x) \in Nat

\* So is how often a callback is posted.
PostedNatLaw ==
  \A job :
    \A x \in FcFetches :
      FetchTypeOK
      => FcPosted(job, x) \in Nat

\* The references to a context are numbers, and not 0 if something refers to it.
OwedPartsLaw ==
  \A x \in FcFetches :
    FetchTypeOK
    => /\ Cardinality(FcUsers(x)) \in Nat /\ Cardinality(FcLockers(x)) \in Nat
       /\ FcPosted("start", x) \in Nat /\ FcPosted("shutdown", x) \in Nat
       /\ FcDropped(x) \in Nat
       /\ \A f \in FcFetches : FcUse(f, x) = 1 => Cardinality(FcUsers(x)) >= 1
       /\ \A l \in FcLoops : FcLocks(l, x) = 1 => Cardinality(FcLockers(x)) >= 1

\* What is pointed to is in memory.
ReferencedLaw ==
  \A x \in FcFetches :
    /\ FetchTypeOK /\ FcAccounts
    /\ \/ \E f \in FcFetches : FcUse(f, x) = 1
       \/ \E l \in FcLoops : FcLocks(l, x) = 1
       \/ FcDropped(x) # 0
       \/ FcPosted("start", x) # 0
       \/ FcPosted("shutdown", x) # 0
    => x \in DOMAIN fcCtx

\* One callback is posted to the loop it is for.
PostedAppendLaw ==
  \A j \in {"start", "shutdown", "call"}, c \in FcFetches :
    /\ FetchTypeOK /\ FcOnLoops /\ FcPost(FcLoopOf(c), [job |-> j, of |-> c])
    => /\ fcJobs' \in [FcLoops -> Seq(FcJobSet)] /\ FcOnLoops'
       /\ \A i \in {"start", "shutdown", "call"}, x \in FcFetches :
            FcPosted(i, x)' = FcPosted(i, x) + (IF i = j /\ x = c THEN 1 ELSE 0)

\* A loop takes the first callback posted to it.
PostedTailLaw ==
  \A j :
    \A l \in FcLoops :
      /\ FetchTypeOK /\ FcOnLoops /\ FcJob(l, j) /\ FcTaken(l)
      => LET c == Head(fcJobs[l]).of IN
         /\ fcJobs' \in [FcLoops -> Seq(FcJobSet)] /\ FcOnLoops'
         /\ c \in FcFetches /\ FcLoopOf(c) = l /\ FcPosted(j, c) >= 1
         /\ \A i \in {"start", "shutdown", "call"}, x \in FcFetches :
              FcPosted(i, x) = FcPosted(i, x)' + (IF i = j /\ x = c THEN 1 ELSE 0)

\* One callback is posted for each of a set of fetches or contexts, each to its own loop.
PostedManyLaw ==
  \A j \in {"start", "shutdown", "call"}, S \in SUBSET FcFetches :
    /\ FetchTypeOK /\ FcOnLoops
    /\ fcJobs' = [m \in FcLoops |-> fcJobs[m] \o FcPosts(j, {f \in S : FcLoopOf(f) = m})]
    => /\ fcJobs' \in [FcLoops -> Seq(FcJobSet)] /\ FcOnLoops'
       /\ \A i \in {"start", "shutdown", "call"}, x \in FcFetches :
            FcPosted(i, x)' = FcPosted(i, x) + (IF i = j /\ x \in S THEN 1 ELSE 0)

\* An undisturbed handler may rely on what it relied on.
HandlerKeptLaw ==
  \A m \in FcLoops :
    /\ FcHandler(m) /\ FcUndisturbed(m)
    => FcHandler(m)'

\* A settled context stays tidy.
TidyKeptLaw ==
  \A c :
    /\ FcTidy(c) /\ FcSettled(c)
    => FcTidy(c)'

\* The counters stay right where no context changes its zone.
CountersKeptLaw ==
  /\ FcCounters /\ UNCHANGED fcCount /\ DOMAIN fcCtx' = DOMAIN fcCtx
  /\ \A c \in DOMAIN fcCtx : fcCtx'[c].counted = fcCtx[c].counted /\ fcCtx'[c].key = fcCtx[c].key
  => FcCounters'

\* One context more or less is counted in its zone, and the counter follows.
CountersStepLaw ==
  \A c \in FcFetches :
    /\ FetchTypeOK /\ FcCounters /\ DOMAIN fcCtx' \subseteq FcFetches
    /\ \A x \in FcFetches : x # c =>
         /\ x \in DOMAIN fcCtx' <=> x \in DOMAIN fcCtx
         /\ x \in DOMAIN fcCtx => fcCtx'[x].counted = fcCtx[x].counted
                                  /\ fcCtx'[x].key = fcCtx[x].key
    /\ c \in DOMAIN fcCtx => fcCtx[c].key = FcKey(c)
    /\ c \in DOMAIN fcCtx' => fcCtx'[c].key = FcKey(c)
    /\ fcCount' = [fcCount EXCEPT ![FcDomain[FcKey(c)]] = @ - FcIn(c) + FcIn(c)']
    /\ fcCount'[FcDomain[FcKey(c)]] <= FcZspill
    => FcCounters' /\ fcCount' \in [FcDomains -> Nat]

\* fetchctx_detach of one of the references that remain: the context is freed with
\* the last, its zone's counter follows, and no assertion fails.
DetachedLaw ==
  \A ctxs :
    \A c \in DOMAIN fcCtx, n \in Nat :
      /\ FcInv /\ DOMAIN ctxs = DOMAIN fcCtx
      /\ \A x \in DOMAIN fcCtx : /\ ctxs[x] \in FcContexts /\ ctxs[x].key = fcCtx[x].key
                                /\ ctxs[x].counted = fcCtx[x].counted
      /\ ctxs[c].refs >= n
      /\ ctxs[c].refs = n => ctxs[c].done /\ ctxs[c].resps = {}
      /\ FcDetach(ctxs, c, n, {})
      => /\ fcFailed' = fcFailed /\ FcCounters' /\ fcCount' \in [FcDomains -> Nat]
         /\ \A x \in DOMAIN fcCtx' : fcCtx'[x] \in FcContexts
         /\ FcLess(ctxs, c, n)

\* What loop l and fetch f refer to c with changes by n.
OwedChangeLaw ==
  \A l \in FcLoops, f \in FcFetches, c \in FcFetches :
    /\ FcInv /\ FcQueuesOK' /\ FcElsewhere(l)
    /\ \A g \in FcFetches : g # f => FcUse(g, c)' = FcUse(g, c)
    => /\ FcOwed(c) \in Nat /\ FcOwed(c)' \in Nat
       /\ FcRefersTo(l, f, c) \in Nat /\ FcRefersTo(l, f, c)' \in Nat
       /\ FcOwed(c)' + FcRefersTo(l, f, c) = FcOwed(c) + FcRefersTo(l, f, c)'
       /\ \A g \in FcFetches : FcUse(g, c)' = 1 => FcOwed(c)' >= 1

\* A step of loop l, with fetch f, that changes context c keeps handlers, contexts,
\* lists and accounts if it does so for c.
ChangeStepLaw ==
  \A l \in FcLoops, f \in FcFetches, c \in FcFetches :
    /\ FcInv /\ FcQueuesOK' /\ FcOneChanged(c) /\ FcSafeFor(l, c) /\ FcAllForOne(l, f, c)
    /\ FcHandler(l)'
    /\ c \in DOMAIN fcCtx' => FcTidy(c)'
    /\ c \in DOMAIN fcCtx' =>
         \A g \in FcFetches : g \in fcCtx'[c].resps <=> FcWaitsFor(g, c)'
    /\ FcRefs(c)' + FcRefersTo(l, f, c) + FcAlive(c)
         = FcRefs(c) + FcRefersTo(l, f, c)' + FcAlive(c)'
    /\ FcRefs(c)' \in Nat
    => FcHandlers' /\ FcStore' /\ FcLists' /\ FcAccounts'

\* So does a handler or callback that drops its references to c and is over.
DetachStepLaw ==
  \A ctxs :
    \A l \in FcLoops, f \in FcFetches, c \in DOMAIN fcCtx, n \in Nat :
      /\ FcInv /\ FcQueuesOK' /\ FcOnly(ctxs, c) /\ FcDetach(ctxs, c, n, {})
      /\ FcLetsGo(l, f, c, n)
      /\ \A g \in FcFetches : g \in ctxs[c].resps <=> FcWaitsFor(g, c)'
      => /\ DOMAIN fcCtx' \subseteq FcFetches
         /\ \A x \in DOMAIN fcCtx' : fcCtx'[x] \in FcContexts
         /\ fcCount' \in [FcDomains -> Nat] /\ fcFailed' = fcFailed
         /\ FcHandlers' /\ FcStore' /\ FcLists' /\ FcAccounts' /\ FcCounters'

\* Nothing changes for the fetches.
FetchSameLaw ==
  \A l \in FcLoops :
    /\ FcInv /\ fcFetch' = fcFetch
    => /\ FcFetchKept(l)
       /\ \A g, x : FcUse(g, x)' = FcUse(g, x) /\ (FcWaitsFor(g, x)' <=> FcWaitsFor(g, x))

\* A handler that is over, and drops the references it held.
LoopDetachLaw ==
  \A c, ctxs :
    \A l \in FcLoops, n \in Nat :
      /\ FcInv /\ c = fcLoop[l].ctx
      /\ \/ fcLoop[l].at = "lock" /\ n = 1
         \/ fcLoop[l].at = "spill" /\ n = fcLoop[l].drop
      /\ FcOnly(ctxs, c) /\ ctxs[c].resps = fcCtx[c].resps /\ FcDetach(ctxs, c, n, {})
      /\ FcGoto(l, FcIdle) /\ UNCHANGED <<fcTable, fcJobs>> /\ FcFetchKept(l)
      /\ fcFetch' \in [FcFetches -> FcFetchSet]
      /\ \A g \in FcFetches, x \in FcFetches :
           FcUse(g, x)' = FcUse(g, x) /\ (FcWaitsFor(g, x)' <=> FcWaitsFor(g, x))
      /\ \A g \in FcFetches : fcFetch'[g].at = "called" <=> fcFetch[g].at = "called"
      /\ fcRes' \in [exiting : BOOLEAN, shutdown : {"no", "exiting", "told", "over"},
                    spillat : Nat, timer : FcLoops \cup {FcNone}]
      => FcInv'

\* A fetch that joins a context waits on it.
WaitsOnLaw ==
  \A f \in FcFetches, c \in FcFetches :
    /\ fcFetch \in [FcFetches -> FcFetchSet] /\ fcFetch' = FcWaitsOn(f, c)
    => /\ fcFetch' \in [FcFetches -> FcFetchSet]
       /\ fcFetch'[f].at = "waiting" /\ fcFetch'[f].ctx = c
       /\ \A g \in FcFetches : g # f => fcFetch'[g] = fcFetch[g]

\* A handler goes from a place to another where it refers to no context.
QuietInvLaw ==
  \A l \in FcLoops, pc \in FcPlaces :
    /\ FcInv /\ UNCHANGED <<fcCtx, fcTable, fcCount, fcJobs>> /\ FcGoto(l, pc)
    /\ fcLoop[l].at \in FcNowhere /\ pc.at \in FcNowhere /\ FcHandler(l)'
    /\ FcFetchKept(l) /\ fcFetch' \in [FcFetches -> FcFetchSet]
    /\ \A g \in FcFetches : fcFetch'[g].at \in {"waiting", "called"} \/ fcFetch[g].at \in {"waiting", "called"}
                            => fcFetch'[g] = fcFetch[g]
    /\ fcRes' \in FcResSet /\ FcAsserts'
    => FcInv'

\* All of them.
FcLaws ==
  /\ OccursNatLaw /\ LoopOfLaw /\ DropNatLaw /\ PartsNatLaw
  /\ PostedNatLaw /\ OwedPartsLaw /\ ReferencedLaw /\ PostedAppendLaw
  /\ PostedTailLaw /\ PostedManyLaw /\ HandlerKeptLaw /\ TidyKeptLaw
  /\ CountersKeptLaw /\ CountersStepLaw /\ DetachedLaw /\ OwedChangeLaw
  /\ ChangeStepLaw /\ DetachStepLaw /\ FetchSameLaw /\ LoopDetachLaw
  /\ WaitsOnLaw /\ QuietInvLaw /\ FiniteLaw
=============================================================================
