------------------------------ MODULE MCServer ------------------------------
(***************************************************************************)
(* Instances for TLC of what the server stands on: locks, quotas, the      *)
(* journal of a zone, requests and fetches.  The components have no state  *)
(* in common, so a run takes several of them: each initial state picks     *)
(* one, the subject, and the steps are the steps of that component.        *)
(***************************************************************************)
EXTENDS RWLock, Quota, Secondary, Fetch, Request

CONSTANTS
  Subjects,     \* the components of a run
  MaxArrivals   \* bound: no new call of a lock once so many readers have arrived

VARIABLE subject

ServerVars == <<subject, vars, qvars, storevars, fcvars, rqvars>>

----------------------------------------------------------------------------
(* Locks and quotas *)

BlockingCalls == {"rdlock", "rdunlock", "wrlock", "wrunlock"}

\* With counters that do not wrap the runs bound the calls instead.
MayCall(op) ==
  \/ CounterLimit # 0
  \/ op \in {"rdunlock", "wrunlock"}
  \/ readers_ingress < MaxArrivals

LockNext == \E t \in Threads : Step(t) \/ \E op \in Calls : MayCall(op) /\ Call(t, op)

----------------------------------------------------------------------------
(* Journal and master file *)

AllSteps == {"idle", "xhdr", "header", "index", "commit", "copied"}

\* Small steps of the serial and a stop anywhere but between the header of a
\* compacted journal and its rename; and steps of almost half the ring, alone and
\* mixed with small ones, with no stop between the writes of the header and of
\* the index.
Large == Modulus \div 2 - 1

MCScenarios ==
  {[jumps |-> {2}, versions |-> 5, stops |-> AllSteps, far |-> FALSE, secondary |-> FALSE],
   [jumps |-> {Large}, versions |-> 5, stops |-> AllSteps \ {"index"}, far |-> FALSE,
    secondary |-> FALSE],
   [jumps |-> {1, Large}, versions |-> 4, stops |-> AllSteps \ {"index"}, far |-> FALSE,
    secondary |-> FALSE]}

\* A stop before the rename too.
MCLeftover ==
  {[jumps |-> {1}, versions |-> MaxVersion, stops |-> {"idle", "rename"}, far |-> FALSE,
    secondary |-> FALSE]}

\* A secondary zone: the primary makes three versions after the first.
MCSecondary ==
  {[jumps |-> {1}, versions |-> 4, stops |-> {"idle", "copied"}, far |-> FALSE,
    secondary |-> TRUE]}

----------------------------------------------------------------------------
(* Fetches: two loops ask the same question, and one another, unshared. *)

FetchCall(l, k, c, s) == [loop |-> l, key |-> k, client |-> c, shared |-> s]

MCCall == "f1" :> FetchCall("l1", "k", "c1", TRUE) @@ "f2" :> FetchCall("l2", "k", "c2", TRUE)
       @@ "f3" :> FetchCall("l2", "j", "none", FALSE)

\* The same question three times, on two loops.
MCCallSame == "f1" :> FetchCall("l1", "k", "c1", TRUE) @@ "f2" :> FetchCall("l2", "k", "c2", TRUE)
           @@ "f3" :> FetchCall("l1", "k", "none", TRUE)

MCDomain == "k" :> "d" @@ "j" :> "d"

MCFetches == {[calls |-> {"f1", "f2", "f3"}, shutdown |-> FALSE],
              [calls |-> {"f1", "f2"}, shutdown |-> TRUE]}

MCFetchesSame == {[calls |-> {"f1", "f2", "f3"}, shutdown |-> FALSE]}

MCFetchesLive == {[calls |-> {"f1", "f2"}, shutdown |-> TRUE]}

----------------------------------------------------------------------------
(* Requests: "u" is over UDP, the others are over TCP. *)

Asking(made, canceled, faults, shut) ==
  [made |-> made, canceled |-> canceled, faults |-> faults, shut |-> shut]

MCNoFixed == [x \in RqRequests |-> 0]
MCSameFixed == [x \in RqRequests |-> 1]

MCRequests == {Asking({"x1", "x2"}, {"x1"}, 1, FALSE), Asking({"x1", "x2"}, {}, 0, TRUE),
               Asking({"x1", "x2", "x3"}, {}, 0, FALSE), Asking({"u"}, {"u"}, 2, TRUE)}

MCRequestsShut == {Asking({"x1", "x2"}, {}, 0, TRUE)}

MCRequestsLive == {Asking({"x1", "x2"}, {"x1"}, 1, FALSE), Asking({"u"}, {"u"}, 2, TRUE)}

----------------------------------------------------------------------------
\* A component that is not the subject is in one of its initial states.
Resting(name, what, choices) == subject = name \/ what = CHOOSE c \in choices : TRUE

ServerInit ==
  /\ subject \in Subjects
  /\ Init /\ QuotaInit /\ StoreInit /\ FetchInit /\ RequestInit
  /\ Resting("quota", qMax, QMaxima)
  /\ Resting("store", env, Scenarios)
  /\ Resting("fetch", fcScenario, FcScenarios)
  /\ Resting("request", rqScenario, RqScenarios)

ServerNext ==
  /\ UNCHANGED subject
  /\ \/ /\ subject = "rwlock" /\ LockNext
        /\ UNCHANGED <<qvars, storevars, fcvars, rqvars>>
     \/ /\ subject = "quota" /\ QuotaNext
        /\ UNCHANGED <<vars, storevars, fcvars, rqvars>>
     \/ /\ subject = "store" /\ SecondaryNext
        /\ UNCHANGED <<vars, qvars, fcvars, rqvars>>
     \/ /\ subject = "fetch" /\ FetchNext
        /\ UNCHANGED <<vars, qvars, storevars, rqvars>>
     \/ /\ subject = "request" /\ RequestNext
        /\ UNCHANGED <<vars, qvars, storevars, fcvars>>

ServerSpec == ServerInit /\ [][ServerNext]_ServerVars

\* A dump that can be written is written sooner or later, and the timer of a zone
\* that needs a dump fires, although updates come in between.
StoreFairness ==
  /\ WF_storevars(subject = "store" /\ WriteXhdr)
  /\ WF_storevars(subject = "store" /\ WriteHeader)
  /\ WF_storevars(subject = "store" /\ WriteIndex)
  /\ WF_storevars(subject = "store" /\ CommitUpdate)
  /\ WF_storevars(subject = "store" /\ DumpDone)
  /\ WF_storevars(subject = "store" /\ CompactHeader)
  /\ WF_storevars(subject = "store" /\ CompactIndex)
  /\ WF_storevars(subject = "store" /\ CompactRename)
  /\ WF_storevars(subject = "store" /\ MaintenanceDump)
  /\ SF_storevars(subject = "store" /\ DumpWritten)

\* Threads do not stop inside a call, nor with the lock held.
LockFairness ==
  \A t \in Threads :
    WF_vars(subject = "rwlock" /\ Step(t)) /\ WF_vars(subject = "rwlock" /\ Unlock(t))

\* Each loop runs what is posted to it, and a query is answered or times out.
FetchFairness ==
  /\ \A l \in FcLoops :
       WF_fcvars(subject = "fetch" /\ fcFailed = {} /\ UNCHANGED fcScenario /\ FcRun(l))
  /\ \A c \in FcFetches :
       WF_fcvars(subject = "fetch" /\ fcFailed = {} /\ UNCHANGED fcScenario
                 /\ c \in DOMAIN fcCtx /\ FcEnds(c))

ServerFairSpec ==
  ServerSpec /\ LockFairness /\ StoreFairness /\ FetchFairness /\ RqFairness
=============================================================================
