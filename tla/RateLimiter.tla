---------------------------- MODULE RateLimiter ----------------------------
(***************************************************************************)
(* The rate limiters of lib/isc/ratelimiter.c.                             *)
(*                                                                         *)
(* A limiter is a record; what isc_ratelimiter_enqueue and _dequeue do to  *)
(* it under its lock are operators, applied by the module of the code that *)
(* calls them (Notify).  The callbacks that run on the limiter's loop are  *)
(* actions here.  All limiters share the loop they were created on, so     *)
(* their callbacks exclude each other; the callers run on other loops and  *)
(* come in wherever the lock is free, which includes the part of a tick    *)
(* that runs after the unlock.                                             *)
(***************************************************************************)
EXTENDS Integers, Sequences, SequencesExt, FiniteSets

CONSTANTS Limiters,      \* the limiters
          PushPop,       \* those that take the newest event first
          Pertics        \* the events per tick of each that a configuration may set

ASSUME RateLimiterAssumption ==
    PushPop \subseteq Limiters /\ Pertics \subseteq [Limiters -> Nat \ {0}]

VARIABLES rl,            \* the limiters
          rlJobs,        \* the callbacks of events that were posted to a loop
          rlAborted      \* an INSIST failed and the process ended

rlvars == <<rl, rlJobs, rlAborted>>

(***************************************************************************)
(* "local" is the list, on the stack of a tick or of a shutdown, of the    *)
(* events that were taken off the pending list and are not yet posted;     *)
(* "start" counts the start callbacks on the loop; "stop" is the shutdown  *)
(* callback; "owner" is the reference of the zone manager.                 *)
(***************************************************************************)
RlNew == [state |-> "idle", pending |-> <<>>, local |-> <<>>, timer |-> "off",
          start |-> 0, stop |-> "no", refs |-> 1, owner |-> TRUE, pertic |-> 1]

RlLive(l) == rl[l].refs > 0

\* The loop of the limiters is between two callbacks.
RlLoopFree == ~rlAborted /\ \A l \in Limiters : rl[l].local = <<>>

\* ISC_LINK_LINKED: an event's link is set in whichever list it is.
RlLinked(r, e) == Contains(r.pending \o r.local, e)

RateLimiterInit ==
    /\ rl = [l \in Limiters |-> RlNew]
    /\ rlJobs = {}
    /\ rlAborted = FALSE

\* isc_ratelimiter_enqueue, of a limiter that is not shutting down: a reference
\* for the event, and one for the start callback when the limiter was idle.
RlEnqueued(r, l, e) ==
    LET wake == IF r.state = "idle" THEN 1 ELSE 0
    IN  [r EXCEPT !.state = "ratelimited",
                  !.start = @ + wake,
                  !.refs = @ + 1 + wake,
                  !.pending = IF l \in PushPop THEN <<e>> \o @ ELSE Append(@, e)]

RlRefuses(r) == r.state = "shuttingdown"

\* isc_ratelimiter_dequeue, of an event in the pending list.
RlDequeued(r, e) == [r EXCEPT !.pending = SelectSeq(@, LAMBDA x : x # e),
                              !.refs = @ - 1]

\* isc_rlevent_free, by the caller after its callback.
RlFreed(r) == [r EXCEPT !.refs = @ - 1]

\* isc_ratelimiter_setpertic, by setrl: load_configuration sets all limiters
\* while the loops are paused.
RlSetPertic ==
    /\ RlLoopFree /\ \A l \in Limiters : rl[l].owner
    /\ \E p \in Pertics : rl' = [l \in Limiters |-> [rl[l] EXCEPT !.pertic = p[l]]]
    /\ UNCHANGED <<rlJobs, rlAborted>>

\* The mistake of a start that arms the timer only when the limiter is idle.
RlStartIdle(l) ==
    /\ RlLoopFree /\ rl[l].start > 0
    /\ rl' = [rl EXCEPT ![l].start = @ - 1, ![l].refs = @ - 1,
                        ![l].timer = IF rl[l].state = "idle" THEN "armed" ELSE @]
    /\ UNCHANGED <<rlJobs, rlAborted>>

\* isc__ratelimiter_start: the first tick is due at once.
RlStart(l) ==
    /\ RlLoopFree /\ rl[l].start > 0
    /\ rl' = [rl EXCEPT ![l].start = @ - 1, ![l].refs = @ - 1,
                        ![l].timer = IF rl[l].state = "ratelimited" THEN "armed" ELSE @]
    /\ UNCHANGED <<rlJobs, rlAborted>>

\* The mistake of a tick that stays ratelimited with nothing left to do and
\* does not rearm its timer.
RlTickKeeps(l) ==
    LET r == rl[l]
        n == IF Len(r.pending) < r.pertic THEN Len(r.pending) ELSE r.pertic
    IN  /\ RlLoopFree /\ r.timer = "armed"
        /\ rl' = [rl EXCEPT ![l] =
                    IF r.state = "shuttingdown" THEN [r EXCEPT !.timer = "off"]
                    ELSE [r EXCEPT !.timer = IF n < r.pertic THEN "off" ELSE "armed",
                                   !.local = SubSeq(r.pending, 1, n),
                                   !.pending = SubSeq(r.pending, n + 1, Len(r.pending))]]
        /\ UNCHANGED <<rlJobs, rlAborted>>

\* isc__ratelimiter_tick, up to the unlock: up to pertic events move to a list
\* on the stack; with room left over the limiter goes idle, else the timer is
\* started again.
RlTick(l) ==
    LET r == rl[l]
        n == IF Len(r.pending) < r.pertic THEN Len(r.pending) ELSE r.pertic
    IN  /\ RlLoopFree /\ r.timer = "armed"
        /\ rl' = [rl EXCEPT ![l] =
                    IF r.state = "shuttingdown" THEN [r EXCEPT !.timer = "off"]
                    ELSE [r EXCEPT !.state = IF n < r.pertic THEN "idle" ELSE @,
                                   !.timer = IF n < r.pertic THEN "off" ELSE "armed",
                                   !.local = SubSeq(r.pending, 1, n),
                                   !.pending = SubSeq(r.pending, n + 1, Len(r.pending))]]
        /\ UNCHANGED <<rlJobs, rlAborted>>

\* The loops at the end of isc__ratelimiter_tick and isc_ratelimiter_shutdown:
\* the events on the stack are posted one by one, cancelled in the latter.
RlPost(l) ==
    /\ ~rlAborted /\ rl[l].local # <<>>
    /\ rlJobs' = rlJobs \cup
          {[ev |-> Head(rl[l].local), canceled |-> rl[l].state = "shuttingdown"]}
    /\ rl' = [rl EXCEPT ![l].local = Tail(@)]
    /\ UNCHANGED rlAborted

\* isc_ratelimiter_shutdown, up to the unlock.
RlShutdown(l) ==
    /\ RlLoopFree /\ rl[l].state # "shuttingdown"
    /\ rl' = [rl EXCEPT ![l].state = "shuttingdown", ![l].local = rl[l].pending,
                        ![l].pending = <<>>, ![l].refs = @ + 1, ![l].stop = "queued"]
    /\ UNCHANGED <<rlJobs, rlAborted>>

\* isc__ratelimiter_doshutdown.
RlDoShutdown(l) ==
    /\ RlLoopFree /\ rl[l].stop = "queued"
    /\ rlAborted' = (rl[l].pending # <<>>)
    /\ rl' = [rl EXCEPT ![l].stop = "done", ![l].timer = "gone", ![l].refs = @ - 1]
    /\ UNCHANGED rlJobs

\* isc_ratelimiter_detach by zonemgr_free.
RlDetach(l) ==
    /\ ~rlAborted /\ rl[l].owner /\ rl[l].state = "shuttingdown"
    /\ rl' = [rl EXCEPT ![l].owner = FALSE, ![l].refs = @ - 1]
    /\ UNCHANGED <<rlJobs, rlAborted>>

\* The steps of the limiters' loop other than the shutdown calls.
RlLoop(l) == RlStart(l) \/ RlTick(l) \/ RlPost(l) \/ RlDoShutdown(l)

-----------------------------------------------------------------------------
RateLimiterTypeOK ==
    /\ DOMAIN rl = Limiters
    /\ \A l \in Limiters :
         /\ rl[l].state \in {"idle", "ratelimited", "shuttingdown"}
         /\ rl[l].timer \in {"off", "armed", "gone"}
         /\ rl[l].stop \in {"no", "queued", "done"}
         /\ rl[l].start \in Nat /\ rl[l].refs \in Nat /\ rl[l].pertic \in Nat \ {0}

\* No wakeup is lost and none is doubled: a limiter that is ratelimited has
\* exactly one of a start on its loop and an armed timer, an idle one has
\* neither and nothing to do.  (So isc__ratelimiter_start never finds the
\* limiter idle, the case its comment explains.)
RlOneWakeup ==
    /\ RateLimiterTypeOK
    /\ \A l \in Limiters :
         /\ rl[l].state = "ratelimited" =>
              rl[l].start + (IF rl[l].timer = "armed" THEN 1 ELSE 0) = 1
         /\ rl[l].state = "idle" =>
              rl[l].start = 0 /\ rl[l].timer = "off" /\ rl[l].pending = <<>>

\* A limiter's references are those of its owner, of its two callbacks and of
\* the events that were enqueued on it and not freed; "held" gives the latter.
RlRefsAre(held) ==
    \A l \in Limiters :
       rl[l].refs = (IF rl[l].owner THEN 1 ELSE 0) + rl[l].start
                    + (IF rl[l].stop = "queued" THEN 1 ELSE 0) + Cardinality(held[l])
=============================================================================
