------------------------------- MODULE Notify -------------------------------
(***************************************************************************)
(* The NOTIFY messages of one zone (lib/dns/zone.c): from the commit of a  *)
(* change, through the flag that asks for notifies, the list zone->notifies*)
(* and the two rate limiters, to the answer of each destination.           *)
(*                                                                         *)
(* The zone's callbacks run on its loop and exclude each other; the rate   *)
(* limiters run on the loop of the zone manager; commits come from any     *)
(* thread.  A NOTIFY carries the serial that is current when it is sent.   *)
(* The address database and the request module are external: a lookup or a *)
(* request ends with a result that is queued for the zone's loop.          *)
(***************************************************************************)
EXTENDS RateLimiter

CONSTANTS NfSlots,       \* notify objects
          AlsoNotify,    \* the also-notify addresses, a sequence
          NfKeyed,       \* those configured with a TSIG key
          NsNames,       \* the name servers of the zone, a sequence
          NsAddrs,       \* the addresses of each, a sequence
          NfMaxSerial, NfMaxFails

VARIABLES nf,            \* the notify objects
          nfList,        \* zone->notifies
          nfSerial,      \* the serial of the zone
          nfOwed,        \* a commit whose dns_zone_notify is still to come
          nfNeed,        \* DNS_ZONEFLG_NEEDNOTIFY
          nfNeedStart,   \* DNS_ZONEFLG_NEEDSTARTUPNOTIFY
          nfTodo,        \* what a zone_notify in progress still has to visit
          nfStartup,     \* its "startup"
          nfZone,        \* "up", "exiting" (the flag is set), "down" (shut down)
          nfTold,        \* the serial each address has acknowledged
          nfGaveUp,      \* the addresses a NOTIFY to which was abandoned
          nfFails        \* failures so far

nfvars == <<rl, rlJobs, rlAborted, nf, nfList, nfSerial, nfOwed, nfNeed, nfNeedStart,
            nfTodo, nfStartup, nfZone, nfTold, nfGaveUp, nfFails>>

NormalRl == "notifyrl"
StartupRl == "startupnotifyrl"

ASSUME NotifyAssumption == Limiters = {NormalRl, StartupRl}

NfFree == [kind |-> "none"]

NfAddresses == ToSet(AlsoNotify) \cup UNION {ToSet(NsAddrs[x]) : x \in ToSet(NsNames)}

\* The destinations of a zone_notify: the also-notify list, then the NS names.
NfDestinations ==
    [i \in 1..Len(AlsoNotify) |-> [kind |-> "addr", to |-> AlsoNotify[i]]] \o
    [i \in 1..Len(NsNames) |-> [kind |-> "name", to |-> NsNames[i]]]

\* Nothing else runs on the zone's loop.
NfLoopFree == ~rlAborted /\ nfTodo = <<>>

NotifyInit ==
    /\ RateLimiterInit
    /\ nf = [n \in NfSlots |-> NfFree]
    /\ nfList = <<>>
    /\ nfSerial = 1 /\ nfOwed = FALSE
    /\ nfNeed = FALSE /\ nfNeedStart = TRUE      \* the zone was just loaded
    /\ nfTodo = <<>> /\ nfStartup = FALSE
    /\ nfZone = "up"
    /\ nfTold = [a \in NfAddresses |-> 0]
    /\ nfGaveUp = {} /\ nfFails = 0

-----------------------------------------------------------------------------
(***************************************************************************)
(* What the helpers of zone.c do to the list and to the limiters, as       *)
(* functions of s == [nf, list, rl, ab].                                   *)
(***************************************************************************)
NfState == [nf |-> nf, list |-> nfList, rl |-> rl, ab |-> rlAborted]

NfIs(s) ==
    /\ nf' = s.nf /\ nfList' = s.list /\ rl' = s.rl /\ rlAborted' = s.ab

\* isc_ratelimiter_enqueue of notify n; a refusal leaves it without an event.
NfEnqueue(s, n, l) ==
    IF RlRefuses(s.rl[l]) THEN s
    ELSE [s EXCEPT !.rl[l] = RlEnqueued(@, l, n), !.nf[n].rlevent = l]

\* notify_create and the append to zone->notifies.
NfCreate(s, n, kind, to, startup, key) ==
    [s EXCEPT !.nf[n] = [kind |-> kind, to |-> to, startup |-> startup, tcp |-> FALSE,
                         key |-> key, keyed |-> key, rlevent |-> "none",
                         req |-> "none", serial |-> 0, signed |-> FALSE, find |-> "none"],
              !.list = Append(@, n)]

\* notify_destroy.
NfDestroy(s, n) ==
    [s EXCEPT !.nf[n] = NfFree, !.list = SelectSeq(@, LAMBDA x : x # n)]

\* The mistake of a duplicate check that counts a NOTIFY already sent.
NfIsQueuedSent(s, startup, kind, to, key) ==
    [found |-> \E i \in 1..Len(s.list) : s.nf[s.list[i]].kind = kind /\ s.nf[s.list[i]].to = to,
     s |-> s]

\* The mistake of a notify taken off the startup limiter and put nowhere.
NfIsQueuedTaken(s, startup, kind, to, key) ==
    LET same == SelectSeq(s.list, LAMBDA n :
                    /\ s.nf[n].req = "none" /\ s.nf[n].kind = kind /\ s.nf[n].to = to
                    /\ kind = "name" \/ s.nf[n].key = key)
        n    == Head(same)
    IN  IF same = <<>> \/ startup \/ ~Contains(s.rl[StartupRl].pending, n)
          THEN [found |-> same # <<>>, s |-> s]
        ELSE [found |-> TRUE, s |-> [s EXCEPT !.rl[StartupRl] = RlDequeued(@, n),
                                              !.nf[n].rlevent = "none"]]

\* notify_isqueued: the first notify of the list that has sent nothing yet and
\* is for the same name, or the same address and key.  One that waits on the
\* startup limiter moves to the other when a change asks for it.  Dequeuing an
\* event that is linked in another list than the limiter's fails an INSIST of
\* ISC_LIST_UNLINK.
NfIsQueued(s, startup, kind, to, key) ==
    LET same == SelectSeq(s.list, LAMBDA n :
                    /\ s.nf[n].req = "none" /\ s.nf[n].kind = kind /\ s.nf[n].to = to
                    /\ kind = "name" \/ s.nf[n].key = key)
        n    == Head(same)
        r    == s.rl[StartupRl]
    IN  IF same = <<>> THEN [found |-> FALSE, s |-> s]
        ELSE IF s.nf[n].rlevent = "none" \/ startup \/ ~s.nf[n].startup
          THEN [found |-> TRUE, s |-> s]
        ELSE IF ~RlLinked(r, n) THEN [found |-> TRUE, s |-> s]
        ELSE IF ~Contains(r.pending, n) THEN [found |-> TRUE, s |-> [s EXCEPT !.ab = TRUE]]
        ELSE [found |-> ~RlRefuses(s.rl[NormalRl]),
              s |-> NfEnqueue([s EXCEPT !.rl[StartupRl] = RlDequeued(@, n),
                                        !.nf[n].rlevent = "none",
                                        !.nf[n].startup = FALSE], n, NormalRl)]

NfUnused(s) == {n \in NfSlots : s.nf[n].kind = "none"}

\* A new notify for an address, queued on a limiter or destroyed again when
\* that one refuses.  "flag" is DNS_NOTIFY_STARTUP in its flags.
NfQueueNew(s, to, flag, startup, key) ==
    LET n == CHOOSE x \in NfUnused(s) : TRUE
        l == IF startup THEN StartupRl ELSE NormalRl
        t == NfEnqueue(NfCreate(s, n, "addr", to, flag, key), n, l)
    IN  IF RlRefuses(s.rl[l]) THEN s ELSE t

\* notify_send: a notify for each address the lookup found, unless one is
\* queued; the new one does not inherit DNS_NOTIFY_STARTUP in its flags.  The
\* first that the limiter refuses ends the loop.
NfSend(s, n) ==
    LET me == s.nf[n]
        l  == IF me.startup THEN StartupRl ELSE NormalRl
        One(t, a) == LET q == NfIsQueued(t.s, me.startup, "addr", a, FALSE)
                     IN  IF t.refused THEN t
                         ELSE IF q.found THEN [t EXCEPT !.s = q.s]
                         ELSE [s |-> NfQueueNew(q.s, a, FALSE, me.startup, FALSE),
                               refused |-> RlRefuses(q.s.rl[l])]
    IN  IF nfZone # "up" THEN s
        ELSE FoldLeft(One, [s |-> s, refused |-> FALSE], NsAddrs[me.to]).s

\* There are notify objects left for all that a zone_notify may create, now and
\* when its lookups end (a bound).
NfRoom ==
    LET perName == 1 + Len(NsAddrs[Head(NsNames)])
    IN  Cardinality(NfUnused(NfState)) >=
          Len(AlsoNotify) + perName * (Len(NsNames) + Cardinality({n \in NfSlots : nf[n].kind = "name"}))

-----------------------------------------------------------------------------
\* A change of the zone is committed.
NfCommit ==
    /\ ~rlAborted /\ nfZone = "up" /\ nfSerial < NfMaxSerial
    /\ nfSerial' = nfSerial + 1
    /\ nfOwed' = TRUE
    /\ UNCHANGED <<rl, rlJobs, rlAborted, nf, nfList, nfNeed, nfNeedStart, nfTodo,
                   nfStartup, nfZone, nfTold, nfGaveUp, nfFails>>

\* dns_zone_notify, by whoever committed the change.
NfMark ==
    /\ ~rlAborted /\ nfOwed
    /\ nfOwed' = FALSE
    /\ nfNeed' = TRUE
    /\ UNCHANGED <<rl, rlJobs, rlAborted, nf, nfList, nfSerial, nfNeedStart, nfTodo,
                   nfStartup, nfZone, nfTold, nfGaveUp, nfFails>>

\* zone_maintenance finds notifies due; zone_notify up to its first unlock.
NfMaintain ==
    /\ NfLoopFree /\ nfZone # "down" /\ (nfNeed \/ nfNeedStart) /\ NfRoom
    /\ nfStartup' = ~nfNeed
    /\ nfNeed' = FALSE /\ nfNeedStart' = FALSE
    /\ nfTodo' = IF nfZone = "up" THEN NfDestinations ELSE <<>>
    /\ UNCHANGED <<rl, rlJobs, rlAborted, nf, nfList, nfSerial, nfOwed,
                   nfZone, nfTold, nfGaveUp, nfFails>>

\* notify_find_address: the lookup is answered at once, waits for an event, or
\* cannot be made (no address database, or dns_adb_createfind fails), and then
\* the name is given up without a word to its addresses.
NfLookup(s, n, gaveUp) ==
    \/ /\ NfIs(NfDestroy(NfSend(s, n), n))
       /\ nfGaveUp' = gaveUp /\ UNCHANGED nfFails
    \/ /\ NfIs([s EXCEPT !.nf[n].find = "wait"])
       /\ nfGaveUp' = gaveUp /\ UNCHANGED nfFails
    \/ /\ nfFails < NfMaxFails /\ nfFails' = nfFails + 1
       /\ NfIs(NfDestroy(s, n))
       /\ nfGaveUp' = gaveUp \cup ToSet(NsAddrs[s.nf[n].to])

\* zone_notify, one destination.
NfVisit ==
    /\ ~rlAborted /\ nfTodo # <<>>
    /\ LET d == Head(nfTodo)
           key == d.kind = "addr" /\ d.to \in NfKeyed
           q == NfIsQueued(NfState, nfStartup, d.kind, d.to, key)
           n == CHOOSE x \in NfUnused(NfState) : TRUE
           again == nfGaveUp \ (IF d.kind = "addr" THEN {d.to} ELSE ToSet(NsAddrs[d.to]))
       IN  \/ /\ q.found \/ d.kind = "addr"
              /\ NfIs(IF q.found THEN q.s
                      ELSE NfQueueNew(q.s, d.to, nfStartup, nfStartup, key))
              /\ nfGaveUp' = again /\ UNCHANGED nfFails
           \/ /\ ~q.found /\ d.kind = "name"
              /\ NfLookup(NfCreate(q.s, n, "name", d.to, nfStartup, FALSE), n, again)
    /\ nfTodo' = Tail(nfTodo)
    /\ UNCHANGED <<rlJobs, nfSerial, nfOwed, nfNeed, nfNeedStart, nfStartup, nfZone, nfTold>>

\* The address database ends a lookup: with more addresses, or with no more.
NfFindEnds(n) ==
    /\ ~rlAborted /\ nf[n].kind = "name" /\ nf[n].find = "wait"
    /\ \/ nf' = [nf EXCEPT ![n].find = "nomore"] /\ UNCHANGED nfFails
       \/ /\ nfFails < NfMaxFails /\ nfFails' = nfFails + 1
          /\ nf' = [nf EXCEPT ![n].find = "more"]
    /\ UNCHANGED <<rl, rlJobs, rlAborted, nfList, nfSerial, nfOwed, nfNeed, nfNeedStart,
                   nfTodo, nfStartup, nfZone, nfTold, nfGaveUp>>

\* process_notify_adb_event.  It looks the name up again without asking whether
\* the zone, and with it its view, is gone.
NfFindEvent(n) ==
    /\ NfLoopFree /\ nf[n].kind = "name" /\ nf[n].find \notin {"none", "wait"}
    /\ \/ /\ nf[n].find = "more" /\ nfZone # "down"
          /\ NfLookup([NfState EXCEPT !.nf[n].find = "none"], n, nfGaveUp)
       \/ /\ nf[n].find # "more" \/ nfZone = "down"
          /\ NfIs(CASE nf[n].find = "more"     -> [NfState EXCEPT !.ab = TRUE]
                    [] nf[n].find = "nomore"   -> NfDestroy(NfSend(NfState, n), n)
                    [] nf[n].find = "canceled" -> NfDestroy(NfState, n))
          /\ UNCHANGED <<nfGaveUp, nfFails>>
    /\ UNCHANGED <<rlJobs, nfSerial, nfOwed, nfNeed, nfNeedStart, nfTodo, nfStartup,
                   nfZone, nfTold>>

\* notify_send_toaddr without the send: the event and the notify are freed.
NfDrop(n) == NfDestroy([NfState EXCEPT !.rl[nf[n].rlevent] = RlFreed(@)], n)

\* notify_send_toaddr: the callback of a limiter's event, on the zone's loop, or
\* on the loop of the limiters when they cancelled it.
NfSendToaddr(n, canceled) ==
    /\ [ev |-> n, canceled |-> canceled] \in rlJobs
    /\ IF canceled THEN RlLoopFree ELSE NfLoopFree
    /\ rlJobs' = rlJobs \ {[ev |-> n, canceled |-> canceled]}
    /\ \/ /\ canceled \/ nfZone # "up"
          /\ NfIs(NfDrop(n))
          /\ UNCHANGED <<nfGaveUp, nfFails>>
       \/ /\ ~canceled /\ nfZone = "up"       \* no request could be made
          /\ nfFails < NfMaxFails /\ nfFails' = nfFails + 1
          /\ NfIs(NfDrop(n))
          /\ nfGaveUp' = nfGaveUp \cup {nf[n].to}
       \/ /\ ~canceled /\ nfZone = "up"
          /\ \E retry \in BOOLEAN :             \* over TCP, when none could be over UDP
                /\ retry => ~nf[n].tcp /\ nfFails < NfMaxFails
                /\ nfFails' = IF retry THEN nfFails + 1 ELSE nfFails
                /\ NfIs([NfState EXCEPT !.rl[nf[n].rlevent] = RlFreed(@),
                                        !.nf[n].rlevent = "none", !.nf[n].req = "sent",
                                        !.nf[n].serial = nfSerial, !.nf[n].tcp = @ \/ retry,
                                        !.nf[n].signed = nf[n].key, !.nf[n].key = FALSE])
          /\ UNCHANGED nfGaveUp
    /\ UNCHANGED <<nfSerial, nfOwed, nfNeed, nfNeedStart, nfTodo, nfStartup, nfZone, nfTold>>

\* The request module ends a request: the destination answered, or it did not.
NfRequestEnds(n) ==
    /\ ~rlAborted /\ nf[n].kind = "addr" /\ nf[n].req = "sent"
    /\ \/ /\ nf' = [nf EXCEPT ![n].req = "answered"]
          /\ nfTold' = [nfTold EXCEPT ![nf[n].to] = IF @ < nf[n].serial THEN nf[n].serial ELSE @]
          /\ UNCHANGED nfFails
       \/ /\ nfFails < NfMaxFails /\ nfFails' = nfFails + 1
          /\ nf' = [nf EXCEPT ![n].req = "timedout"]
          /\ UNCHANGED nfTold
    /\ UNCHANGED <<rl, rlJobs, rlAborted, nfList, nfSerial, nfOwed, nfNeed, nfNeedStart,
                   nfTodo, nfStartup, nfZone, nfGaveUp>>

\* notify_done.  A failure over UDP is tried again over TCP; the result of that
\* enqueue is not looked at, nor is whether the zone still has a manager.
NfDone(n) ==
    /\ NfLoopFree /\ nf[n].kind = "addr" /\ nf[n].req \notin {"none", "sent"}
    /\ IF nf[n].req = "timedout" /\ ~nf[n].tcp
         THEN /\ IF nfZone = "down" THEN NfIs([NfState EXCEPT !.ab = TRUE])
                 ELSE NfIs(NfEnqueue([NfState EXCEPT !.nf[n].tcp = TRUE, !.nf[n].req = "none"],
                                     n, IF nf[n].startup THEN StartupRl ELSE NormalRl))
              /\ UNCHANGED nfGaveUp
         ELSE /\ NfIs(NfDestroy(NfState, n))
              /\ nfGaveUp' = IF nf[n].req = "timedout" THEN nfGaveUp \cup {nf[n].to} ELSE nfGaveUp
    /\ UNCHANGED <<rlJobs, nfSerial, nfOwed, nfNeed, nfNeedStart, nfTodo, nfStartup,
                   nfZone, nfTold, nfFails>>

\* The last user of the zone detaches: DNS_ZONEFLG_EXITING.
NfDetach ==
    /\ ~rlAborted /\ nfZone = "up"
    /\ nfZone' = "exiting"
    /\ UNCHANGED <<rl, rlJobs, rlAborted, nf, nfList, nfSerial, nfOwed, nfNeed, nfNeedStart,
                   nfTodo, nfStartup, nfTold, nfGaveUp, nfFails>>

\* zone_shutdown: the zone leaves its manager and its view, and notify_cancel
\* cancels the lookups and requests that have no result yet.
NfShutdown ==
    /\ NfLoopFree /\ nfZone = "exiting"
    /\ nfZone' = "down"
    /\ nf' = [n \in NfSlots |->
                IF nf[n].kind = "none" THEN nf[n]
                ELSE [nf[n] EXCEPT !.find = IF @ = "wait" THEN "canceled" ELSE @,
                                   !.req = IF @ = "sent" THEN "canceled" ELSE @]]
    /\ UNCHANGED <<rl, rlJobs, rlAborted, nfList, nfSerial, nfOwed, nfNeed, nfNeedStart,
                   nfTodo, nfStartup, nfTold, nfGaveUp, nfFails>>

NfZoneVars == <<nf, nfList, nfSerial, nfOwed, nfNeed, nfNeedStart, nfTodo, nfStartup,
                nfZone, nfTold, nfGaveUp, nfFails>>

\* dns_zonemgr_shutdown stops the limiters in this order; zonemgr_free lets go
\* of them when the last zone has.
NfManager ==
    /\ \/ RlShutdown(NormalRl)
       \/ rl[NormalRl].state = "shuttingdown" /\ RlShutdown(StartupRl)
       \/ \E l \in Limiters : nfZone = "down" /\ RlDetach(l)
    /\ UNCHANGED NfZoneVars

NfLimiters ==
    /\ \E l \in Limiters : RlLoop(l)
    /\ UNCHANGED NfZoneVars

\* load_configuration, with no callback in progress on any loop.
NfConfigure == NfLoopFree /\ RlSetPertic /\ UNCHANGED NfZoneVars

\* Nothing is left to do: the zone and the manager are gone, or named aborted.
NfStopped ==
    /\ rlAborted \/ nfZone = "down"
    /\ UNCHANGED nfvars

NotifyNext ==
    \/ NfCommit \/ NfMark \/ NfMaintain \/ NfVisit \/ NfDetach \/ NfShutdown
    \/ NfManager \/ NfLimiters \/ NfConfigure \/ NfStopped
    \/ \E n \in NfSlots :
          \/ NfFindEnds(n) \/ NfFindEvent(n) \/ NfRequestEnds(n) \/ NfDone(n)
          \/ \E c \in BOOLEAN : NfSendToaddr(n, c)

\* Each loop runs its callbacks and timers; lookups and requests end.
NfZoneLoop ==
    \/ NfMaintain \/ NfVisit
    \/ \E n \in NfSlots : NfFindEvent(n) \/ NfDone(n) \/ NfSendToaddr(n, FALSE)
NfManagerLoop ==
    \/ (\E l \in Limiters : RlLoop(l)) /\ UNCHANGED NfZoneVars
    \/ \E n \in NfSlots : NfSendToaddr(n, TRUE)
NfAnswers == \E n \in NfSlots : NfFindEnds(n) \/ NfRequestEnds(n)

NotifySpec == NotifyInit /\ [][NotifyNext]_nfvars

-----------------------------------------------------------------------------
\* The events of limiter l that are allocated.
NfHeld == [l \in Limiters |-> {n \in NfSlots : nf[n].kind # "none" /\ nf[n].rlevent = l}]

\* Every event a limiter or a loop still has belongs to a notify that waits for
\* it, and is in one place only: no notify is freed under its event, and the
\* limiter is freed after the last of them.
NfEventsOwned ==
    ~rlAborted =>
    /\ RlRefsAre(NfHeld)
    /\ \A l \in Limiters : \A n \in NfSlots :
         LET places == Len(SelectSeq(rl[l].pending \o rl[l].local, LAMBDA x : x = n))
                       + Cardinality({j \in rlJobs : j.ev = n /\ n \in NfHeld[l]})
         IN  places = IF n \in NfHeld[l] THEN 1 ELSE 0

\* Every notify on the list is driven by exactly one of an event, a lookup and a
\* request; only limiters that shut down leave one behind.
NfDriven ==
    ~rlAborted /\ rl[NormalRl].state # "shuttingdown" =>
      \A i \in 1..Len(nfList) :
         LET me == nf[nfList[i]]
         IN  Cardinality({x \in {"ev", "req", "find"} :
                \/ x = "ev" /\ me.rlevent # "none"
                \/ x = "req" /\ me.req # "none"
                \/ x = "find" /\ me.find # "none"}) = 1

\* Both: a notify and the event, lookup or request that drives it (notify_send_queue,
\* notify_find_address, notify_send_toaddr) are never without each other.
NfOwned == NfEventsOwned /\ NfDriven

\* A notify that will reach address a with the current serial: it has sent
\* nothing yet, or it has sent that one.
NfReaches(n, a) ==
    \/ nf[n].kind = "name" /\ a \in ToSet(NsAddrs[nf[n].to])
    \/ /\ nf[n].kind = "addr" /\ nf[n].to = a
       /\ nf[n].req = "none" \/ nf[n].serial = nfSerial

NfWaiting(a) ==
    \/ nfOwed \/ nfNeed \/ nfNeedStart
    \/ \E i \in 1..Len(nfTodo) :
          \/ nfTodo[i] = [kind |-> "addr", to |-> a]
          \/ nfTodo[i].kind = "name" /\ a \in ToSet(NsAddrs[nfTodo[i].to])
    \/ \E n \in NfSlots : NfReaches(n, a)

NfEnding == rlAborted \/ nfZone # "up" \/ \E l \in Limiters : rl[l].state = "shuttingdown"

\* No change goes unannounced: as long as the zone is up, an address that has
\* not acknowledged the current serial will be sent it by something that is
\* already under way, or the attempt at it failed.  A notify that is already
\* queued stands for the later change as well.
NfAnnounced ==
    \A a \in NfAddresses :
       nfTold[a] = nfSerial \/ a \in nfGaveUp \/ NfEnding \/ NfWaiting(a)

\* Every address has acknowledged the last serial.
NfAllTold == NfEnding \/ \A a \in NfAddresses : nfTold[a] = nfSerial \/ a \in nfGaveUp

\* doc/arm/reference.rst on also-notify: "A TSIG key may also be specified to
\* cause the NOTIFY to be signed by the given key."
NfSigned ==
    \A n \in NfSlots :
       nf[n].kind = "addr" /\ nf[n].keyed /\ nf[n].req # "none" => nf[n].signed
=============================================================================
