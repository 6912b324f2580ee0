-------------------------------- MODULE Rpz --------------------------------
(***************************************************************************)
(* The response policy zones of a view (lib/dns/rpz.c): how each follows   *)
(* its database (dns_rpz_dbupdate_callback, dns__rpz_timer_cb and          *)
(* update_rpz_done_cb on loops, update_rpz_cb on a worker thread), and the *)
(* summary all of them share, from which queries learn which zones have a  *)
(* trigger for a name or an address.                                       *)
(*                                                                         *)
(* An owner name of a policy zone is its trigger: a name, a wildcard, or   *)
(* an address prefix.  Names are sequences of labels from the root down.   *)
(* maint_lock makes one rpz_add or rpz_del a step; the workers of two      *)
(* zones interleave between them.                                          *)
(***************************************************************************)
EXTENDS RpzCidr, UpdateQueue

CONSTANTS
    RpzZones,       \* 0 .. n - 1, in order of precedence
    RpzContents,    \* per zone, the sets of owner names a version may have
    RpzAddrs,       \* addresses queried for
    RpzQnames,      \* names queried for
    RpzDisabled,    \* the zones with "policy disabled"
    RpzMaxVersion,  \* bound on the versions of a zone
    RpzMaxFaults    \* bound on failures to read a version

ASSUME RpzAssumption ==
    /\ IsFiniteSet(RpzZones) /\ RpzZones = 0 .. Cardinality(RpzZones) - 1
    /\ RpzDisabled \subseteq RpzZones
    /\ \A z \in RpzZones : \A o \in UNION RpzContents[z] : o.type \in {"ip", "name", "wild"}
    /\ RpzMaxVersion \in Nat \ {0} /\ RpzMaxFaults \in Nat

VARIABLES
    rpz,        \* per zone: its update queue, versions and node tables
    rpzSum,     \* the summary: radix tree, names, counters, have, skip mask
    rpzDown,    \* rpzs->shuttingdown
    rpzFaults

rpzvars == <<rpz, rpzSum, rpzDown, rpzFaults>>

(***************************************************************************)
(* The summary.                                                            *)
(***************************************************************************)
\* KEY_IS_IPV4: the address families are told apart by their leading bits.
RpzFamily(o) == CASE o.type # "ip" -> "qname"
                  [] o.type = "ip" /\ o.at[1] = 1 -> "ipv4"
                  [] OTHER -> "ipv6"
RpzFamilies == {"qname", "ipv4", "ipv6"}

\* fix_qname_skip_recurse, for "qname-wait-recurse no": the zones whose names
\* may be looked up before recursion
FixQnameSkipRecurse(have) ==
    LET req == have["ipv4"] \cup have["ipv6"]
        notreq == have["qname"]
        mask == {z \in RpzZones : z < Min(req)}
        mask2 == (IF mask = {} THEN {} ELSE {Min(req)}) \cup {0}
    IN  CASE req = {} -> RpzZones
          [] req # {} /\ notreq \cap 0 .. Max(req) = {} -> {}
          [] OTHER -> mask \cup (mask2 \cap notreq)

\* adj_trigger_cnt
AdjTriggerCnt(s, z, fam, inc) ==
    LET n == s.cnt[z][fam] + (IF inc THEN 1 ELSE -1)
        have == CASE inc /\ n = 1 -> [s.have EXCEPT ![fam] = @ \cup {z}]
                  [] ~inc /\ n = 0 -> [s.have EXCEPT ![fam] = @ \ {z}]
                  [] OTHER -> s.have
    IN  [s EXCEPT !.cnt[z][fam] = n, !.have = have,
                  !.skip = IF have = s.have THEN @ ELSE FixQnameSkipRecurse(have)]

NoBits == [name |-> {}, wild |-> {}]
NmData(s, at) == IF at \in DOMAIN s.names THEN s.names[at] ELSE NoBits

\* rpz_add: add_cidr, or add_name and add_nm
RpzAdd(s, z, o) ==
    IF o.type = "ip"
    THEN LET i == CidrInsert(s.tree, o.at, z)
         IN  IF i.new THEN AdjTriggerCnt([s EXCEPT !.tree = i.tree], z, RpzFamily(o), TRUE)
             ELSE s
    ELSE LET data == NmData(s, o.at)
             t == [s EXCEPT !.names = (o.at :> [data EXCEPT ![o.type] = @ \cup {z}]) @@ s.names]
         IN  IF z \in data[o.type] THEN t ELSE AdjTriggerCnt(t, z, "qname", TRUE)

\* rpz_del: del_cidr or del_name
RpzDel(s, z, o) ==
    IF o.type = "ip"
    THEN LET r == CidrRemove(s.tree, o.at, z)
         IN  IF r.gone THEN AdjTriggerCnt([s EXCEPT !.tree = r.tree], z, RpzFamily(o), FALSE)
             ELSE s
    ELSE LET data == NmData(s, o.at)
             left == [data EXCEPT ![o.type] = @ \ {z}]
             t == [s EXCEPT !.names = IF left = NoBits THEN [at \in DOMAIN @ \ {o.at} |-> @[at]]
                                      ELSE (o.at :> left) @@ @]
         IN  IF z \in data[o.type] THEN AdjTriggerCnt(t, z, "qname", FALSE) ELSE t

\* The summary has the trigger.
RpzHas(s, z, o) ==
    IF o.type = "ip" THEN o.at \in DOMAIN s.tree.node /\ z \in s.tree.node[o.at].set
    ELSE z \in NmData(s, o.at)[o.type]

\* dns_rpz_find_name: the exact name's bits, and the wildcards of the names on the way
RpzFindName(s, name) ==
    NmData(s, name).name \cup UNION {NmData(s, p).wild : p \in Prefixes(name)}

(***************************************************************************)
(* A zone follows its database.                                            *)
(***************************************************************************)
\* db: the contents of the versions so far; seen: the version the last update
\* took up; done: the last one applied; clean: no update failed half way.
RpzInit ==
    /\ rpz = [z \in RpzZones |-> [q |-> UqNew, db |-> <<>>, nodes |-> {}, new |-> {},
                                  left |-> {}, phase |-> "none", seen |-> 0, done |-> 0,
                                  clean |-> TRUE, stopping |-> FALSE]]
    /\ rpzSum = [tree |-> EmptyTree, names |-> <<>>,
                 cnt |-> [z \in RpzZones |-> [f \in RpzFamilies |-> 0]],
                 have |-> [f \in RpzFamilies |-> {}], skip |-> {}]
    /\ rpzDown = FALSE
    /\ rpzFaults = 0

\* A version is committed, or a new database is loaded, and
\* dns_rpz_dbupdate_callback runs.  A new database (an AXFR) closes the version
\* held of the old one first.
RpzPublish(z) ==
    /\ Len(rpz[z].db) < RpzMaxVersion
    /\ \E c \in RpzContents[z], axfr \in BOOLEAN :
          LET v == Len(rpz[z].db) + 1
              u == IF axfr THEN [rpz[z].q EXCEPT !.held = 0] ELSE rpz[z].q
          IN  rpz' = [rpz EXCEPT ![z].db = Append(@, c),
                                 ![z].q = IF rpzDown THEN @ ELSE UqNotify(u, v)]
    /\ UNCHANGED <<rpzSum, rpzDown, rpzFaults>>

\* dns__rpz_timer_cb
RpzTimer(z) ==
    /\ rpz[z].q.timer /\ ~rpzDown
    /\ rpz' = [rpz EXCEPT ![z].q = UqStart(@), ![z].phase = "start",
                          ![z].seen = rpz[z].q.held]
    /\ UNCHANGED <<rpzSum, rpzDown, rpzFaults>>

\* update_rpz_cb and the loops below end at once when the zones are shut down.
RpzAbort(z) == rpz' = [rpz EXCEPT ![z].phase = "done", ![z].clean = FALSE]

RpzBegin(z) ==
    /\ rpz[z].phase = "start"
    /\ \/ rpzDown /\ RpzAbort(z)
       \/ /\ ~rpzDown
          /\ rpz' = [rpz EXCEPT ![z].phase = "scan", ![z].new = {},
                                ![z].left = rpz[z].db[rpz[z].q.up]]
    /\ UNCHANGED <<rpzSum, rpzDown, rpzFaults>>

\* update_nodes, one owner name of the version
RpzVisit(z) ==
    /\ rpz[z].phase = "scan" /\ rpz[z].left # {}
    /\ \/ rpzDown /\ RpzAbort(z) /\ UNCHANGED rpzSum
       \/ /\ ~rpzDown
          /\ \E o \in rpz[z].left :
                /\ rpz' = [rpz EXCEPT ![z].left = @ \ {o}, ![z].new = @ \cup {o},
                                      ![z].nodes = @ \ {o}]
                /\ rpzSum' = IF o \in rpz[z].nodes THEN rpzSum ELSE RpzAdd(rpzSum, z, o)
    /\ UNCHANGED <<rpzDown, rpzFaults>>

\* The database iterator fails: the new table is dropped, what was added stays.
RpzVisitFails(z) ==
    /\ rpz[z].phase = "scan" /\ rpz[z].left # {} /\ ~rpzDown
    /\ rpzFaults < RpzMaxFaults
    /\ rpzFaults' = rpzFaults + 1
    /\ RpzAbort(z)
    /\ UNCHANGED <<rpzSum, rpzDown>>

\* cleanup_nodes, one owner name that is no longer there
RpzCleanup(z) ==
    /\ rpz[z].phase = "scan" /\ rpz[z].left = {} /\ rpz[z].nodes # {}
    /\ \/ rpzDown /\ RpzAbort(z) /\ UNCHANGED rpzSum
       \/ /\ ~rpzDown
          /\ \E o \in rpz[z].nodes :
                /\ rpz' = [rpz EXCEPT ![z].nodes = @ \ {o}]
                /\ rpzSum' = RpzDel(rpzSum, z, o)
    /\ UNCHANGED <<rpzDown, rpzFaults>>

\* The new table takes the place of the old one before that is cleaned up.
RpzSwapEarly(z) ==
    /\ rpz[z].phase = "scan" /\ rpz[z].left = {}
    /\ rpz' = [rpz EXCEPT ![z].phase = "done", ![z].nodes = rpz[z].new, ![z].new = {},
                          ![z].done = rpz[z].q.up]
    /\ UNCHANGED <<rpzSum, rpzDown, rpzFaults>>

\* The new table takes the place of the old one.
RpzSwap(z) ==
    /\ rpz[z].phase = "scan" /\ rpz[z].left = {} /\ rpz[z].nodes = {}
    /\ rpz' = [rpz EXCEPT ![z].phase = "done", ![z].nodes = rpz[z].new, ![z].new = {},
                          ![z].done = rpz[z].q.up]
    /\ UNCHANGED <<rpzSum, rpzDown, rpzFaults>>

\* The timer is not started again for a version that came meanwhile.
RpzDoneForgets(z) ==
    /\ rpz[z].phase = "done"
    /\ rpz' = [rpz EXCEPT ![z].q.running = FALSE, ![z].q.up = 0, ![z].phase = "none"]
    /\ UNCHANGED <<rpzSum, rpzDown, rpzFaults>>

\* update_rpz_done_cb
RpzDone(z) ==
    /\ rpz[z].phase = "done"
    /\ rpz' = [rpz EXCEPT ![z].q = UqDone(@, rpzDown), ![z].phase = "none"]
    /\ UNCHANGED <<rpzSum, rpzDown, rpzFaults>>

\* dns_rpz_zones_shutdown: the timers are stopped on their loops.
RpzShutdown ==
    /\ ~rpzDown
    /\ rpzDown' = TRUE
    /\ rpz' = [z \in RpzZones |-> [rpz[z] EXCEPT !.stopping = rpz[z].q.timer]]
    /\ UNCHANGED <<rpzSum, rpzFaults>>

\* dns__rpz_timer_stop
RpzTimerStop(z) ==
    /\ rpz[z].stopping
    /\ rpz' = [rpz EXCEPT ![z].stopping = FALSE, ![z].q.timer = FALSE,
                          ![z].q.failed = @ \/ ~rpz[z].q.timer]
    /\ UNCHANGED <<rpzSum, rpzDown, rpzFaults>>

RpzZoneRuns(z) == \/ RpzTimer(z) \/ RpzBegin(z) \/ RpzVisit(z) \/ RpzCleanup(z)
                  \/ RpzSwap(z) \/ RpzDone(z) \/ RpzTimerStop(z)

\* RpzZoneRuns(z) is enabled.
RpzBusy(z) == (rpz[z].q.timer /\ ~rpzDown) \/ rpz[z].phase # "none" \/ rpz[z].stopping

RpzNext == \/ \E z \in RpzZones : RpzZoneRuns(z) \/ RpzPublish(z) \/ RpzVisitFails(z)
           \/ RpzShutdown

RpzSpec == RpzInit /\ [][RpzNext]_rpzvars

(***************************************************************************)
(* rpz_rewrite_ip (query.c): the policy for one address.  m is what the    *)
(* response has so far; a zone's policy record is looked up in its current *)
(* database.  The "break" after a hit leaves the switch, not the loop.     *)
(***************************************************************************)
RpzMiss == [num |-> -1, prefix |-> NoNode]

\* The first zone the summary names is taken.
RpzRewriteIpFirst(m, addr, zbits) ==
    LET f == CidrFindIp(rpzSum.tree, zbits \cap rpzSum.have[RpzFamily([type |-> "ip", at |-> addr])], addr)
    IN  IF f = CidrNoZone THEN m ELSE f

RECURSIVE RpzRewriteIp(_, _, _)
RpzRewriteIp(m, addr, zbits) ==
    LET f == CidrFindIp(rpzSum.tree, zbits \cap rpzSum.have[RpzFamily([type |-> "ip", at |-> addr])], addr)
        rest == {z \in zbits : z < f.num}
        content == rpz[f.num].db[Len(rpz[f.num].db)]
        worse == m # RpzMiss /\ (m.num < f.num \/ (m.num = f.num /\ Len(m.prefix) > Len(f.prefix)))
    IN  CASE zbits = {} \/ f = CidrNoZone -> m
          [] zbits # {} /\ f # CidrNoZone /\ worse -> m
          [] zbits # {} /\ f # CidrNoZone /\ ~worse ->
                RpzRewriteIp(IF [type |-> "ip", at |-> f.prefix] \in content /\ f.num \notin RpzDisabled
                             THEN f ELSE m,
                             addr, rest)

(***************************************************************************)
(* Properties.                                                             *)
(***************************************************************************)
RpzLast(z) == Len(rpz[z].db)
RpzContent(z, v) == IF v = 0 THEN {} ELSE rpz[z].db[v]
RpzHits(z) == {<<p, z>> : p \in {o.at : o \in {o \in RpzContent(z, rpz[z].done) : o.type = "ip"}}}
RpzIdle(z) == rpz[z].phase = "none"
RpzCurrent(z) == RpzIdle(z) /\ rpz[z].done = RpzLast(z)
RpzSummarised(z, o) == RpzHas(rpzSum, z, o)

\* The types of the state; a trigger counter (size_t) never goes below zero.
RpzTypeOK ==
    /\ \A z \in RpzZones :
          /\ rpz[z].phase \in {"none", "start", "scan", "done"}
          /\ rpz[z].q.running <=> rpz[z].phase # "none"
          /\ rpz[z].done <= rpz[z].seen /\ rpz[z].seen <= RpzLast(z)
          /\ \A f \in RpzFamilies : rpzSum.cnt[z][f] \in Nat
    /\ rpzSum.skip \subseteq RpzZones

\* The assertions of rpz.c hold: the version and timer fields are set and
\* cleared in step whatever the order of callback, timer, worker and shutdown,
\* and del_name, which returns with the name table's write transaction open
\* when a name is not there, is only called for names that are.
RpzAsserts ==
    \A z \in RpzZones :
        /\ ~rpz[z].q.failed
        /\ \A o \in rpz[z].nodes \cup rpz[z].new : RpzSummarised(z, o)

\* A committed version is not forgotten: unless a later one was, it has been
\* taken up, or an update waits or runs that will take it up.
RpzNotLost ==
    \A z \in RpzZones :
        \/ rpzDown
        \/ rpz[z].seen = RpzLast(z)
        \/ UqWillSee(rpz[z].q, RpzLast(z))

\* While a zone moves from one version to the next, a trigger both have is in
\* the summary all the time: names are added before others are deleted, and
\* those that stay are left alone.
RpzNoGap ==
    \A z \in RpzZones :
        \A o \in RpzContent(z, rpz[z].done) \cap RpzContent(z, rpz[z].seen) :
            RpzSummarised(z, o)

\* Once a zone has applied a version the summary has its triggers, and those
\* only, whatever the other zones' updates did to the nodes they share.  A
\* failed update may leave triggers behind and never loses one.
RpzInSync ==
    \A z \in RpzZones : RpzIdle(z) /\ rpz[z].done = rpz[z].seen =>
        /\ \A o \in RpzContent(z, rpz[z].done) : RpzSummarised(z, o)
        /\ rpz[z].clean => {t \in TriggersOf(rpzSum.tree) : t[2] = z} = RpzHits(z)

\* The radix tree stays a radix tree, its sums are exact, and the counters,
\* from which "have" follows, count what is in it.
RpzTree ==
    /\ TreeShape(rpzSum.tree) /\ TreeSums(rpzSum.tree)
    /\ \A z \in RpzZones, f \in {"ipv4", "ipv6"} :
          /\ rpzSum.cnt[z][f] =
                Cardinality({t \in TriggersOf(rpzSum.tree) :
                                t[2] = z /\ RpzFamily([type |-> "ip", at |-> t[1]]) = f})
          /\ z \in rpzSum.have[f] <=> rpzSum.cnt[z][f] > 0

\* A zone whose names may be tried before recursion has no zone before it with
\* address triggers, which would take precedence once the answer is known.
RpzSkipRecurse ==
    \A z \in rpzSum.skip : \A y \in rpzSum.have["ipv4"] \cup rpzSum.have["ipv6"] : z <= y

\* No zone with a trigger for a name is left out of the zones to consult.
RpzNames ==
    \A n \in RpzQnames, z \in RpzZones : RpzCurrent(z) =>
        ((\E o \in RpzContent(z, RpzLast(z)) :
             \/ o.type = "name" /\ o.at = n
             \/ o.type = "wild" /\ IsStrictPrefix(o.at, n))
         => z \in RpzFindName(rpzSum, n))

\* The triggers an address matches in the zones of S
RpzMatches(S, addr) ==
    {t \in UNION {RpzHits(z) : z \in S} : IsPrefix(t[1], addr)}

\* The first zone that has one, and its longest prefix
RpzChosen(matches) ==
    IF matches = {} THEN RpzMiss
    ELSE LET z == Min({t[2] : t \in matches})
         IN  [num |-> z,
              prefix |-> CHOOSE p \in {t[1] : t \in matches} :
                            /\ <<p, z>> \in matches
                            /\ \A t \in matches : t[2] = z => Len(t[1]) <= Len(p)]

\* For one address the search ends with the longest prefix in the first zone
\* with a match (no zone being disabled).
RpzOneAddress ==
    RpzDisabled = {} /\ (\A z \in RpzZones : RpzCurrent(z) /\ rpz[z].clean) =>
        \A a \in RpzAddrs : RpzRewriteIp(RpzMiss, a, RpzZones) = RpzChosen(RpzMatches(RpzZones, a))

\* Zones with "policy disabled" only log: the response is rewritten according
\* to the triggered records that are not disabled.
RpzDisabledOnlyLogs ==
    (\A z \in RpzZones : RpzCurrent(z) /\ rpz[z].clean) =>
        \A a \in RpzAddrs :
            RpzRewriteIp(RpzMiss, a, RpzZones) = RpzChosen(RpzMatches(RpzZones \ RpzDisabled, a))

\* The summary that queries use is right at any moment of an update, in the middle
\* of a quantum (update_quantum) and at rest.
RpzSummaryRight ==
    RpzTypeOK /\ RpzAsserts /\ RpzNotLost /\ RpzNoGap /\ RpzInSync /\ RpzTree

\* What a query finds in the summary (dns_rpz_find_name, dns_rpz_find_ip) is what
\* the policy zones say.
RpzLookupsRight == RpzSkipRecurse /\ RpzNames /\ RpzOneAddress

\* The last version committed is taken up in the end.
RpzCatchesUp == \A z \in RpzZones : <>[](rpzDown \/ rpz[z].seen = RpzLast(z))
=============================================================================
