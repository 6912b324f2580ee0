------------------------------ MODULE Refresh ------------------------------
(***************************************************************************)
(* How a secondary zone follows its primaries: zone.c from the refresh     *)
(* timer or a NOTIFY, through the SOA query, to the incoming transfer, and *)
(* the transfer quota of the zone manager that the zones share.            *)
(*                                                                         *)
(* A zone is one record of the flags and fields that decide what it does   *)
(* next.  Its timer, SOA query, request callback and transfer all run on   *)
(* its loop, one at a time; a NOTIFY, rndc and the other zones do not.     *)
(***************************************************************************)
EXTENDS Integers, Sequences, FiniteSets, FiniteSetsExt, Functions

CONSTANTS RZones,           \* the secondary zones
          RPrimaries,       \* the list of primaries of each
          RServers,         \* every primary
          RIxfr,            \* the primaries asked for incremental transfers
          RTls,             \* the primaries reached over TLS
          RDetachable,      \* zones a reconfiguration may remove
          TransfersIn,      \* transfers-in
          TransfersPerNs,   \* transfers-per-ns, or the "transfers" of the server
          RMaxSerial,       \* bound: the last serial of a primary
          RMaxFaults        \* bound: failed queries and transfers, expiries

ASSUME RefreshAssumption ==
    /\ RPrimaries \in [RZones -> Seq(RServers)]
    /\ \A z \in RZones : RPrimaries[z] # <<>>
    /\ RIxfr \cup RTls \subseteq RServers /\ RDetachable \subseteq RZones
    /\ {TransfersIn, RMaxSerial} \subseteq Nat \ {0}
    /\ TransfersPerNs \in [RServers -> Nat \ {0}]
    /\ RMaxFaults \in Nat

VARIABLES rz,           \* the zones
          rWaiting,     \* zmgr->waiting_for_xfrin
          rProgress,    \* zmgr->xfrin_in_progress
          rUnreach,     \* the primaries in zmgr->unreachable
          rSerial,      \* the serial each primary serves
          rFaults       \* faults so far

rvars == <<rz, rWaiting, rProgress, rUnreach, rSerial, rFaults>>

(***************************************************************************)
(* Where the refresh of a zone is: soa_query is on the rate limiter's list *)
(* (queued), the request is out (asking), its answer waits for the loop    *)
(* (answered), the zone waits for quota, has it (granted) or transfers     *)
(* (xfer).  "leaving" is a zone_xfrdone that has unlocked the zone and not *)
(* yet taken it off the list: a new refresh may already have started.      *)
(***************************************************************************)
RStages == {"idle", "queued", "asking", "answered", "waiting", "granted",
            "xfer"}

\* The flags, in the order of zone.c; "settimer" is a queued zone__settimer,
\* "timer" that zone->timer is set for refreshtime, "due" that this has come.
\* "heard" is the sender of a NOTIFY between its two critical sections; "base",
\* "again" and "down" (the primary it could not reach) belong to the transfer
\* that runs or has just ended.
RNew(pending) ==
    [refresh |-> FALSE, need |-> FALSE, noedns |-> FALSE, soabefore |-> FALSE,
     force |-> FALSE, noixfr |-> FALSE, loading |-> TRUE, loadpending |-> pending,
     exiting |-> FALSE, shut |-> FALSE, serial |-> 0, curr |-> 1, ok |-> {},
     due |-> FALSE, timer |-> FALSE, settimer |-> FALSE, stage |-> "idle",
     answer |-> "none", told |-> 0, type |-> "none", base |-> 0,
     again |-> FALSE, leaving |-> FALSE, down |-> "none", heard |-> "none"]

RefreshInit ==
    /\ rz \in [RZones -> {RNew(p) : p \in BOOLEAN}]
    /\ rWaiting = <<>> /\ rProgress = {}
    /\ rUnreach = {}
    /\ rSerial = [s \in RServers |-> 1]
    /\ rFaults = 0

RLoaded(r) == r.serial # 0
RDone(z, r) == r.curr > Len(RPrimaries[z])
RServer(z, r) == RPrimaries[z][r.curr]
RLoopFree(z) == ~rz[z].leaving

RFault == rFaults < RMaxFaults /\ rFaults' = rFaults + 1
RNoFault == UNCHANGED rFaults

-----------------------------------------------------------------------------
\* dns_remote_next skips the primaries marked good.
RemoteNext(z, r) ==
    LET left == {i \in r.curr + 1..Len(RPrimaries[z]) : i \notin r.ok}
    IN  [r EXCEPT !.curr = IF left = {} THEN Len(RPrimaries[z]) + 1 ELSE Min(left)]

RemoteReset(r, clear) == [r EXCEPT !.curr = 1, !.ok = IF clear THEN {} ELSE @]

RemoteMark(r) == [r EXCEPT !.ok = @ \cup {r.curr}]

SetTimer(r) == [r EXCEPT !.settimer = ~r.exiting \/ @]

CancelRefresh(r) == SetTimer([r EXCEPT !.refresh = FALSE])

QueueSoaQuery(r) ==
    IF r.exiting THEN [CancelRefresh(r) EXCEPT !.stage = "idle"]
                 ELSE [r EXCEPT !.stage = "queued"]

\* The flag is raised before the test that may return without a query.
ZoneRefresh(r) ==
    IF r.exiting THEN r
    ELSE LET raised == [r EXCEPT !.refresh = TRUE, !.noedns = FALSE]
         IN  IF r.refresh \/ r.loading THEN raised
             ELSE QueueSoaQuery(RemoteReset([raised EXCEPT !.due = FALSE], TRUE))

ZoneExpire(r) == [r EXCEPT !.serial = 0, !.due = TRUE]

\* The timer is not set again.
RefreshDoneForgets(r) ==
    [r EXCEPT !.refresh = FALSE, !.need = FALSE, !.due = r.need \/ @,
              !.stage = "idle"]

\* The end of a round, in refresh_callback.
RefreshDone(r) ==
    SetTimer([r EXCEPT !.refresh = FALSE, !.need = FALSE, !.due = r.need \/ @,
                       !.stage = "idle"])

NextPrimary(z, r) ==
    LET s == [RemoteNext(z, r) EXCEPT !.noedns = FALSE]
    IN  IF RDone(z, s) THEN RefreshDone(s) ELSE QueueSoaQuery(s)

-----------------------------------------------------------------------------
(***************************************************************************)
(* The quota.  A count is taken over the current address of every zone in  *)
(* progress; a zone that is being removed is let through.                  *)
(***************************************************************************)
RBusyWith(zones, s, progress) == {x \in progress : RServer(x, zones[x]) = s}

\* The limits do not change.

\* transfers-per-ns is not looked at.
HasQuotaGlobal(zones, progress, z) ==
    zones[z].exiting \/ Cardinality(progress) < TransfersIn

HasQuota(zones, progress, z) ==
    \/ zones[z].exiting
    \/ /\ Cardinality(progress) < TransfersIn
       /\ LET s == RServer(z, zones[z])
          IN  Cardinality(RBusyWith(zones, s, progress)) < TransfersPerNs[s]

\* ISC_LIST_UNLINK
Unlink(list, z) ==
    LET at == CHOOSE i \in DOMAIN list : list[i] = z
    IN  IF z \in Range(list) THEN SubSeq(list, 1, at - 1) \o SubSeq(list, at + 1, Len(list))
                             ELSE list

\* The manager's lists after zone z moves to xfrin_in_progress.
StartXfrin(zones, waiting, progress, z) ==
    [zones    |-> [zones EXCEPT ![z].stage = "granted"],
     waiting  |-> Unlink(waiting, z),
     progress |-> progress \cup {z}]

\* zmgr_resume_xfrs(zmgr, false): the first waiting zone that has quota.
ResumeXfrs(zones, waiting, progress) ==
    LET able == {i \in 1..Len(waiting) : HasQuota(zones, progress, waiting[i])}
    IN  IF able = {}
        THEN [zones |-> zones, waiting |-> waiting, progress |-> progress]
        ELSE StartXfrin(zones, waiting, progress, waiting[Min(able)])

RManaged(m) == rz' = m.zones /\ rWaiting' = m.waiting /\ rProgress' = m.progress

\* Zone z becomes r, and is then queued for a transfer.
QueueXfrin(z, r) ==
    LET zones == [rz EXCEPT ![z] = [r EXCEPT !.stage = "waiting"]]
        queue == Append(rWaiting, z)
    IN  RManaged(IF HasQuota(zones, rProgress, z)
                 THEN StartXfrin(zones, queue, rProgress, z)
                 ELSE [zones |-> zones, waiting |-> queue, progress |-> rProgress])

RBecomes(z, r) == rz' = [rz EXCEPT ![z] = r] /\ UNCHANGED <<rWaiting, rProgress>>

-----------------------------------------------------------------------------
(***************************************************************************)
(* What starts a refresh.                                                  *)
(***************************************************************************)
\* zone_loaddone: the file holds the first serial, or cannot be used.
RLoadDone(z) ==
    /\ rz[z].loading
    /\ \E serial \in {0, 1}, due \in BOOLEAN :
          /\ serial = 0 => due
          /\ RBecomes(z, SetTimer([rz[z] EXCEPT !.serial = serial, !.due = due,
                                      !.loading = FALSE, !.loadpending = FALSE]))
    /\ RNoFault /\ UNCHANGED <<rUnreach, rSerial>>

\* zone__settimer
RSetTimer(z) ==
    /\ rz[z].settimer /\ RLoopFree(z)
    /\ RBecomes(z, LET r == rz[z] IN [r EXCEPT !.settimer = FALSE, !.timer =
          IF r.exiting THEN @ ELSE ~r.refresh /\ ~r.loading /\ ~r.loadpending])
    /\ RNoFault /\ UNCHANGED <<rUnreach, rSerial>>

RTimeComes(z) ==
    /\ rz[z].timer /\ ~rz[z].due
    /\ RBecomes(z, [rz[z] EXCEPT !.due = TRUE])
    /\ RNoFault /\ UNCHANGED <<rUnreach, rSerial>>

\* zone_maintenance at the refresh time
RMaintain(z) ==
    /\ rz[z].timer /\ rz[z].due /\ ~rz[z].exiting /\ RLoopFree(z)
    /\ RBecomes(z, LET r == [rz[z] EXCEPT !.timer = FALSE]
                   IN  IF r.loadpending THEN r ELSE SetTimer(ZoneRefresh(r)))
    /\ RNoFault /\ UNCHANGED <<rUnreach, rSerial>>

\* zone_maintenance at the expiry time, whatever the refresh is doing
RExpire(z) ==
    /\ RLoaded(rz[z]) /\ ~rz[z].loadpending /\ ~rz[z].exiting /\ RLoopFree(z)
    /\ RBecomes(z, SetTimer(ZoneRefresh(ZoneExpire([rz[z] EXCEPT !.timer = FALSE]))))
    /\ RFault /\ UNCHANGED <<rUnreach, rSerial>>

\* dns_zone_notifyreceive up to its unlock: a NOTIFY from primary s.  One that tells a
\* serial the zone has is left at that; one that tells a newer one, or none, goes on.
RNotify(z, s) ==
    /\ ~rz[z].exiting /\ rz[z].heard = "none"
    /\ s \in Range(RPrimaries[z])
    /\ RBecomes(z, IF rz[z].refresh THEN [rz[z] EXCEPT !.need = TRUE]
                                    ELSE [rz[z] EXCEPT !.heard = s])
    /\ RNoFault /\ UNCHANGED <<rUnreach, rSerial>>

\* ... and after it
RNotifyRefresh(z) ==
    /\ rz[z].heard # "none"
    /\ RBecomes(z, ZoneRefresh([rz[z] EXCEPT !.heard = "none"]))
    /\ rUnreach' = rUnreach \ {rz[z].heard}
    /\ RNoFault /\ UNCHANGED rSerial

\* dns_zone_forcereload: rndc retransfer
RForce(z) ==
    /\ ~rz[z].exiting
    /\ RBecomes(z, ZoneRefresh([rz[z] EXCEPT !.force = TRUE]))
    /\ RFault /\ UNCHANGED <<rUnreach, rSerial>>

\* A primary publishes a new version.
RPublish(s) ==
    /\ rSerial[s] < RMaxSerial
    /\ rSerial' = [rSerial EXCEPT ![s] = @ + 1]
    /\ UNCHANGED <<rz, rWaiting, rProgress, rUnreach, rFaults>>

\* The entry has grown old, or another transfer has reached the primary.
RUnreachExpires(s) ==
    /\ s \in rUnreach
    /\ rUnreach' = rUnreach \ {s}
    /\ UNCHANGED <<rz, rWaiting, rProgress, rSerial, rFaults>>

-----------------------------------------------------------------------------
(***************************************************************************)
(* The SOA query.                                                          *)
(***************************************************************************)
\* A TLS primary is asked for its SOA by the transfer itself.
RAsk(z, r) ==
    IF RServer(z, r) \in RTls THEN QueueXfrin(z, [r EXCEPT !.soabefore = TRUE])
                              ELSE RBecomes(z, [r EXCEPT !.stage = "asking"])

RSoaQuery(z) ==
    LET r == rz[z] IN
    /\ r.stage = "queued" /\ RLoopFree(z)
    /\ \/ r.exiting /\ RBecomes(z, [r EXCEPT !.refresh = FALSE, !.stage = "idle"])
       \/ ~r.exiting /\ RAsk(z, r)
    /\ RNoFault /\ UNCHANGED <<rUnreach, rSerial>>

\* No key or no request for the current primary: on to one that has both.
RSkipPrimary(z) ==
    LET r == rz[z]
        n == Len(RPrimaries[z]) IN
    /\ r.stage = "queued" /\ ~r.exiting /\ RLoopFree(z)
    /\ \E i \in {j \in r.curr + 1..n + 1 : j \notin r.ok} :
          IF i = n + 1
          THEN RBecomes(z, CancelRefresh([RemoteReset(r, FALSE) EXCEPT !.stage = "idle"]))
          ELSE RAsk(z, [r EXCEPT !.curr = i])
    /\ RFault /\ UNCHANGED <<rUnreach, rSerial>>

\* The request ends; a removed zone's is canceled.
RAnswer(z) ==
    /\ rz[z].stage = "asking"
    /\ RBecomes(z, [rz[z] EXCEPT !.stage = "answered", !.answer = "soa",
                                 !.told = rSerial[RServer(z, rz[z])]])
    /\ RNoFault /\ UNCHANGED <<rUnreach, rSerial>>

RNoAnswer(z) ==
    /\ rz[z].stage = "asking"
    /\ \E how \in {"timeout", "servfail", "refused", "truncated", "bad"} :
          RBecomes(z, [rz[z] EXCEPT !.stage = "answered", !.answer = how])
    /\ RFault /\ UNCHANGED <<rUnreach, rSerial>>

-----------------------------------------------------------------------------
(***************************************************************************)
(* refresh_callback.                                                       *)
(***************************************************************************)
\* Servers that choke on EDNS are asked again without it.
RetryWithoutEdns(r) ==
    r.answer \in {"timeout", "servfail"} /\ ~r.noedns

RNewer(r) == r.answer = "soa" /\ (~RLoaded(r) \/ r.force \/ r.told > r.serial)

\* A failed SOA query over UDP may mean that TCP works.
TryTransfer(z, r) ==
    \/ r.answer \in {"refused", "truncated"}
    \/ r.answer = "timeout" /\ r.noedns /\ RServer(z, r) \notin rUnreach
    \/ RNewer(r) /\ RServer(z, r) \notin rUnreach

\* The primary has what the zone has, or less: no need to ask it again.
NothingNew(r) ==
    IF r.told = r.serial THEN RemoteMark([r EXCEPT !.due = FALSE]) ELSE RemoteMark(r)

RCallback(z) ==
    LET r == [rz[z] EXCEPT !.answer = "none", !.told = 0]
        a == rz[z] IN
    /\ a.stage = "answered" /\ RLoopFree(z)
    /\ \/ a.exiting /\ RBecomes(z, [r EXCEPT !.stage = "idle"])
       \/ /\ ~a.exiting /\ RetryWithoutEdns(a)
          /\ RBecomes(z, QueueSoaQuery([r EXCEPT !.noedns = TRUE]))
       \/ /\ ~a.exiting /\ ~RetryWithoutEdns(a) /\ TryTransfer(z, a)
          /\ QueueXfrin(z, [r EXCEPT !.soabefore = @ \/ a.answer \in {"timeout", "truncated"}])
       \/ /\ ~a.exiting /\ ~RetryWithoutEdns(a) /\ ~TryTransfer(z, a)
          /\ RBecomes(z, NextPrimary(z,
                IF a.answer = "soa" /\ ~RNewer(a)
                THEN [NothingNew(a) EXCEPT !.answer = "none", !.told = 0] ELSE r))
    /\ RNoFault /\ UNCHANGED <<rUnreach, rSerial>>

-----------------------------------------------------------------------------
(***************************************************************************)
(* The transfer.                                                           *)
(***************************************************************************)
\* got_transfer_quota's choice of what to request
XfrType(z, r) ==
    CASE ~RLoaded(r) \/ r.force \/ r.noixfr -> "axfr"
      [] RServer(z, r) \in RIxfr -> "ixfr"
      [] r.soabefore -> "soa"
      [] OTHER -> "axfr"

RSamePrimary(z, r) ==
    IF RDone(z, r) THEN RemoteReset(r, FALSE)
    ELSE [r EXCEPT !.refresh = TRUE, !.again = TRUE]

\* zone_xfrdone up to its unlock
XfrDone(z, was, result) ==
    LET r == [was EXCEPT !.refresh = FALSE, !.soabefore = FALSE, !.stage = "idle",
                         !.leaving = TRUE, !.type = "none", !.base = 0]
        ended == [r EXCEPT !.force = FALSE]
    IN  SetTimer(
        CASE result \in {"success", "uptodate"} /\ ~RLoaded(r) -> RSamePrimary(z, ended)
          [] result \in {"success", "uptodate"} /\ RLoaded(r) ->
                [ended EXCEPT !.need = FALSE, !.due = r.need]
          [] result = "badixfr" -> RSamePrimary(z, [r EXCEPT !.noixfr = TRUE])
          [] result = "toomany" -> [r EXCEPT !.due = FALSE]
          [] result = "badzone" -> RSamePrimary(z, RemoteNext(z, ended))
          [] OTHER -> RSamePrimary(z, RemoteNext(z, r)))

RGotQuota(z) ==
    LET r == rz[z]
        cleared == RLoaded(r) /\ ~r.force IN
    /\ r.stage = "granted"
    /\ \/ /\ r.exiting \/ RServer(z, r) \in rUnreach
          /\ RBecomes(z, XfrDone(z, r, "canceled")) /\ RNoFault
       \/ /\ ~r.exiting /\ RServer(z, r) \notin rUnreach
          /\ RBecomes(z, [r EXCEPT !.stage = "xfer", !.base = r.serial,
                             !.type = XfrType(z, r), !.noixfr = @ /\ ~cleared])
          /\ RNoFault
       \/ /\ ~r.exiting /\ RServer(z, r) \notin rUnreach
          /\ RBecomes(z, XfrDone(z, [r EXCEPT !.noixfr = @ /\ ~cleared], "failure"))
          /\ RFault
    /\ UNCHANGED <<rUnreach, rSerial>>

\* Only the same serial ends the transfer.
XfrUpToDateEqual(z, r) ==
    r.type # "axfr" /\ ~r.force /\ rSerial[RServer(z, r)] = r.base

\* The primary's serial ends an incremental transfer, or one that asks first,
\* when it is no newer than the one the request named.
XfrUpToDate(z, r) ==
    r.type # "axfr" /\ ~r.force /\ rSerial[RServer(z, r)] <= r.base

\* A full transfer replaces the database, an incremental one adds to the one it
\* started from, which may have expired.
RXfrSucceeds(z) ==
    LET r == rz[z] IN
    /\ r.stage = "xfer"
    /\ RBecomes(z,
          IF XfrUpToDate(z, r) THEN XfrDone(z, r, "uptodate")
          ELSE XfrDone(z, [r EXCEPT !.serial =
                  IF r.type = "ixfr" /\ @ = 0 THEN @ ELSE rSerial[RServer(z, r)]], "success"))
    /\ RNoFault /\ UNCHANGED <<rUnreach, rSerial>>

RXfrFails(z) ==
    LET r == rz[z] IN
    /\ r.stage = "xfer"
    /\ \/ \E how \in {"failure", "toomany"} : RBecomes(z, XfrDone(z, r, how))
       \/ r.type = "ixfr" /\ RBecomes(z, XfrDone(z, r, "badixfr"))
       \/ RBecomes(z, XfrDone(z, [r EXCEPT !.down = RServer(z, r)], "failure"))
       \/ r.type # "ixfr" /\ ~XfrUpToDate(z, r)
             /\ RBecomes(z, XfrDone(z, [r EXCEPT !.serial = 0], "badzone"))
    /\ RFault /\ UNCHANGED <<rUnreach, rSerial>>

\* dns_xfrin_shutdown, called by zone_shutdown
RXfrCanceled(z) ==
    /\ rz[z].stage = "xfer" /\ rz[z].shut
    /\ RBecomes(z, XfrDone(z, rz[z], "canceled"))
    /\ RNoFault /\ UNCHANGED <<rUnreach, rSerial>>

\* zone_xfrdone's second half: the slot goes to a zone that waits, and this one
\* asks again.  xfrin_connect_done then records a primary it could not reach.
RLeave(z) ==
    LET r == rz[z]
        m == IF z \in rProgress THEN ResumeXfrs(rz, rWaiting, rProgress \ {z})
             ELSE [zones |-> rz, waiting |-> rWaiting, progress |-> rProgress]
        left == [r EXCEPT !.again = FALSE, !.leaving = FALSE, !.down = "none"]
    IN  /\ r.leaving
        /\ RManaged([m EXCEPT !.zones[z] =
              IF r.again /\ ~r.exiting THEN QueueSoaQuery(left) ELSE left])
        /\ rUnreach' = rUnreach \cup (IF r.shut THEN {} ELSE {r.down} \ {"none"})
        /\ RNoFault /\ UNCHANGED rSerial

-----------------------------------------------------------------------------
\* The last reference to the zone goes.
RDetach(z) ==
    /\ z \in RDetachable /\ ~rz[z].exiting /\ rz[z].heard = "none"
    /\ RBecomes(z, [rz[z] EXCEPT !.exiting = TRUE])
    /\ RNoFault /\ UNCHANGED <<rUnreach, rSerial>>

RShutdown(z) ==
    LET out == [rz EXCEPT ![z].shut = TRUE, ![z].timer = FALSE,
                          ![z].stage = IF @ = "waiting" THEN "idle" ELSE @]
        queue == Unlink(rWaiting, z)
    IN  /\ rz[z].exiting /\ ~rz[z].shut /\ RLoopFree(z)
        /\ RManaged(IF z \in rProgress THEN ResumeXfrs(out, queue, rProgress \ {z})
                    ELSE [zones |-> out, waiting |-> queue, progress |-> rProgress])
        /\ RNoFault /\ UNCHANGED <<rUnreach, rSerial>>

\* What the zone's loop, the network and the clock do for the zone.
RZoneStep(z) ==
    \/ RLoadDone(z) \/ RSetTimer(z) \/ RTimeComes(z) \/ RMaintain(z)
    \/ RSoaQuery(z) \/ RAnswer(z) \/ RCallback(z)
    \/ RGotQuota(z) \/ RXfrSucceeds(z) \/ RXfrCanceled(z) \/ RLeave(z)
    \/ RShutdown(z)

RZoneFault(z) ==
    RExpire(z) \/ RForce(z) \/ RSkipPrimary(z) \/ RNoAnswer(z) \/ RXfrFails(z)

RefreshNext ==
    \/ \E z \in RZones :
          \/ RZoneStep(z) \/ RZoneFault(z) \/ RNotifyRefresh(z) \/ RDetach(z)
          \/ \E s \in RServers : RNotify(z, s)
    \/ \E s \in RServers : RPublish(s) \/ RUnreachExpires(s)

RefreshSpec == RefreshInit /\ [][RefreshNext]_rvars

-----------------------------------------------------------------------------
(***************************************************************************)
(* Properties.                                                             *)
(***************************************************************************)
RFields == {"refresh", "need", "noedns", "soabefore", "force", "noixfr", "loading",
            "loadpending", "exiting", "shut", "serial", "curr", "ok", "due", "timer",
            "settimer", "stage", "answer", "told", "type", "base", "again",
            "leaving", "down", "heard"}

RFlags == {"refresh", "force", "loading", "loadpending", "exiting", "shut", "timer",
           "settimer", "again", "leaving", "need", "due", "noedns"}

\* The record of zone z is well formed.
RZoneType(z, r) ==
    /\ DOMAIN r = RFields
    /\ \A f \in RFlags : r[f] \in BOOLEAN
    /\ r.stage \in RStages
    /\ r.curr \in 1..Len(RPrimaries[z]) + 1
    /\ r.serial \in Nat /\ r.base \in Nat

\* The type invariant.
RefreshTypeOK ==
    /\ DOMAIN rz = RZones /\ \A z \in RZones : RZoneType(z, rz[z])
    /\ rWaiting \in Seq(RZones) /\ rProgress \subseteq RZones
    /\ rSerial \in [RServers -> Nat]

\* The assertions of the code hold: a zone is on the list its refresh has
\* brought it to and on no other (the INSISTs on statelist), a transfer that
\* ends finds REFRESH set, and no address is taken from a list that has been
\* run through.
RefreshAsserts ==
    \A z \in RZones :
       LET r == rz[z] IN
       /\ r.stage = "waiting" <=> z \in Range(rWaiting)
       /\ ~r.shut => (z \in rProgress <=> r.leaving \/ r.stage \in {"granted", "xfer"})
       /\ r.stage \in {"granted", "xfer"} => r.refresh /\ ~r.leaving
       /\ r.stage # "idle" \/ r.leaving => ~RDone(z, r)
    /\ IsInjective(rWaiting)

\* No more transfers run than transfers-in and, from one primary, than
\* transfers-per-ns allow, zones being removed aside: the address that is
\* counted is the one the transfer uses.
TransferQuota ==
    LET live == {z \in rProgress : ~rz[z].exiting /\ ~rz[z].leaving}
    IN  /\ Cardinality(live) <= TransfersIn
        /\ \A s \in RServers : Cardinality(RBusyWith(rz, s, live)) <= TransfersPerNs[s]

\* A zone that waits for quota is never forgotten: a transfer is in progress
\* whose end will look at the list again.
WaitersHaveWaker == rWaiting # <<>> => rProgress # {}

\* A zone never falls asleep: when no refresh is under way and nothing is being
\* loaded, its timer is set for the next one, or about to be.
NeverAsleep ==
    \A z \in RZones :
       rz[z].stage = "idle" /\ ~rz[z].refresh /\ ~rz[z].loading /\ ~rz[z].exiting
          => rz[z].timer \/ rz[z].settimer

\* Both: no zone is forgotten by the manager (zmgr_resume_xfrs) or by its own timer
\* (zone_settimer), in whatever order queries, transfers, NOTIFYs and removals end.
NoZoneForgotten == WaitersHaveWaker /\ NeverAsleep

\* zone.c:513 on the flag: "refresh check in progress".
RefreshInProgress ==
    \A z \in RZones : rz[z].refresh /\ ~rz[z].exiting => rz[z].stage # "idle" \/ rz[z].leaving

\* No refresh brings an older version of the zone, unless it was forced or is a
\* full transfer (of a primary that refused to tell its serial, or after an
\* incremental one failed): the serial it is compared with is that of the zone as
\* it was when the transfer began.
NoRegress ==
    [][\A z \in RZones :
          rz'[z].serial < rz[z].serial /\ rz'[z].serial # 0 =>
             rz[z].force \/ rz[z].type = "axfr"]_rvars

\* Every zone has caught up with the newest of its primaries.  (A primary reached
\* over TLS that has nothing new ends the round, and the ones after it are not
\* asked; a zone that RefreshInProgress tells of stays as it is.)
RUpToDate ==
    RTls = {} =>
        \A z \in RZones :
           \/ rz[z].exiting
           \/ rz[z].refresh /\ rz[z].stage = "idle" /\ ~rz[z].leaving
           \/ \A s \in Range(RPrimaries[z]) : rz[z].serial >= rSerial[s]
=============================================================================
