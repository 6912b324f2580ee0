---------------------------- MODULE RefreshZones ----------------------------
(***************************************************************************)
(* What the steps of a zone's refresh keep true of its own record, for any *)
(* zones and primaries.  A step takes the record r of a zone to a record s *)
(* with RMoves(z, r, s): the zone's part of the invariant (RZoneInv) is    *)
(* kept, the manager's lists and the quota do not tell r from s (RSame),   *)
(* and the serial number does not go back (RForward).  StartSteps,         *)
(* TransferSteps, QuerySteps and CallbackSteps show it action by action,   *)
(* and RefreshStepForward draws the conclusion for the serial number.      *)
(***************************************************************************)
EXTENDS Refresh, TLAPS

\* What zone.c keeps true of one zone, whatever the manager's lists hold: a zone
\* being loaded refreshes nothing, a refresh under way has REFRESH set and an
\* address left, a transfer that ends has a stage of its own, and the version a
\* transfer started from is not older than the one the zone has.
RZoneRule(z, r) ==
    /\ r.loadpending => r.loading
    /\ r.loading => r.serial = 0 /\ r.stage = "idle" /\ ~r.leaving
    /\ r.leaving => r.stage \in {"idle", "queued"}
    /\ r.again => r.leaving
    /\ r.stage # "idle" \/ r.again => r.refresh
    /\ r.stage # "idle" \/ r.leaving => ~RDone(z, r)
    /\ r.shut => r.exiting
    /\ r.stage = "xfer" => r.serial <= r.base

\* NeverAsleep for one zone.
RAwake(r) ==
    r.stage = "idle" /\ ~r.refresh /\ ~r.loading /\ ~r.exiting => r.timer \/ r.settimer

RZoneInv(z, r) == RZoneType(z, r) /\ RZoneRule(z, r) /\ RAwake(r)

\* The zone's place on xfrin_in_progress.
RBusy(r) == r.leaving \/ r.stage \in {"granted", "xfer"}

\* The lists of the manager and the quota do not tell r from s.
RSame(r, s) ==
    /\ s.stage = "waiting" <=> r.stage = "waiting"
    /\ s.shut = r.shut
    /\ RBusy(s) <=> RBusy(r)
    /\ RBusy(s) /\ ~s.exiting /\ ~s.leaving
          => ~r.exiting /\ ~r.leaving /\ s.curr = r.curr

\* NoRegress for one zone.
RForward(r, s) ==
    s.serial < r.serial /\ s.serial # 0 => r.force \/ r.type = "axfr"

RMoves(z, r, s) == RZoneInv(z, s) /\ RSame(r, s) /\ RForward(r, s)

RZonesInv(zones) == DOMAIN zones = RZones /\ \A z \in RZones : RZoneInv(z, zones[z])

\* A set of numbers that is not empty has a least member.  dns_remote_next looks
\* for the next primary that is not marked good, and the lemmas that need one to
\* exist assume this fact; RefreshProofs proves it (NatMinimum).
HasLeast == \A S \in SUBSET Nat : S # {} => \E i \in S : \A j \in S : i <= j

-----------------------------------------------------------------------------
(***************************************************************************)
(* The operators on the record of one zone.                                *)
(***************************************************************************)
\* Every zone has at least one primary.
LEMMA PrimariesExist ==
  ASSUME NEW z \in RZones
  PROVE  /\ Len(RPrimaries[z]) \in Nat \ {0}
         /\ \A i \in 1..Len(RPrimaries[z]) : RPrimaries[z][i] \in RServers
  <1>1. RPrimaries[z] \in Seq(RServers) /\ RPrimaries[z] # <<>>
    BY RefreshAssumption, Zenon
  <1> QED
    BY <1>1

\* A zone whose list of primaries is not run through has a primary.
LEMMA ServerKnown ==
  ASSUME NEW z \in RZones, NEW r, RZoneType(z, r), ~RDone(z, r)
  PROVE  RServer(z, r) \in RServers
  BY PrimariesExist DEF RZoneType, RDone, RServer

\* dns_remote_next goes forward, at most past the last primary.
LEMMA RemoteNextFacts ==
  ASSUME HasLeast, NEW z \in RZones, NEW r, RZoneType(z, r)
  PROVE  /\ DOMAIN RemoteNext(z, r) = RFields
         /\ \A f \in RFields \ {"curr"} : RemoteNext(z, r)[f] = r[f]
         /\ RemoteNext(z, r).curr \in 1..Len(RPrimaries[z]) + 1
  <1> DEFINE n == Len(RPrimaries[z])
             left == {i \in r.curr + 1..n : i \notin r.ok}
  <1>1. n \in Nat \ {0} /\ r.curr \in 1..n + 1 /\ DOMAIN r = RFields
    BY PrimariesExist, Zenon DEF RZoneType
  <1>2. RemoteNext(z, r) = [r EXCEPT !.curr = IF left = {} THEN n + 1 ELSE Min(left)]
    BY Zenon DEF RemoteNext
  <1>3. ASSUME left # {} PROVE Min(left) \in 1..n + 1
    <2>1. left \subseteq Nat
      BY <1>1
    <2>2. \E i \in left : \A j \in left : i <= j
      BY <2>1, <1>3, Zenon DEF HasLeast
    <2>3. Min(left) \in left
      BY <2>2, Zenon DEF Min
    <2> QED
      BY <2>3, <1>1
  <1> HIDE DEF left
  <1> QED
    BY <1>1, <1>2, <1>3 DEF RFields

\* zone_settimer
LEMMA SetTimerFacts ==
  ASSUME NEW r, DOMAIN r = RFields
  PROVE  /\ DOMAIN SetTimer(r) = RFields
         /\ \A f \in RFields \ {"settimer"} : SetTimer(r)[f] = r[f]
         /\ SetTimer(r).settimer = (~r.exiting \/ r.settimer)
  BY Zenon DEF SetTimer, RFields

\* zone_settimer leaves a zone a zone.
LEMMA SetTimerType ==
  ASSUME NEW z, NEW r, RZoneType(z, r)
  PROVE  RZoneType(z, SetTimer(r))
  <1> DEFINE s == SetTimer(r)
  <1>1. /\ DOMAIN s = RFields /\ s.settimer = (~r.exiting \/ r.settimer)
        /\ \A f \in RFields \ {"settimer"} : s[f] = r[f]
    BY SetTimerFacts, Zenon DEF RZoneType
  <1> HIDE DEF s
  <1>2. ASSUME NEW f \in RFlags PROVE s[f] \in BOOLEAN
    <2>1. r[f] \in BOOLEAN /\ f \in RFields
      BY Zenon DEF RZoneType, RFlags, RFields
    <2> QED
      BY <1>1, <2>1, Zenon
  <1>3. s.stage = r.stage /\ s.curr = r.curr /\ s.serial = r.serial /\ s.base = r.base
    BY <1>1, Zenon DEF RFields
  <1>4. RZoneType(z, s)
    BY <1>1, <1>2, <1>3, Zenon DEF RZoneType
  <1> QED
    BY <1>4, Zenon DEF s

\* zone_refresh
LEMMA ZoneRefreshFacts ==
  ASSUME NEW z \in RZones, NEW r, RZoneType(z, r), RZoneRule(z, r)
  PROVE  /\ RZoneType(z, ZoneRefresh(r)) /\ RZoneRule(z, ZoneRefresh(r))
         /\ RSame(r, ZoneRefresh(r))
         /\ ZoneRefresh(r).exiting = r.exiting /\ ZoneRefresh(r).serial = r.serial
         /\ ~r.exiting => ZoneRefresh(r).refresh
  <1> DEFINE n == Len(RPrimaries[z])
             s == ZoneRefresh(r)
  <1>1. n \in Nat \ {0} /\ DOMAIN r = RFields
    BY PrimariesExist, Zenon DEF RZoneType
  <1>2. CASE r.exiting
    BY <1>2, Zenon DEF ZoneRefresh, RSame
  <1>3. CASE ~r.exiting /\ (r.refresh \/ r.loading)
    <2>1. s = [r EXCEPT !.refresh = TRUE, !.noedns = FALSE]
      BY <1>3, Zenon DEF ZoneRefresh
    <2> QED
      BY <1>1, <1>3, <2>1
      DEF RZoneType, RZoneRule, RSame, RBusy, RDone, RFields, RFlags, RStages
  <1>4. CASE ~r.exiting /\ ~r.refresh /\ ~r.loading
    <2>1. s = [r EXCEPT !.refresh = TRUE, !.noedns = FALSE, !.due = FALSE,
                        !.curr = 1, !.ok = {}, !.stage = "queued"]
      BY <1>1, <1>4, Zenon DEF ZoneRefresh, QueueSoaQuery, RemoteReset, RFields
    <2> QED
      BY <1>1, <1>4, <2>1
      DEF RZoneType, RZoneRule, RSame, RBusy, RDone, RFields, RFlags, RStages
  <1> QED
    BY <1>2, <1>3, <1>4, Zenon DEF RZoneType, RFlags

\* The fields that the end of a transfer does not touch.
RKept == {"loading", "loadpending", "exiting", "shut", "serial", "timer"}

\* What zone_xfrdone leaves of a zone, whatever the result.
RAfterXfr(z, was, s) ==
    /\ RZoneType(z, s)
    /\ \A f \in RKept : s[f] = was[f]
    /\ s.stage = "idle" /\ s.leaving /\ ~RDone(z, s) /\ (s.again => s.refresh)

\* same_primary: the next address, or the first one when there is none.
LEMMA SamePrimaryFacts ==
  ASSUME NEW z \in RZones, NEW r, RZoneType(z, r), ~r.again
  PROVE  LET s == RSamePrimary(z, r) IN
         /\ RZoneType(z, s)
         /\ \A f \in RKept \cup {"stage", "leaving"} : s[f] = r[f]
         /\ ~RDone(z, s) /\ (s.again => s.refresh)
  <1>1. Len(RPrimaries[z]) \in Nat \ {0} /\ DOMAIN r = RFields
    BY PrimariesExist, Zenon DEF RZoneType
  <1>2. CASE RDone(z, r)
    BY <1>1, <1>2 DEF RSamePrimary, RemoteReset, RZoneType, RDone, RFields, RFlags, RKept
  <1>3. CASE ~RDone(z, r)
    BY <1>1, <1>3, Zenon DEF RSamePrimary, RZoneType, RDone, RFields, RFlags, RKept
  <1> QED
    BY <1>2, <1>3, Zenon

\* zone_xfrdone up to its unlock
LEMMA XfrDoneFacts ==
  ASSUME HasLeast, NEW z \in RZones, NEW was, RZoneType(z, was), ~RDone(z, was), ~was.again,
         NEW result
  PROVE  LET s == XfrDone(z, was, result)
         IN  RAfterXfr(z, was, s) /\ (s.exiting \/ s.settimer)
  <1> DEFINE r == [was EXCEPT !.refresh = FALSE, !.soabefore = FALSE, !.stage = "idle",
                              !.leaving = TRUE, !.type = "none", !.base = 0]
             ended == [r EXCEPT !.force = FALSE]
             early == CASE result \in {"success", "uptodate"} /\ ~RLoaded(r) ->
                              RSamePrimary(z, ended)
                        [] result \in {"success", "uptodate"} /\ RLoaded(r) ->
                              [ended EXCEPT !.need = FALSE, !.due = r.need]
                        [] result = "badixfr" -> RSamePrimary(z, [r EXCEPT !.noixfr = TRUE])
                        [] result = "toomany" -> [r EXCEPT !.due = FALSE]
                        [] result = "badzone" -> RSamePrimary(z, RemoteNext(z, ended))
                        [] OTHER -> RSamePrimary(z, RemoteNext(z, r))
  <1>1. XfrDone(z, was, result) = SetTimer(early)
    BY Zenon DEF XfrDone
  <1>2. DOMAIN was = RFields /\ Len(RPrimaries[z]) \in Nat \ {0}
    BY PrimariesExist, Zenon DEF RZoneType
  <1> DEFINE Fresh(t) == /\ RZoneType(z, t) /\ ~t.again /\ t.stage = "idle" /\ t.leaving
                         /\ \A f \in RKept : t[f] = was[f]
  <1>3. Fresh(r) /\ ~RDone(z, r)
    BY <1>2, Zenon DEF RZoneType, RDone, RFields, RFlags, RKept, RStages
  <1>4. Fresh(ended) /\ ~RDone(z, ended)
    BY <1>2, Zenon DEF RZoneType, RDone, RFields, RFlags, RKept, RStages
  <1>5. Fresh([r EXCEPT !.noixfr = TRUE])
    BY <1>2, Zenon DEF RZoneType, RFields, RFlags, RKept, RStages
  <1>6. RAfterXfr(z, was, [r EXCEPT !.due = FALSE])
    BY <1>2, Zenon DEF RAfterXfr, RZoneType, RDone, RFields, RFlags, RKept, RStages
  <1> HIDE DEF r, ended
  <1>7. RAfterXfr(z, was, [ended EXCEPT !.need = FALSE, !.due = r.need])
    <2>1. r.need \in BOOLEAN
      BY <1>3, Zenon DEF RZoneType, RFlags
    <2> QED
      BY <1>4, <2>1, Zenon DEF RAfterXfr, RZoneType, RDone, RFields, RFlags, RKept, RStages
  <1>8. ASSUME NEW t, Fresh(t) PROVE Fresh(RemoteNext(z, t))
    <2>1. /\ DOMAIN RemoteNext(z, t) = RFields
          /\ \A f \in RFields \ {"curr"} : RemoteNext(z, t)[f] = t[f]
          /\ RemoteNext(z, t).curr \in 1..Len(RPrimaries[z]) + 1
      BY <1>8, RemoteNextFacts, Zenon
    <2> QED
      BY <1>8, <2>1 DEF RZoneType, RFields, RFlags, RKept
  <1>9. ASSUME NEW t, Fresh(t) PROVE RAfterXfr(z, was, RSamePrimary(z, t))
    BY <1>9, SamePrimaryFacts DEF RAfterXfr
  <1>10. RAfterXfr(z, was, early)
    BY <1>3, <1>4, <1>5, <1>6, <1>7, <1>8, <1>9, Zenon
  <1> HIDE DEF early
  <1> QED
    <2>1. DOMAIN early = RFields
      BY <1>10, Zenon DEF RAfterXfr, RZoneType
    <2> QED
      BY <2>1, <1>1, <1>10, SetTimerFacts, SMTT(30) DEF RAfterXfr, RZoneType, RDone, RFields, RFlags, RKept

\* Under whatever result a transfer ends, the zone stays on the list it is on, and
\* its timer is set.
LEMMA XfrDoneMoves ==
  ASSUME HasLeast, NEW z \in RZones, NEW r, RZoneInv(z, r), r.stage \in {"granted", "xfer"},
         NEW was, RZoneType(z, was), was.curr = r.curr, ~was.again,
         \A f \in RKept \ {"serial"} : was[f] = r[f], RForward(r, was), NEW result
  PROVE  RMoves(z, r, XfrDone(z, was, result))
  <1> DEFINE s == XfrDone(z, was, result)
  <1>1. ~RDone(z, was)
    BY Zenon DEF RZoneInv, RZoneRule, RDone
  <1>2. RAfterXfr(z, was, s) /\ (s.exiting \/ s.settimer)
    BY <1>1, XfrDoneFacts, Zenon
  <1> HIDE DEF s
  <1>3. /\ s.loading = r.loading /\ s.loadpending = r.loadpending
        /\ s.exiting = r.exiting /\ s.shut = r.shut
    BY <1>2, Zenon DEF RAfterXfr, RKept
  <1>4. RZoneRule(z, s) /\ RAwake(s)
    BY <1>2, <1>3, Zenon DEF RZoneInv, RAfterXfr, RZoneRule, RAwake
  <1>5. RSame(r, s)
    BY <1>2, <1>3, Zenon DEF RAfterXfr, RSame, RBusy
  <1>6. RForward(r, s)
    BY <1>2, Zenon DEF RAfterXfr, RForward, RKept
  <1> QED
    BY <1>2, <1>4, <1>5, <1>6, Zenon DEF s, RMoves, RZoneInv, RAfterXfr

-----------------------------------------------------------------------------
(***************************************************************************)
(* The steps that change one zone and leave the manager's lists alone.     *)
(***************************************************************************)
RBecomesKept(z) == \E s : RBecomes(z, s) /\ RMoves(z, rz[z], s)

\* Loading, the timer, NOTIFY, rndc and the removal of the zone.
LEMMA StartSteps ==
  ASSUME NEW z \in RZones, RZoneInv(z, rz[z]),
         \/ RLoadDone(z) \/ RSetTimer(z) \/ RTimeComes(z) \/ RMaintain(z) \/ RExpire(z)
         \/ RNotifyRefresh(z) \/ RForce(z) \/ RDetach(z)
         \/ \E s \in RServers : RNotify(z, s)
  PROVE  RBecomesKept(z)
  <1> DEFINE r == rz[z]
  <1>1. DOMAIN r = RFields /\ Len(RPrimaries[z]) \in Nat \ {0}
    BY PrimariesExist, Zenon DEF RZoneInv, RZoneType
  <1>2. CASE RLoadDone(z)
    <2>1. PICK serial \in {0, 1}, due \in BOOLEAN :
             RBecomes(z, SetTimer([r EXCEPT !.serial = serial, !.due = due,
                                     !.loading = FALSE, !.loadpending = FALSE]))
      BY <1>2, ZenonT(30) DEF RLoadDone
    <2> DEFINE t == [r EXCEPT !.serial = serial, !.due = due,
                              !.loading = FALSE, !.loadpending = FALSE]
    <2>2. r.loading
      BY <1>2, Zenon DEF RLoadDone
    <2>3. RMoves(z, r, SetTimer(t))
      BY <1>1, <2>2
      DEF SetTimer, RMoves, RForward, RZoneInv, RZoneType, RZoneRule, RAwake, RSame, RBusy, RDone, RFields, RFlags, RStages
    <2> QED
      BY <2>1, <2>3, SMTT(30) DEF RBecomesKept
  <1>3. CASE RSetTimer(z)
    <2> DEFINE s == [r EXCEPT !.settimer = FALSE,
                 !.timer = IF r.exiting THEN @ ELSE ~r.refresh /\ ~r.loading /\ ~r.loadpending]
    <2>1. RBecomes(z, s)
      BY <1>3, Zenon DEF RSetTimer
    <2>2. RMoves(z, r, s)
      BY <1>1
      DEF RMoves, RForward, RZoneInv, RZoneType, RZoneRule, RAwake, RSame, RBusy, RDone, RFields, RFlags, RStages
    <2> QED
      BY <2>1, <2>2, Zenon DEF RBecomesKept
  <1>4. CASE RTimeComes(z)
    <2> DEFINE s == [r EXCEPT !.due = TRUE]
    <2>1. RBecomes(z, s)
      BY <1>4, Zenon DEF RTimeComes
    <2>2. RMoves(z, r, s)
      BY <1>1
      DEF RMoves, RForward, RZoneInv, RZoneType, RZoneRule, RAwake, RSame, RBusy, RDone, RFields, RFlags, RStages
    <2> QED
      BY <2>1, <2>2, Zenon DEF RBecomesKept
  <1>9. CASE RDetach(z)
    <2> DEFINE s == [r EXCEPT !.exiting = TRUE]
    <2>1. RBecomes(z, s)
      BY <1>9, Zenon DEF RDetach
    <2>2. RMoves(z, r, s)
      BY <1>1
      DEF RMoves, RForward, RZoneInv, RZoneType, RZoneRule, RAwake, RSame, RBusy, RDone, RFields, RFlags, RStages
    <2> QED
      BY <2>1, <2>2, Zenon DEF RBecomesKept
  <1>5. ASSUME NEW t, RZoneType(z, t), RZoneRule(z, t), RSame(r, t), t.serial \in {r.serial, 0}
        PROVE  RMoves(z, r, SetTimer(ZoneRefresh(t)))
    <2> DEFINE u == ZoneRefresh(t)
    <2>1. RZoneType(z, u) /\ RZoneRule(z, u) /\ RSame(t, u) /\ u.serial = t.serial
      BY <1>5, ZoneRefreshFacts, Zenon
    <2> HIDE DEF u
    <2>2. /\ DOMAIN SetTimer(u) = RFields
          /\ \A f \in RFields \ {"settimer"} : SetTimer(u)[f] = u[f]
          /\ SetTimer(u).settimer = (~u.exiting \/ u.settimer)
      BY <2>1, SetTimerFacts, Zenon DEF RZoneType
    <2>3. RZoneType(z, SetTimer(u)) /\ RZoneRule(z, SetTimer(u)) /\ RAwake(SetTimer(u))
      <3>1. RZoneRule(z, SetTimer(u)) /\ RAwake(SetTimer(u))
        BY <2>1, <2>2, ZenonT(30) DEF RZoneRule, RAwake, RDone, RFields
      <3> QED
        BY <2>1, <3>1, SetTimerType, Zenon
    <2>4. RSame(r, SetTimer(u))
      BY <1>5, <2>1, <2>2, Zenon DEF RSame, RBusy, RFields
    <2>5. RForward(r, SetTimer(u))
      BY <1>5, <2>1, <2>2 DEF RForward, RFields, RZoneInv, RZoneType
    <2> QED
      BY <2>3, <2>4, <2>5, Zenon DEF u, RMoves, RZoneInv
  <1>6. CASE RMaintain(z)
    <2> DEFINE t == [r EXCEPT !.timer = FALSE]
    <2>1. RBecomes(z, IF t.loadpending THEN t ELSE SetTimer(ZoneRefresh(t)))
      BY <1>6, Zenon DEF RMaintain
    <2>2. RZoneType(z, t) /\ RZoneRule(z, t) /\ RSame(r, t) /\ t.serial \in {r.serial, 0}
      BY <1>1, Zenon
      DEF RZoneInv, RZoneType, RZoneRule, RSame, RBusy, RDone, RFields, RFlags, RStages
    <2>3. t.loadpending => RAwake(t) /\ t.serial = r.serial
      BY <1>1, Zenon DEF RZoneInv, RZoneRule, RAwake, RFields
    <2> HIDE DEF t
    <2>4. CASE t.loadpending
      <3>1. RForward(r, t)
        BY <1>1, <2>3, <2>4 DEF RForward, RZoneInv, RZoneType
      <3> QED
        BY <2>1, <2>2, <2>3, <2>4, <3>1, Zenon DEF RBecomesKept, RMoves, RZoneInv
    <2>5. CASE ~t.loadpending
      <3>1. RMoves(z, r, SetTimer(ZoneRefresh(t)))
        BY <1>5, <2>2, Zenon
      <3> QED
        BY <2>1, <2>5, <3>1, Zenon DEF RBecomesKept
    <2> QED
      BY <2>4, <2>5, Zenon
  <1>7. CASE RExpire(z)
    <2> DEFINE t == ZoneExpire([r EXCEPT !.timer = FALSE])
    <2>1. RBecomes(z, SetTimer(ZoneRefresh(t)))
      BY <1>7, Zenon DEF RExpire
    <2>2. RZoneType(z, t) /\ RZoneRule(z, t) /\ RSame(r, t) /\ t.serial \in {r.serial, 0}
      BY <1>1
      DEF ZoneExpire, RZoneInv, RZoneType, RZoneRule, RSame, RBusy, RDone, RFields, RFlags, RStages
    <2> HIDE DEF t
    <2> QED
      BY <1>5, <2>1, <2>2, Zenon DEF RBecomesKept
  <1>8. ASSUME NEW t, RZoneType(z, t), RZoneRule(z, t), RSame(r, t), RAwake(t),
               t.serial = r.serial
        PROVE  RMoves(z, r, ZoneRefresh(t))
    <2> DEFINE u == ZoneRefresh(t)
    <2>1. /\ RZoneType(z, u) /\ RZoneRule(z, u) /\ RSame(t, u)
          /\ u.exiting = t.exiting /\ (~t.exiting => u.refresh) /\ u.serial = r.serial
      BY <1>8, ZoneRefreshFacts, SMTT(30)
    <2> HIDE DEF u
    <2>2. RAwake(u) /\ RSame(r, u) /\ RForward(r, u)
      BY <1>8, <2>1 DEF RAwake, RSame, RBusy, RForward, RZoneInv, RZoneType
    <2> QED
      BY <2>1, <2>2, Zenon DEF u, RMoves, RZoneInv
  <1>10. CASE RNotifyRefresh(z)
    <2> DEFINE t == [r EXCEPT !.heard = "none"]
    <2>1. RBecomes(z, ZoneRefresh(t))
      BY <1>10, Zenon DEF RNotifyRefresh
    <2>2. RZoneType(z, t) /\ RZoneRule(z, t) /\ RSame(r, t) /\ RAwake(t) /\ t.serial = r.serial
      BY <1>1, Zenon
      DEF RAwake, RZoneInv, RZoneType, RZoneRule, RSame, RBusy, RDone, RFields, RFlags, RStages
    <2> HIDE DEF t
    <2> QED
      BY <1>8, <2>1, <2>2, Zenon DEF RBecomesKept
  <1>11. CASE RForce(z)
    <2> DEFINE t == [r EXCEPT !.force = TRUE]
    <2>1. RBecomes(z, ZoneRefresh(t))
      BY <1>11, Zenon DEF RForce
    <2>2. RZoneType(z, t) /\ RZoneRule(z, t) /\ RSame(r, t) /\ RAwake(t) /\ t.serial = r.serial
      BY <1>1, Zenon
      DEF RAwake, RZoneInv, RZoneType, RZoneRule, RSame, RBusy, RDone, RFields, RFlags, RStages
    <2> HIDE DEF t
    <2> QED
      BY <1>8, <2>1, <2>2, Zenon DEF RBecomesKept
  <1>12. CASE \E s \in RServers : RNotify(z, s)
    <2>1. PICK s \in RServers : RNotify(z, s)
      BY <1>12, Zenon
    <2> DEFINE t == IF r.refresh THEN [r EXCEPT !.need = TRUE] ELSE [r EXCEPT !.heard = s]
    <2>2. RBecomes(z, t)
      BY <2>1, Zenon DEF RNotify
    <2>3. /\ DOMAIN t = RFields /\ t.need \in BOOLEAN
          /\ \A f \in RFields \ {"need", "heard"} : t[f] = r[f]
      <3>1. r.need \in BOOLEAN
        BY Zenon DEF RZoneInv, RZoneType, RFlags
      <3> QED
        BY <1>1, <3>1, Zenon DEF RFields
    <2> HIDE DEF t
    <2>4. RZoneType(z, t)
      BY <2>3, Zenon DEF RZoneInv, RZoneType, RFields, RFlags
    <2>5. RZoneRule(z, t) /\ RAwake(t) /\ RSame(r, t)
      BY <2>3, Zenon DEF RZoneInv, RZoneRule, RAwake, RSame, RBusy, RDone, RFields
    <2>6. RForward(r, t)
      BY <2>3 DEF RForward, RZoneInv, RZoneType, RFields
    <2> QED
      BY <2>2, <2>4, <2>5, <2>6, Zenon DEF t, RMoves, RZoneInv, RBecomesKept
  <1> QED
    BY <1>2, <1>3, <1>4, <1>6, <1>7, <1>9, <1>10, <1>11, <1>12, Zenon

\* The answer to the SOA query, and the transfer up to its end.
LEMMA TransferSteps ==
  ASSUME HasLeast, NEW z \in RZones, RZoneInv(z, rz[z]), rSerial \in [RServers -> Nat],
         \/ RAnswer(z) \/ RNoAnswer(z) \/ RGotQuota(z)
         \/ RXfrSucceeds(z) \/ RXfrFails(z) \/ RXfrCanceled(z)
  PROVE  RBecomesKept(z)
  <1> DEFINE r == rz[z]
  <1>1. DOMAIN r = RFields /\ Len(RPrimaries[z]) \in Nat \ {0}
    BY PrimariesExist, Zenon DEF RZoneInv, RZoneType
  <1>2. CASE RAnswer(z)
    <2> DEFINE s == [r EXCEPT !.stage = "answered", !.answer = "soa",
                              !.told = rSerial[RServer(z, r)]]
    <2>1. RBecomes(z, s) /\ r.stage = "asking"
      BY <1>2, Zenon DEF RAnswer
    <2>2. RMoves(z, r, s)
      BY <1>1, <2>1
      DEF RMoves, RForward, RZoneInv, RZoneType, RZoneRule, RAwake, RSame, RBusy, RDone, RFields, RFlags, RStages
    <2> QED
      BY <2>1, <2>2, Zenon DEF RBecomesKept
  <1>3. CASE RNoAnswer(z)
    <2>1. PICK how \in {"timeout", "servfail", "refused", "truncated", "bad"} :
             RBecomes(z, [r EXCEPT !.stage = "answered", !.answer = how])
      BY <1>3, Zenon DEF RNoAnswer
    <2>2. r.stage = "asking"
      BY <1>3, Zenon DEF RNoAnswer
    <2>3. RMoves(z, r, [r EXCEPT !.stage = "answered", !.answer = how])
      BY <1>1, <2>2
      DEF RMoves, RForward, RZoneInv, RZoneType, RZoneRule, RAwake, RSame, RBusy, RDone, RFields, RFlags, RStages
    <2> QED
      BY <2>1, <2>3, Zenon DEF RBecomesKept
  <1>4. ASSUME r.stage \in {"granted", "xfer"}
        PROVE  /\ ~r.again /\ ~r.leaving /\ ~RDone(z, r) /\ r.refresh
               /\ RServer(z, r) \in RServers
    <2>1. ~r.again /\ ~r.leaving /\ ~RDone(z, r) /\ r.refresh
      BY <1>4, Zenon DEF RZoneInv, RZoneRule
    <2> QED
      BY <2>1, ServerKnown, Zenon DEF RZoneInv
  <1>5. ASSUME NEW was, r.stage \in {"granted", "xfer"}, RZoneType(z, was),
               was.curr = r.curr, was.again = r.again,
               \A f \in RKept \ {"serial"} : was[f] = r[f], RForward(r, was), NEW result,
               RBecomes(z, XfrDone(z, was, result))
        PROVE  RBecomesKept(z)
    BY <1>4, <1>5, XfrDoneMoves, Zenon DEF RBecomesKept
  <1>6. CASE RGotQuota(z)
    <2>1. r.stage = "granted"
      BY <1>6, Zenon DEF RGotQuota
    <2> DEFINE cleared == RLoaded(r) /\ ~r.force
               s == [r EXCEPT !.stage = "xfer", !.base = r.serial,
                              !.type = XfrType(z, r), !.noixfr = @ /\ ~cleared]
               t == [r EXCEPT !.noixfr = @ /\ ~cleared]
    <2>2. \/ RBecomes(z, XfrDone(z, r, "canceled"))
          \/ RBecomes(z, s)
          \/ RBecomes(z, XfrDone(z, t, "failure"))
      BY <1>6, SMTT(30) DEF RGotQuota
    <2>3. RMoves(z, r, s)
      BY <1>1, <2>1
      DEF RMoves, RForward, RZoneInv, RZoneType, RZoneRule, RAwake, RSame, RBusy, RDone, RFields, RFlags, RStages
    <2>4. RZoneType(z, r) /\ RForward(r, r)
      BY DEF RZoneInv, RZoneType, RForward
    <2>5. /\ RZoneType(z, t) /\ t.curr = r.curr /\ t.again = r.again
          /\ \A f \in RKept \ {"serial"} : t[f] = r[f]
          /\ RForward(r, t)
      BY <1>1 DEF RForward, RZoneInv, RZoneType, RZoneRule, RFields, RFlags, RStages, RKept, RBusy
    <2> HIDE DEF s, t
    <2>6. CASE RBecomes(z, s)
      BY <2>3, <2>6, Zenon DEF RBecomesKept
    <2> QED
      BY <1>5, <2>1, <2>2, <2>4, <2>5, <2>6, SMTT(30)
  <1>7. CASE RXfrSucceeds(z)
    <2> DEFINE new == IF r.type = "ixfr" /\ r.serial = 0 THEN r.serial
                      ELSE rSerial[RServer(z, r)]
               t == [r EXCEPT !.serial = new]
    <2>1. r.stage = "xfer"
      BY <1>7, Zenon DEF RXfrSucceeds
    <2>2. \/ RBecomes(z, XfrDone(z, r, "uptodate"))
          \/ RBecomes(z, XfrDone(z, t, "success")) /\ ~XfrUpToDate(z, r)
      BY <1>7, Zenon DEF RXfrSucceeds
    <2>3. new \in Nat
      BY <2>1, <1>4, Zenon DEF RZoneInv, RZoneType
    <2>6. ASSUME ~XfrUpToDate(z, r), new < r.serial, new # 0
          PROVE  r.force \/ r.type = "axfr"
      <3>1. /\ r.serial \in Nat /\ r.base \in Nat /\ r.serial <= r.base
            /\ rSerial[RServer(z, r)] \in Nat
        BY <2>1, <1>4, Zenon DEF RZoneInv, RZoneType, RZoneRule
      <3> QED
        BY <2>6, <3>1 DEF XfrUpToDate
    <2> HIDE DEF new
    <2>4. /\ RZoneType(z, t) /\ t.curr = r.curr /\ t.again = r.again
          /\ \A f \in RKept \ {"serial"} : t[f] = r[f]
      BY <1>1, <2>3, Zenon DEF RZoneInv, RZoneType, RZoneRule, RFields, RFlags, RStages, RKept, RBusy
    <2>5. RZoneType(z, r) /\ RForward(r, r)
      BY DEF RZoneInv, RZoneType, RForward
    <2>7. t.serial = new
      BY <1>1, Zenon DEF RFields
    <2> HIDE DEF t
    <2>8. ~XfrUpToDate(z, r) => RForward(r, t)
      BY <2>6, <2>7, Zenon DEF RForward
    <2> QED
      BY <1>5, <2>1, <2>2, <2>4, <2>5, <2>8
  <1>8. CASE RXfrFails(z) \/ RXfrCanceled(z)
    <2> DEFINE down == [r EXCEPT !.down = RServer(z, r)]
               gone == [r EXCEPT !.serial = 0]
    <2>1. r.stage = "xfer"
      BY <1>8, Zenon DEF RXfrFails, RXfrCanceled
    <2>2. \/ \E how \in {"failure", "toomany", "badixfr", "canceled"} :
                RBecomes(z, XfrDone(z, r, how))
          \/ RBecomes(z, XfrDone(z, down, "failure"))
          \/ RBecomes(z, XfrDone(z, gone, "badzone"))
      BY <1>8, Zenon DEF RXfrFails, RXfrCanceled
    <2>3. RZoneType(z, r) /\ RForward(r, r)
      BY DEF RZoneInv, RZoneType, RForward
    <2>4. /\ RZoneType(z, down) /\ down.curr = r.curr /\ down.again = r.again
          /\ \A f \in RKept \ {"serial"} : down[f] = r[f]
          /\ RForward(r, down)
      BY <1>1 DEF RForward, RZoneInv, RZoneType, RZoneRule, RFields, RFlags, RStages, RKept, RBusy
    <2>5. /\ RZoneType(z, gone) /\ gone.curr = r.curr /\ gone.again = r.again
          /\ \A f \in RKept \ {"serial"} : gone[f] = r[f]
          /\ RForward(r, gone)
      BY <1>1, Zenon DEF RForward, RZoneInv, RZoneType, RZoneRule, RFields, RFlags, RStages, RKept, RBusy
    <2> HIDE DEF down, gone
    <2> QED
      BY <1>5, <2>1, <2>2, <2>3, <2>4, <2>5
  <1> QED
    BY <1>2, <1>3, <1>6, <1>7, <1>8, Zenon

-----------------------------------------------------------------------------
(***************************************************************************)
(* The steps that may queue a zone for a transfer.                         *)
(***************************************************************************)
RQueues(z, r, s) ==
    /\ RZoneInv(z, [s EXCEPT !.stage = "waiting"])
    /\ DOMAIN s = RFields /\ s.shut = r.shut /\ s.exiting = r.exiting
    /\ s.serial = r.serial
    /\ ~RBusy(r) /\ r.stage # "waiting"

RQueuedKept(z) == \E s : QueueXfrin(z, s) /\ RQueues(z, rz[z], s)

\* A zone whose loop is free and that has asked, or is about to, may wait for quota.
LEMMA MayQueue ==
  ASSUME NEW z \in RZones, NEW r, RZoneInv(z, r), ~r.leaving,
         r.stage \in {"queued", "answered"},
         NEW s, DOMAIN s = RFields, s.curr \in 1..Len(RPrimaries[z]),
         \A f \in RFields \ {"soabefore", "curr", "answer", "told", "stage"} : s[f] = r[f]
  PROVE  RQueues(z, r, s)
  <1>1. Len(RPrimaries[z]) \in Nat \ {0}
    BY PrimariesExist, Zenon
  <1> DEFINE t == [s EXCEPT !.stage = "waiting"]
  <1>2. /\ DOMAIN t = RFields /\ t.stage = "waiting" /\ t.curr = s.curr
        /\ \A f \in RFields \ {"soabefore", "curr", "answer", "told", "stage"} : t[f] = r[f]
    BY Zenon DEF RFields
  <1> HIDE DEF t
  <1>3. RZoneType(z, t)
    BY <1>1, <1>2 DEF RZoneInv, RZoneType, RFields, RFlags, RStages
  <1>4. RZoneRule(z, t) /\ RAwake(t)
    BY <1>1, <1>2 DEF RZoneInv, RZoneType, RZoneRule, RAwake, RDone, RFields, RFlags
  <1>5. s.shut = r.shut /\ s.exiting = r.exiting /\ s.serial = r.serial
    BY Zenon DEF RFields
  <1> QED
    BY <1>3, <1>4, <1>5, Zenon DEF t, RQueues, RZoneInv, RBusy

\* soa_query and the primaries it skips
LEMMA QuerySteps ==
  ASSUME NEW z \in RZones, RZoneInv(z, rz[z]), RSoaQuery(z) \/ RSkipPrimary(z)
  PROVE  RBecomesKept(z) \/ RQueuedKept(z)
  <1> DEFINE r == rz[z]
             n == Len(RPrimaries[z])
  <1>1. DOMAIN r = RFields /\ n \in Nat \ {0} /\ r.curr \in 1..n + 1
    BY PrimariesExist, Zenon DEF RZoneInv, RZoneType
  <1>2. r.stage = "queued" /\ ~r.leaving
    BY Zenon DEF RSoaQuery, RSkipPrimary, RLoopFree
  <1>3. ASSUME NEW s, DOMAIN s = RFields, s.curr \in 1..n,
               \A f \in RFields \ {"curr"} : s[f] = r[f], RAsk(z, s)
        PROVE  RBecomesKept(z) \/ RQueuedKept(z)
    <2>1. CASE QueueXfrin(z, [s EXCEPT !.soabefore = TRUE])
      <3>1. RQueues(z, r, [s EXCEPT !.soabefore = TRUE])
        <4> DEFINE t == [s EXCEPT !.soabefore = TRUE]
        <4>1. /\ DOMAIN t = RFields /\ t.curr \in 1..n
              /\ \A f \in RFields \ {"soabefore", "curr", "answer", "told", "stage"} :
                    t[f] = r[f]
          BY <1>3, Zenon DEF RFields
        <4> HIDE DEF t
        <4> QED
          BY <1>2, <4>1, MayQueue, Zenon DEF t
      <3> QED
        BY <2>1, <3>1, Zenon DEF RQueuedKept
    <2>2. CASE RBecomes(z, [s EXCEPT !.stage = "asking"])
      <3>1. RMoves(z, r, [s EXCEPT !.stage = "asking"])
        BY <1>1, <1>2, <1>3, SMTT(30)
        DEF RMoves, RForward, RZoneInv, RZoneType, RZoneRule, RAwake, RSame, RBusy, RDone, RFields, RFlags, RStages
      <3> QED
        BY <2>2, <3>1, Zenon DEF RBecomesKept
    <2> QED
      BY <1>3, <2>1, <2>2, Zenon DEF RAsk
  <1>4. CASE RSoaQuery(z)
    <2>1. CASE RBecomes(z, [r EXCEPT !.refresh = FALSE, !.stage = "idle"]) /\ r.exiting
      <3>1. RMoves(z, r, [r EXCEPT !.refresh = FALSE, !.stage = "idle"])
        BY <1>1, <1>2, <2>1
        DEF RMoves, RForward, RZoneInv, RZoneType, RZoneRule, RAwake, RSame, RBusy, RDone, RFields, RFlags, RStages
      <3> QED
        BY <2>1, <3>1, Zenon DEF RBecomesKept
    <2>2. CASE RAsk(z, r)
      <3>1. r.curr \in 1..n
        BY <1>1, <1>2 DEF RZoneInv, RZoneRule, RDone
      <3> QED
        BY <1>1, <1>3, <2>2, <3>1, Zenon
    <2> QED
      BY <1>4, <2>1, <2>2, Zenon DEF RSoaQuery
  <1>5. CASE RSkipPrimary(z)
    <2>1. PICK i \in r.curr + 1..n + 1 :
            IF i = n + 1
            THEN RBecomes(z, CancelRefresh([RemoteReset(r, FALSE) EXCEPT !.stage = "idle"]))
            ELSE RAsk(z, [r EXCEPT !.curr = i])
      BY <1>5, Zenon DEF RSkipPrimary
    <2>2. CASE i # n + 1
      <3> DEFINE s == [r EXCEPT !.curr = i]
      <3>1. /\ DOMAIN s = RFields /\ s.curr \in 1..n
            /\ \A f \in RFields \ {"curr"} : s[f] = r[f]
        BY <1>1, <2>2 DEF RFields
      <3> HIDE DEF s
      <3> QED
        BY <1>3, <2>1, <2>2, <3>1, Zenon DEF s
    <2>3. CASE i = n + 1
      <3> DEFINE s == CancelRefresh([RemoteReset(r, FALSE) EXCEPT !.stage = "idle"])
      <3>1. /\ DOMAIN s = RFields
            /\ s.curr = 1 /\ s.stage = "idle" /\ s.refresh = FALSE
            /\ s.settimer = (~r.exiting \/ r.settimer)
            /\ \A f \in RFields \ {"curr", "ok", "stage", "refresh", "settimer"} : s[f] = r[f]
        BY <1>1, Zenon DEF CancelRefresh, SetTimer, RemoteReset, RFields
      <3> HIDE DEF s
      <3>2. RZoneType(z, s)
        <4>1. s.settimer \in BOOLEAN /\ s.refresh \in BOOLEAN
          BY <3>1, Zenon
        <4>2. ASSUME NEW f \in RFlags PROVE s[f] \in BOOLEAN
          <5>1. r[f] \in BOOLEAN
            BY Zenon DEF RZoneInv, RZoneType
          <5>2. f \in RFields \ {"curr", "ok", "stage"}
            BY Zenon DEF RFlags, RFields
          <5> QED
            BY <3>1, <4>1, <5>1, <5>2, Zenon
        <4>3. s.serial \in Nat /\ s.base \in Nat
          BY <3>1, Zenon DEF RZoneInv, RZoneType, RFields
        <4> QED
          BY <1>1, <3>1, <4>2, <4>3 DEF RZoneType, RStages
      <3>3. RZoneRule(z, s) /\ RAwake(s)
        BY <1>1, <1>2, <3>1, ZenonT(30) DEF RZoneInv, RZoneRule, RAwake, RDone, RFields
      <3>4. RSame(r, s) /\ RForward(r, s)
        BY <1>2, <3>1, SMTT(30) DEF RSame, RBusy, RForward, RFields, RZoneInv, RZoneType
      <3> QED
        BY <2>1, <2>3, <3>2, <3>3, <3>4, Zenon DEF s, RBecomesKept, RMoves, RZoneInv
    <2> QED
      BY <2>2, <2>3, Zenon
  <1> QED
    BY <1>4, <1>5, Zenon

\* The fields that refresh_callback may change before it goes on to the next primary
\* or asks this one again.
RScratch == {"answer", "told", "ok", "due", "noedns", "curr"}

\* The next step of a round of queries: another query, or the end of the round.
LEMMA RoundGoesOn ==
  ASSUME NEW z \in RZones, NEW a, RZoneInv(z, a), ~a.leaving, a.stage = "answered",
         ~a.exiting, NEW t, RZoneType(z, t), \A f \in RFields \ RScratch : t[f] = a[f]
  PROVE  /\ ~RDone(z, t) => RMoves(z, a, QueueSoaQuery(t))
         /\ RMoves(z, a, RefreshDone(t))
  <1>1. DOMAIN t = RFields /\ Len(RPrimaries[z]) \in Nat \ {0}
    BY PrimariesExist, Zenon DEF RZoneType
  <1>2. /\ t.exiting = a.exiting /\ t.leaving = a.leaving /\ t.shut = a.shut
        /\ t.stage = a.stage /\ t.refresh = a.refresh /\ t.loading = a.loading
        /\ t.loadpending = a.loadpending /\ t.again = a.again
    BY Zenon DEF RFields, RScratch
  <1>3. a.refresh /\ ~a.loading /\ ~a.loadpending /\ ~a.again /\ ~a.shut
    BY Zenon DEF RZoneInv, RZoneRule
  <1>4. t.serial = a.serial /\ a.serial \in Nat
    BY Zenon DEF RFields, RScratch, RZoneInv, RZoneType
  <1>5. ASSUME ~RDone(z, t) PROVE RMoves(z, a, QueueSoaQuery(t))
    <2> DEFINE s == QueueSoaQuery(t)
    <2>1. /\ DOMAIN s = RFields /\ s.stage = "queued"
          /\ \A f \in RFields \ {"stage"} : s[f] = t[f]
      BY <1>1, <1>2, Zenon DEF QueueSoaQuery, RFields
    <2> HIDE DEF s
    <2>2. RZoneType(z, s)
      BY <2>1 DEF RZoneType, RFields, RFlags, RStages
    <2>3. RZoneRule(z, s) /\ RAwake(s) /\ RSame(a, s)
      BY <1>2, <1>3, <1>5, <2>1, Zenon DEF RZoneRule, RAwake, RSame, RBusy, RDone, RFields
    <2>4. RForward(a, s)
      BY <1>4, <2>1 DEF RForward, RFields
    <2> QED
      BY <2>2, <2>3, <2>4, Zenon DEF s, RMoves, RZoneInv
  <1>6. RMoves(z, a, RefreshDone(t))
    <2> DEFINE s == RefreshDone(t)
    <2>1. /\ DOMAIN s = RFields /\ s.refresh = FALSE /\ s.need = FALSE /\ s.stage = "idle"
          /\ s.due = (t.need \/ t.due) /\ s.settimer = (~t.exiting \/ t.settimer)
          /\ \A f \in RFields \ {"refresh", "need", "due", "stage", "settimer"} : s[f] = t[f]
      BY <1>1, Zenon DEF RefreshDone, SetTimer, RFields
    <2> HIDE DEF s
    <2>2. ASSUME NEW f \in RFlags PROVE s[f] \in BOOLEAN
      <3>1. s.due \in BOOLEAN /\ s.settimer \in BOOLEAN
        BY <2>1, Zenon
      <3>2. t[f] \in BOOLEAN /\ f \in RFields \ {"stage"}
        BY Zenon DEF RZoneType, RFlags, RFields
      <3> QED
        BY <2>1, <3>1, <3>2, Zenon
    <2>3. RZoneType(z, s)
      BY <2>1, <2>2, Zenon DEF RZoneType, RFields, RStages
    <2>4. RZoneRule(z, s) /\ RAwake(s) /\ RSame(a, s)
      <3>1. /\ s.exiting = a.exiting /\ s.leaving = a.leaving /\ s.shut = a.shut
            /\ s.loading = a.loading /\ s.loadpending = a.loadpending /\ s.again = a.again
        BY <1>2, <2>1, Zenon DEF RFields
      <3>2. /\ ~s.refresh /\ s.stage = "idle" /\ s.settimer = (~t.exiting \/ t.settimer)
            /\ t.exiting = a.exiting
        BY <1>2, <2>1, Zenon
      <3> HIDE <2>1
      <3> QED
        BY <1>3, <3>1, <3>2, Zenon DEF RZoneRule, RAwake, RSame, RBusy
    <2>5. RForward(a, s)
      BY <1>4, <2>1 DEF RForward, RFields
    <2> QED
      BY <2>3, <2>4, <2>5, Zenon DEF s, RMoves, RZoneInv
  <1> QED
    BY <1>5, <1>6, Zenon

\* refresh_callback
LEMMA CallbackSteps ==
  ASSUME HasLeast, NEW z \in RZones, RZoneInv(z, rz[z]), RCallback(z)
  PROVE  RBecomesKept(z) \/ RQueuedKept(z)
  <1> DEFINE a == rz[z]
             r == [a EXCEPT !.answer = "none", !.told = 0]
             n == Len(RPrimaries[z])
  <1>1. DOMAIN a = RFields /\ n \in Nat \ {0} /\ a.curr \in 1..n
    BY PrimariesExist DEF RZoneInv, RZoneType, RZoneRule, RDone, RCallback
  <1>2. a.stage = "answered" /\ ~a.leaving
    BY Zenon DEF RCallback, RLoopFree
  <1>3. CASE a.exiting /\ RBecomes(z, [r EXCEPT !.stage = "idle"])
    <2>1. RMoves(z, a, [r EXCEPT !.stage = "idle"])
      BY <1>1, <1>2, <1>3
      DEF RMoves, RForward, RZoneInv, RZoneType, RZoneRule, RAwake, RSame, RBusy, RDone, RFields, RFlags, RStages
    <2> QED
      BY <1>3, <2>1, Zenon DEF RBecomesKept
  <1>4. CASE ~a.exiting /\ RBecomes(z, QueueSoaQuery([r EXCEPT !.noedns = TRUE]))
    <2> DEFINE t == [r EXCEPT !.noedns = TRUE]
    <2>1. /\ RZoneType(z, t) /\ ~RDone(z, t)
          /\ \A f \in RFields \ RScratch : t[f] = a[f]
      <3>1. /\ DOMAIN t = RFields /\ t.curr = a.curr /\ t.noedns = TRUE
            /\ \A f \in RFields \ {"answer", "told", "noedns"} : t[f] = a[f]
        BY <1>1, Zenon DEF RFields
      <3> HIDE DEF t
      <3>2. RZoneType(z, t)
        BY <3>1, ZenonT(30) DEF RZoneInv, RZoneType, RFields, RFlags
      <3> QED
        BY <1>1, <3>1, <3>2 DEF RDone, RFields, RScratch
    <2> HIDE DEF t
    <2>2. RMoves(z, a, QueueSoaQuery(t))
      BY <1>2, <1>4, <2>1, RoundGoesOn, Zenon
    <2> QED
      BY <1>4, <2>2, Zenon DEF t, RBecomesKept
  <1>5. CASE QueueXfrin(z, [r EXCEPT !.soabefore =
                              @ \/ a.answer \in {"timeout", "truncated"}])
    <2> DEFINE t == [r EXCEPT !.soabefore = @ \/ a.answer \in {"timeout", "truncated"}]
    <2>1. /\ DOMAIN t = RFields /\ t.curr \in 1..n
          /\ \A f \in RFields \ {"soabefore", "curr", "answer", "told", "stage"} : t[f] = a[f]
      BY <1>1, Zenon DEF RFields
    <2> HIDE DEF t
    <2>2. RQueues(z, a, t)
      BY <1>2, <2>1, MayQueue, Zenon
    <2> QED
      BY <1>5, <2>2, Zenon DEF t, RQueuedKept
  <1>6. ASSUME NEW t, ~a.exiting, RZoneType(z, t),
               \A f \in RFields \ RScratch : t[f] = a[f], RBecomes(z, NextPrimary(z, t))
        PROVE  RBecomesKept(z)
    <2> DEFINE u == [RemoteNext(z, t) EXCEPT !.noedns = FALSE]
    <2>1. /\ DOMAIN RemoteNext(z, t) = RFields
          /\ \A f \in RFields \ {"curr"} : RemoteNext(z, t)[f] = t[f]
          /\ RemoteNext(z, t).curr \in 1..n + 1
      BY <1>6, RemoteNextFacts, Zenon
    <2>2. RZoneType(z, u) /\ \A f \in RFields \ RScratch : u[f] = a[f]
      BY <1>6, <2>1, Zenon DEF RZoneType, RFields, RFlags, RScratch
    <2>3. RBecomes(z, IF RDone(z, u) THEN RefreshDone(u) ELSE QueueSoaQuery(u))
      BY <1>6, Zenon DEF NextPrimary
    <2> HIDE DEF u
    <2> QED
      BY <1>2, <1>6, <2>2, <2>3, RoundGoesOn, Zenon DEF RBecomesKept
  <1>7. CASE ~a.exiting /\ RBecomes(z, NextPrimary(z, r))
    <2>1. RZoneType(z, r) /\ \A f \in RFields \ RScratch : r[f] = a[f]
      BY <1>1, ZenonT(30) DEF RZoneInv, RZoneType, RFields, RFlags, RScratch
    <2> HIDE DEF r
    <2> QED
      BY <1>6, <1>7, <2>1, Zenon
  <1>8. CASE ~a.exiting /\ RBecomes(z, NextPrimary(z,
                [NothingNew(a) EXCEPT !.answer = "none", !.told = 0]))
    <2> DEFINE t == [NothingNew(a) EXCEPT !.answer = "none", !.told = 0]
    <2>1. RZoneType(z, t) /\ \A f \in RFields \ RScratch : t[f] = a[f]
      BY <1>1, ZenonT(30) DEF NothingNew, RemoteMark, RZoneInv, RZoneType, RFields, RFlags, RScratch
    <2> HIDE DEF t
    <2> QED
      BY <1>6, <1>8, <2>1, Zenon DEF t
  <1> QED
    BY <1>3, <1>4, <1>5, <1>7, <1>8, Zenon DEF RCallback

-----------------------------------------------------------------------------
(* No step takes the serial number of a zone back *)

\* The manager's lists and what becomes of a zone on them do not touch its serial.
RSerialsKept(zones, new) == \A x \in RZones : new[x].serial = zones[x].serial

\* zone_xfrin started leaves the serials alone.
LEMMA StartSerials ==
  ASSUME NEW zones, RZonesInv(zones), NEW waiting, NEW progress, NEW w
  PROVE  RSerialsKept(zones, StartXfrin(zones, waiting, progress, w).zones)
  <1>1. ASSUME NEW x \in RZones
        PROVE  [zones EXCEPT ![w].stage = "granted"][x].serial = zones[x].serial
    <2>1. x \in DOMAIN zones /\ "serial" \in DOMAIN zones[x]
      BY Zenon DEF RZonesInv, RZoneInv, RZoneType, RFields
    <2>2. CASE x = w
      BY <2>1, <2>2, Zenon
    <2>3. CASE x # w
      BY <2>1, <2>3, Zenon
    <2> QED
      BY <2>2, <2>3, Zenon
  <1> QED
    BY <1>1, Zenon DEF StartXfrin, RSerialsKept

\* So does zmgr_resume_xfrs.
LEMMA ResumeSerials ==
  ASSUME NEW zones, RZonesInv(zones), NEW waiting, NEW progress
  PROVE  RSerialsKept(zones, ResumeXfrs(zones, waiting, progress).zones)
  <1> DEFINE able == {i \in 1..Len(waiting) : HasQuota(zones, progress, waiting[i])}
  <1>1. CASE able = {}
    BY <1>1, Zenon DEF ResumeXfrs, RSerialsKept
  <1>2. CASE able # {}
    <2>1. ResumeXfrs(zones, waiting, progress)
             = StartXfrin(zones, waiting, progress, waiting[Min(able)])
      BY <1>2, Zenon DEF ResumeXfrs
    <2> HIDE DEF able
    <2> QED
      BY <2>1, StartSerials, Zenon
  <1> QED
    BY <1>1, <1>2, Zenon

\* A step of one zone that takes its own serial forward takes none back.
LEMMA BecomesForward ==
  ASSUME RZonesInv(rz), NEW z \in RZones, RBecomesKept(z)
  PROVE  \A x \in RZones : RForward(rz[x], rz'[x])
  <1>1. PICK s : RBecomes(z, s) /\ RMoves(z, rz[z], s)
    BY Zenon DEF RBecomesKept
  <1>2. rz'[z] = s /\ \A x \in RZones \ {z} : rz'[x] = rz[x]
    BY <1>1, Zenon DEF RBecomes, RZonesInv
  <1>3. ASSUME NEW x \in RZones PROVE RForward(rz[x], rz'[x])
    <2>1. CASE x = z
      BY <1>1, <1>2, <2>1, Zenon DEF RMoves
    <2>2. CASE x # z
      BY <1>2, <2>2 DEF RForward, RZonesInv, RZoneInv, RZoneType
    <2> QED
      BY <2>1, <2>2, Zenon
  <1> QED
    BY <1>3, Zenon

\* Nor does a step that leaves every serial as it is.
LEMMA KeptForward ==
  ASSUME RZonesInv(rz), RSerialsKept(rz, rz')
  PROVE  \A x \in RZones : RForward(rz[x], rz'[x])
  BY DEF RSerialsKept, RForward, RZonesInv, RZoneInv, RZoneType

\* zone_xfrin queued
LEMMA QueueForward ==
  ASSUME RZonesInv(rz), NEW z \in RZones, RQueuedKept(z)
  PROVE  RSerialsKept(rz, rz')
  <1>1. PICK s : QueueXfrin(z, s) /\ RQueues(z, rz[z], s)
    BY Zenon DEF RQueuedKept
  <1> DEFINE t == [s EXCEPT !.stage = "waiting"]
             zones == [rz EXCEPT ![z] = t]
             queue == Append(rWaiting, z)
  <1>2. rz' = zones \/ rz' = StartXfrin(zones, queue, rProgress, z).zones
    BY <1>1, Zenon DEF QueueXfrin, RManaged
  <1>3. RZoneInv(z, t) /\ t.serial = rz[z].serial
    BY <1>1, Zenon DEF RQueues, RFields
  <1> HIDE DEF t
  <1>4. /\ DOMAIN zones = RZones /\ zones[z] = t
        /\ \A x \in RZones \ {z} : zones[x] = rz[x]
    BY Zenon DEF RZonesInv
  <1> HIDE DEF zones, queue
  <1>5. RZonesInv(zones) /\ RSerialsKept(rz, zones)
    BY <1>3, <1>4, Zenon DEF RZonesInv, RSerialsKept
  <1>6. RSerialsKept(zones, StartXfrin(zones, queue, rProgress, z).zones)
    BY <1>5, StartSerials, Zenon
  <1> QED
    BY <1>2, <1>5, <1>6, Zenon DEF RSerialsKept

\* zone_xfrdone's second half
LEMMA LeaveForward ==
  ASSUME RZonesInv(rz), NEW z \in RZones, RLeave(z)
  PROVE  RSerialsKept(rz, rz')
  <1> DEFINE r == rz[z]
             left == [r EXCEPT !.again = FALSE, !.leaving = FALSE, !.down = "none"]
             next == IF r.again /\ ~r.exiting THEN QueueSoaQuery(left) ELSE left
             m == IF z \in rProgress THEN ResumeXfrs(rz, rWaiting, rProgress \ {z})
                  ELSE [zones |-> rz, waiting |-> rWaiting, progress |-> rProgress]
  <1>1. rz' = [m EXCEPT !.zones[z] = next].zones
    BY Zenon DEF RLeave, RManaged
  <1>2. DOMAIN m = {"zones", "waiting", "progress"}
    BY Zenon DEF ResumeXfrs, StartXfrin
  <1>3. next.serial = r.serial
    <2>1. DOMAIN r = RFields
      BY Zenon DEF RZonesInv, RZoneInv, RZoneType
    <2>2. DOMAIN left = RFields /\ left.serial = r.serial /\ left.exiting = r.exiting
      BY <2>1, Zenon DEF RFields
    <2> HIDE DEF left
    <2> QED
      BY <2>2, Zenon DEF QueueSoaQuery, RFields
  <1>4. RSerialsKept(rz, m.zones)
    <2>1. CASE z \in rProgress
      BY <2>1, ResumeSerials, Zenon
    <2>2. CASE z \notin rProgress
      BY <2>2, Zenon DEF RSerialsKept
    <2> QED
      BY <2>1, <2>2, Zenon
  <1>5. DOMAIN m.zones = RZones
    <2>1. DOMAIN rz = RZones
      BY Zenon DEF RZonesInv
    <2> QED
      BY <2>1, Zenon DEF ResumeXfrs, StartXfrin
  <1> HIDE DEF m, next
  <1>6. rz' = [m.zones EXCEPT ![z] = next]
    BY <1>1, <1>2, Zenon
  <1> QED
    BY <1>3, <1>4, <1>5, <1>6, Zenon DEF RSerialsKept

\* zone_shutdown
LEMMA ShutdownForward ==
  ASSUME RZonesInv(rz), NEW z \in RZones, RShutdown(z)
  PROVE  RSerialsKept(rz, rz')
  <1> DEFINE out == [rz EXCEPT ![z].shut = TRUE, ![z].timer = FALSE,
                               ![z].stage = IF @ = "waiting" THEN "idle" ELSE @]
  <1>1. PICK q, p : rz' = out \/ rz' = ResumeXfrs(out, q, p).zones
    BY Zenon DEF RShutdown, RManaged
  <1>2. DOMAIN out = RZones /\ \A x \in RZones : /\ out[x].serial = rz[x].serial
                                                 /\ "serial" \in DOMAIN out[x]
    <2>1. DOMAIN rz = RZones /\ \A x \in RZones : DOMAIN rz[x] = RFields
      BY Zenon DEF RZonesInv, RZoneInv, RZoneType
    <2> QED
      BY <2>1, Zenon DEF RFields
  <1> HIDE DEF out
  <1>3. rz' = out \/ \E w : rz' = [out EXCEPT ![w].stage = "granted"]
    BY <1>1, Zenon DEF ResumeXfrs, StartXfrin
  <1> QED
    BY <1>2, <1>3 DEF RSerialsKept

\* Every step of the specification: NoRegress, zone by zone.
LEMMA RefreshStepForward ==
  ASSUME HasLeast, RZonesInv(rz), rSerial \in [RServers -> Nat], [RefreshNext]_rvars
  PROVE  \A x \in RZones : RForward(rz[x], rz'[x])
  <1>1. CASE UNCHANGED <<rz, rWaiting, rProgress>>
    BY <1>1, KeptForward, Zenon DEF RSerialsKept
  <1>2. ASSUME NEW z \in RZones,
               \/ RZoneStep(z) \/ RZoneFault(z) \/ RNotifyRefresh(z) \/ RDetach(z)
               \/ \E s \in RServers : RNotify(z, s)
        PROVE  \A x \in RZones : RForward(rz[x], rz'[x])
    <2>1. RZoneInv(z, rz[z]) /\ rSerial \in [RServers -> Nat]
      BY Zenon DEF RZonesInv
    <2>2. CASE \/ RLoadDone(z) \/ RSetTimer(z) \/ RTimeComes(z) \/ RMaintain(z) \/ RExpire(z)
               \/ RNotifyRefresh(z) \/ RForce(z) \/ RDetach(z)
               \/ \E s \in RServers : RNotify(z, s)
      BY <2>1, <2>2, StartSteps, BecomesForward, Zenon
    <2>3. CASE \/ RAnswer(z) \/ RNoAnswer(z) \/ RGotQuota(z)
               \/ RXfrSucceeds(z) \/ RXfrFails(z) \/ RXfrCanceled(z)
      BY <2>1, <2>3, TransferSteps, BecomesForward, Zenon
    <2>4. CASE RSoaQuery(z) \/ RSkipPrimary(z)
      BY <2>1, <2>4, QuerySteps, BecomesForward, QueueForward, KeptForward, Zenon
    <2>5. CASE RCallback(z)
      BY <2>1, <2>5, CallbackSteps, BecomesForward, QueueForward, KeptForward, Zenon
    <2>6. CASE RLeave(z)
      BY <2>6, LeaveForward, KeptForward, Zenon
    <2>7. CASE RShutdown(z)
      BY <2>7, ShutdownForward, KeptForward, Zenon
    <2> QED
      BY <1>2, <2>2, <2>3, <2>4, <2>5, <2>6, <2>7, Zenon DEF RZoneStep, RZoneFault
  <1> QED
    BY <1>1, <1>2, Zenon DEF RefreshNext, rvars, RPublish, RUnreachExpires
=============================================================================
