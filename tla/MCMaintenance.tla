--------------------------- MODULE MCMaintenance ----------------------------
(***************************************************************************)
(* Instances for TLC of what maintains zones.  The components have no      *)
(* state in common, so a run takes several of them: each initial state     *)
(* picks one, the subject, and the steps are the steps of that component.  *)
(***************************************************************************)
EXTENDS QpZone, Notify, Refresh, Rpz, Catz

CONSTANTS
  Subjects   \* the components of a run

VARIABLE subject

MaintenanceVars == <<subject, qzvars, nfvars, rvars, rpzvars, czvars>>

----------------------------------------------------------------------------
(* The zone database: one bucket, and one record of each type at the start. *)

MCBucket == [n \in QzNodes |-> 1]
MCLoaded == [n \in QzNodes |-> [t \in QzTypes |-> {1}]]

\* Two changes in the first version that is written, one in the others.
MCWrites == [v \in 2..QzMaxSerial |-> IF v = 2 THEN 2 ELSE 1]

----------------------------------------------------------------------------
(* NOTIFY: a server that is also the address of a name server. *)

MCAlsoNotify == <<"a">>
MCNsNames == <<"ns">>
MCNsAddrs == "ns" :> <<"a">>

\* A configuration that sets one event per tick, and one that sets two.
MCRates == {[l \in Limiters |-> p] : p \in {1, 2}}

----------------------------------------------------------------------------
(* Refresh: zone z has two primaries, zone y the first of them. *)

MCPrimaries == [z \in RZones |-> IF z = "y" THEN <<"p">> ELSE <<"p", "q">>]
MCTransfers == [s \in RServers |-> IF s = "p" THEN 1 ELSE 2]

----------------------------------------------------------------------------
(* Response policy: two policy zones with two contents each. *)

OnIp(bits) == [type |-> "ip", at |-> bits]
OnName(labels) == [type |-> "name", at |-> labels]
Below(labels) == [type |-> "wild", at |-> labels]

MCPolicies ==
  [z \in RpzZones |->
     IF z = 0
     THEN {{OnIp(<<1>>), Below(<<7>>)}, {OnIp(<<1, 0, 1>>), OnName(<<7>>), Below(<<7>>)}}
     ELSE {{OnIp(<<1, 0>>), OnIp(<<1, 0, 0>>)},
           {OnIp(<<1, 0>>), OnIp(<<1, 0, 1>>), OnIp(<<0, 1>>)}}]

MCAddrs == {<<1, 0, 0>>, <<1, 0, 1>>, <<1, 1, 0>>, <<0, 1, 1>>}
MCQnames == {<<7>>, <<7, 8>>}

----------------------------------------------------------------------------
(* Catalogs A and B: member n moves from A to B, m changes its options. *)

Member(label, name, opts) == [label |-> label, name |-> name, opts |-> opts]
Catalog(members, coos) == [members |-> members, coos |-> coos, ok |-> TRUE]

Both == Catalog({Member(1, "m", 1), Member(2, "n", 1)}, {})
Moved == Catalog({Member(1, "m", 2)}, {[name |-> "n", to |-> "B"]})
Broken == [Catalog({}, {}) EXCEPT !.ok = FALSE]

MCCatalogs ==
     "A" :> <<{Both}, {Moved}>>
  @@ "B" :> <<{Catalog({Member(3, "n", 1)}, {}), Broken}>>

MCInitials == {{"A"}, {"A", "B"}}

----------------------------------------------------------------------------
\* A component that is not the subject is in one of its initial states.
Resting(name, what, choices) == subject = name \/ what = CHOOSE c \in choices : TRUE

MaintenanceInit ==
  /\ subject \in Subjects
  /\ QpZoneInit /\ NotifyInit /\ RefreshInit /\ RpzInit /\ CatzInit
  /\ Resting("catz", {c \in CzCatalogs : czConf[c] # 0}, CzInitials)
  /\ Resting("refresh", rz, [RZones -> {RNew(p) : p \in BOOLEAN}])

MaintenanceNext ==
  /\ UNCHANGED subject
  /\ \/ /\ subject = "qpzone" /\ QpZoneNext
        /\ UNCHANGED <<nfvars, rvars, rpzvars, czvars>>
     \/ /\ subject = "notify" /\ NotifyNext
        /\ UNCHANGED <<qzvars, rvars, rpzvars, czvars>>
     \/ /\ subject = "refresh" /\ RefreshNext
        /\ UNCHANGED <<qzvars, nfvars, rpzvars, czvars>>
     \/ /\ subject = "rpz" /\ RpzNext
        /\ UNCHANGED <<qzvars, nfvars, rvars, czvars>>
     \/ /\ subject = "catz" /\ CatzNext
        /\ UNCHANGED <<qzvars, nfvars, rvars, rpzvars>>

MaintenanceSpec == MaintenanceInit /\ [][MaintenanceNext]_MaintenanceVars

----------------------------------------------------------------------------
(***************************************************************************)
(* Fairness.  A loop runs what is posted to it and a pool its workers, a   *)
(* timer that is set fires, and the network reports on what was sent, if   *)
(* only that it timed out.  Faults, new versions, NOTIFYs received and     *)
(* reconfigurations need not happen; one that began is finished.           *)
(***************************************************************************)
NotifyFairness ==
  /\ WF_nfvars(subject = "notify" /\ NfMark)
  /\ WF_nfvars(subject = "notify" /\ NfZoneLoop)
  /\ WF_nfvars(subject = "notify" /\ NfManagerLoop)
  /\ WF_nfvars(subject = "notify" /\ NfAnswers)

RefreshFairness ==
  /\ \A z \in RZones :
       /\ WF_rvars(subject = "refresh" /\ RZoneStep(z))
       /\ WF_rvars(subject = "refresh" /\ RNotifyRefresh(z))
  /\ \A s \in RServers : WF_rvars(subject = "refresh" /\ RUnreachExpires(s))

\* Weak fairness of RpzZoneRuns, with "enabled" written out.
RpzFairness ==
  \A z \in RpzZones : <>[](subject = "rpz" /\ RpzBusy(z)) => []<><<RpzZoneRuns(z)>>_rpzvars

CatzFairness == WF_czvars(subject = "catz" /\ CzSteps)

MaintenanceFairSpec ==
  MaintenanceSpec /\ NotifyFairness /\ RefreshFairness /\ RpzFairness /\ CatzFairness

\* Every address acknowledges the last serial in the end.
NfEventuallyTold == <>[](subject = "notify" => NfAllTold)

\* A zone catches up with the newest of its primaries in the end, with no NOTIFY
\* to help it, once the faults are over.
CatchesUp == <>[](subject = "refresh" => RUpToDate)
=============================================================================
