------------------------------- MODULE Catz -------------------------------
(***************************************************************************)
(* Catalog zones: lib/dns/catz.c and the callbacks of bin/named/server.c.  *)
(*                                                                         *)
(* A new version of a catalog's database starts a timer on the loop; the   *)
(* timer hands the update to a worker thread, which reads the version and  *)
(* merges it into the catalog's entries; the differences become jobs of    *)
(* the main loop, and those jobs add, modify and delete the member zones   *)
(* of the view.  A reconfiguration pauses the loops, not the workers: it   *)
(* marks every catalog inactive, marks the configured ones active again,   *)
(* moves their members to the new view, empties the others, and has every  *)
(* configured catalog read again.                                          *)
(*                                                                         *)
(* A catalog taken out of the configuration and put back is a new object,  *)
(* and a member zone remembers the object that added it.  czObj holds one  *)
(* record for every object ever made, czConf the object a catalog name is  *)
(* looked up to (0: none), czView[i] the zone table of the i-th view.      *)
(*                                                                         *)
(* The table of catalogs and each catalog have a lock.  A merge holds the  *)
(* lock of the catalog it merges into, but lets go of it to ask another    *)
(* catalog for a member; a reconfiguration reads entries under the table's *)
(* lock only.  Where the two meet the process may abort (czAborted).       *)
(***************************************************************************)
EXTENDS UpdateQueue, Sequences, FiniteSets, SequencesExt

CONSTANTS
    CzCatalogs,     \* names of catalog zones
    CzInitials,     \* the sets of them that the first configuration may list
    CzContents,     \* bound: catalog -> what each of its versions may contain
    CzStatic,       \* zones named.conf lists itself
    CzNames,        \* names of member zones
    CzMaxReconf     \* bound: reconfigurations and failed jobs, together

CzVersions(c) == UNION Range(CzContents[c])
CzMembers(c) == UNION { v.members : v \in CzVersions(c) }

\* A unique label stands for one member in each version.
ASSUME CatzAssumption ==
    /\ CzInitials \subseteq SUBSET CzCatalogs \ {{}}
    /\ CzStatic \subseteq CzNames
    /\ CzMaxReconf \in Nat
    /\ \A c \in CzCatalogs : \A v \in CzVersions(c) :
          /\ v.ok \in BOOLEAN
          /\ \A m \in v.members : m.name \in CzNames
          /\ \A m, k \in v.members : m.label = k.label => m = k
          /\ \A o \in v.coos : o.name \in CzNames

VARIABLES
    czObj,      \* the dns_catz_zone_t objects, in the order they were made
    czConf,     \* catzs->zones
    czDb,       \* catalog -> the versions its database has had
    czJobs,     \* the main loop's queue
    czView,     \* the zone tables, one for each configuration
    czNow,      \* catzs->view
    czReconf,   \* where the reconfiguration is
    czFails,    \* the jobs that failed
    czUnserved, \* not in the code: the names a failed job left without a zone
    czAborted   \* an assertion has failed, or freed memory was used

czvars == <<czObj, czConf, czDb, czJobs, czView, czNow, czReconf, czFails, czUnserved,
            czAborted>>
czfaults == <<czFails, czUnserved, czAborted>>

CzObjs == DOMAIN czObj
CzAbsent == [there |-> FALSE, parent |-> 0, opts |-> 0]
CzConfigured == [there |-> TRUE, parent |-> 0, opts |-> 0]
CzEmptyView == [n \in CzNames |-> IF n \in CzStatic THEN CzConfigured ELSE CzAbsent]

\* dns_catz_zone_new.  merged is not in the code: the last version the object
\* took in, for the properties.
CzNew(c) ==
    [name |-> c, active |-> TRUE, q |-> UqNew, entries |-> {}, coos |-> {},
     phase |-> "none", into |-> 0, left |-> {}, toadd |-> {}, tomod |-> {},
     visit |-> {}, owner |-> 0, stale |-> FALSE,
     read |-> [members |-> {}, coos |-> {}, ok |-> TRUE], version |-> 0,
     merged |-> 0]

CzUnpaused == czReconf.phase = "none"
CzCurrent(c) == Len(czDb[c])

\* The references on an object: the table's, a job's, the worker's.
CzReferenced(o) ==
    \/ czConf[czObj[o].name] = o
    \/ czObj[o].phase # "none"
    \/ \E i \in DOMAIN czJobs : czJobs[i].origin = o

CatzInit ==
    /\ \E S \in CzInitials : LET order == SetToSeq(S) IN
          /\ czObj = [i \in DOMAIN order |-> CzNew(order[i])]
          /\ czConf = [c \in CzCatalogs |->
                          IF c \in S THEN CHOOSE i \in DOMAIN order : order[i] = c ELSE 0]
    /\ czDb = [c \in CzCatalogs |-> <<>>]
    /\ czJobs = <<>>
    /\ czView = [i \in 0 .. CzMaxReconf |-> CzEmptyView]
    /\ czNow = 0
    /\ czReconf = [phase |-> "none", to |-> {}]
    /\ czFails = 0 /\ czUnserved = {} /\ czAborted = FALSE

---------------------------------------------------------------------------
\* dns_catz_dbupdate_callback: a version of the catalog's database commits
CzPublish(c) ==
    /\ CzUnpaused
    /\ CzCurrent(c) < Len(CzContents[c])
    /\ \E v \in CzContents[c][CzCurrent(c) + 1] :
          czDb' = [czDb EXCEPT ![c] = Append(@, v)]
    /\ czObj' = IF czConf[c] = 0 THEN czObj
                ELSE [czObj EXCEPT ![czConf[c]].q = UqNotify(@, CzCurrent(c) + 1)]
    /\ UNCHANGED <<czConf, czJobs, czView, czNow, czReconf, czfaults>>

\* dns__catz_timer_cb.  The timer holds no reference and goes with its object.
CzTimer(o) ==
    /\ CzUnpaused
    /\ czObj[o].q.timer
    /\ CzReferenced(o)
    /\ czObj' = IF czObj[o].active
                THEN [czObj EXCEPT ![o].q = UqStart(@), ![o].phase = "queued"]
                ELSE [czObj EXCEPT ![o].q = UqCancel(@)]
    /\ UNCHANGED <<czConf, czDb, czJobs, czView, czNow, czReconf, czfaults>>

\* dns__catz_update_cb looks the catalog up by name and drops the lock.
CzCheck(o) ==
    LET t == czConf[czObj[o].name]
    IN  /\ czObj[o].phase = "queued"
        /\ czReconf.phase # "removing"      \* which has catzs->lock
        /\ czObj' =
              IF t # 0 /\ czObj[t].active
              THEN [czObj EXCEPT ![o].phase = "read", ![o].into = t]
              ELSE [czObj EXCEPT ![o].phase = "done"]
        /\ UNCHANGED <<czConf, czDb, czJobs, czView, czNow, czReconf, czfaults>>

\* The version read is the one the object found holds open, or else the current
\* one; a version without a schema version is not merged.
CzRead(o) ==
    LET t == czObj[o].into
        c == czObj[o].name
        v == IF czObj[t].q.up # 0 THEN czObj[t].q.up ELSE CzCurrent(c)
    IN  /\ czObj[o].phase = "read"
        /\ czObj' =
              IF czDb[c][v].ok
              THEN [czObj EXCEPT ![o].phase = "merge", ![o].version = v,
                                 ![o].read = czDb[c][v]]
              ELSE [czObj EXCEPT ![o].phase = "done", ![o].into = 0]
        /\ UNCHANGED <<czConf, czDb, czJobs, czView, czNow, czReconf, czfaults>>

\* dns__catz_zones_merge has the lock of the object it merges into.
CzMerging(t) ==
    \E w \in CzObjs : czObj[w].phase \in {"walk", "swap"} /\ czObj[w].into = t

\* ... and has destroyed its table of entries and not put the new one in its place.
CzSwapping(t) == \E w \in CzObjs : czObj[w].phase = "swap" /\ czObj[w].into = t

CzLock(o) ==
    /\ czObj[o].phase = "merge"
    /\ ~CzMerging(czObj[o].into)
    /\ czObj' = [czObj EXCEPT ![o].phase = "walk",
                              ![o].left = czObj[o].read.members,
                              ![o].toadd = {}, ![o].tomod = {}]
    /\ UNCHANGED <<czConf, czDb, czJobs, czView, czNow, czReconf, czfaults>>

CzJob(type, m, origin) ==
    [type |-> type, name |-> m.name, opts |-> m.opts, origin |-> origin,
     view |-> czNow]

\* The merge of o has seen member m, which the view serves or not (found): it is new
\* or to be restored, or changed, or as it was, and its old entry is taken out.
CzSeen(o, m, found) ==
    LET t   == czObj[o].into
        old == { e \in czObj[t].entries : e.label = m.label }
        add == old = {} \/ ~found
        mod == ~add /\ \E e \in old : e.opts # m.opts
    IN  [czObj EXCEPT ![o].phase = "walk", ![o].visit = {}, ![o].owner = 0,
                      ![o].left = @ \ {m},
                      ![o].toadd = IF add THEN @ \cup {m} ELSE @,
                      ![o].tomod = IF mod THEN @ \cup {m} ELSE @,
                      ![t].entries = @ \ old]

\* One member of the version that is merged: the body of the first loop.  For a zone
\* of another catalog it lets go of the lock.
CzVisit(o, m) ==
    LET z == czView[czNow][m.name]
    IN  /\ czObj[o].phase = "walk"
        /\ m \in czObj[o].left
        /\ czObj' = IF z.there /\ z.parent \notin {0, czObj[o].into}
                    THEN [czObj EXCEPT ![o].phase = "owner", ![o].visit = {m},
                                       ![o].owner = z.parent]
                    ELSE CzSeen(o, m, z.there)
        /\ UNCHANGED <<czConf, czDb, czJobs, czView, czNow, czReconf, czfaults>>

\* The process is gone, with all it knew.
CzAborts ==
    /\ czAborted' = TRUE
    /\ czObj' = <<>> /\ czJobs' = <<>> /\ czUnserved' = {} /\ czFails' = 0
    /\ czConf' = [c \in CzCatalogs |-> 0] /\ czDb' = [c \in CzCatalogs |-> <<>>]
    /\ czView' = [i \in 0 .. CzMaxReconf |-> CzEmptyView] /\ czNow' = 0
    /\ czReconf' = [phase |-> "none", to |-> {}]

\* Under the lock of the owner: it is asked to let the zone go to this catalog.  A
\* zone has no reference on the catalog it remembers.
CzOwner(o) ==
    LET p == czObj[o].owner
        to == czObj[czObj[o].into].name
    IN  /\ czObj[o].phase = "owner"
        /\ IF ~CzReferenced(p)
           THEN CzAborts
           ELSE /\ ~CzMerging(p)
                /\ czObj' = [czObj EXCEPT ![o].phase = "back"]
                /\ \E m \in czObj[o].visit :
                      czJobs' = IF [name |-> m.name, to |-> to] \in czObj[p].coos
                                THEN Append(czJobs, CzJob("del", m, p)) ELSE czJobs
                /\ UNCHANGED <<czConf, czDb, czView, czNow, czReconf, czfaults>>

\* The merge has its lock back and goes on with the member, in what are the entries now.
CzBack(o) ==
    /\ czObj[o].phase = "back"
    /\ ~CzMerging(czObj[o].into)
    /\ \E m \in czObj[o].visit : czObj' = CzSeen(o, m, TRUE)
    /\ UNCHANGED <<czConf, czDb, czJobs, czView, czNow, czReconf, czfaults>>

CzJobsFor(type, members, origin) ==
    [i \in 1 .. Cardinality(members) |->
        CzJob(type, SetToSeq(members)[i], origin)]

\* The entries of t are destroyed: the merges that are away from t keep an iterator
\* over the table that was.
CzDestroyed(obj, t) ==
    [w \in DOMAIN obj |->
        [obj[w] EXCEPT !.entries = IF w = t THEN {} ELSE @,
                       !.stale = @ \/ (obj[w].into = t /\ obj[w].phase \in {"owner", "back"})]]

\* What is left of the old entries is forgotten, not deleted.
CzDeletesNone(o) ==
    /\ czObj[o].phase = "walk"
    /\ czObj[o].left = {}
    /\ czObj' = [CzDestroyed(czObj, czObj[o].into) EXCEPT ![o].phase = "swap"]
    /\ UNCHANGED <<czConf, czDb, czJobs, czView, czNow, czReconf, czfaults>>

\* The second loop: what is left of the old entries goes, and then their table.  Over
\* a table that was destroyed the loop finds nothing, if it does not crash.
CzDeletes(o) ==
    LET t == czObj[o].into
    IN  /\ czObj[o].phase = "walk"
        /\ czObj[o].left = {}
        /\ czObj[o].stale => czObj[t].entries = {}
        /\ czJobs' = czJobs \o CzJobsFor("del", czObj[t].entries, t)
        /\ czObj' = [CzDestroyed(czObj, t) EXCEPT ![o].phase = "swap"]
        /\ UNCHANGED <<czConf, czDb, czView, czNow, czReconf, czfaults>>

\* It crashes, or the INSIST after it finds entries left.
CzDeletesStale(o) ==
    /\ czObj[o].phase = "walk"
    /\ czObj[o].left = {}
    /\ czObj[o].stale
    /\ CzAborts

\* The rest of the merge: additions and modifications, and the new entries take the
\* place of the old.
CzMerged(o) ==
    LET t == czObj[o].into
    IN  /\ czObj[o].phase = "swap"
        /\ czJobs' = czJobs \o CzJobsFor("add", czObj[o].toadd, t)
                            \o CzJobsFor("mod", czObj[o].tomod, t)
        /\ czObj' = [czObj EXCEPT ![t].entries = czObj[o].read.members,
                                  ![t].coos = czObj[o].read.coos,
                                  ![t].merged = czObj[o].version,
                                  ![o].phase = "done", ![o].into = 0, ![o].version = 0,
                                  ![o].toadd = {}, ![o].tomod = {}, ![o].stale = FALSE,
                                  ![o].read = CzNew(czObj[o].name).read]
        /\ UNCHANGED <<czConf, czDb, czView, czNow, czReconf, czfaults>>

\* The timer is not started again for a version that came meanwhile.
CzDoneStops(o) ==
    /\ CzUnpaused
    /\ czObj[o].phase = "done"
    /\ czObj' = [czObj EXCEPT ![o].q.running = FALSE, ![o].q.up = 0,
                              ![o].phase = "none"]
    /\ UNCHANGED <<czConf, czDb, czJobs, czView, czNow, czReconf, czfaults>>

\* dns__catz_done_cb
CzDone(o) ==
    /\ CzUnpaused
    /\ czObj[o].phase = "done"
    /\ czObj' = [czObj EXCEPT ![o].q = UqDone(@, FALSE), ![o].phase = "none"]
    /\ UNCHANGED <<czConf, czDb, czJobs, czView, czNow, czReconf, czfaults>>

---------------------------------------------------------------------------
\* catz_addmodzone_cb for an addition.  In a view that a reconfiguration has
\* replaced the zone is added all the same, and goes with the view.
CatzAdds(j) == ~czView[j.view][j.name].there

\* catz_addmodzone_cb for a modification, and catz_delzone_cb: only a zone that the
\* catalog itself added.
CatzOwns(j) ==
    LET z == czView[j.view][j.name]
    IN  z.there /\ z.parent # 0 /\ z.parent = j.origin

CatzAddzone(j) ==
    [czView EXCEPT ![j.view][j.name] =
        [there |-> TRUE, parent |-> j.origin, opts |-> j.opts]]

\* configure_zone takes the zone to modify from the current view, whichever view the
\* job was made for.
CatzModzone(j) ==
    IF czView[czNow][j.name].there
    THEN [czView EXCEPT ![czNow][j.name].opts = j.opts] ELSE czView

CatzDelzone(j) == [czView EXCEPT ![j.view][j.name] = CzAbsent]

CzRunJob ==
    /\ CzUnpaused
    /\ czJobs # <<>>
    /\ LET j == Head(czJobs)
       IN  /\ czView' = CASE j.type = "add" /\ CatzAdds(j) -> CatzAddzone(j)
                          [] j.type = "mod" /\ CatzOwns(j) -> CatzModzone(j)
                          [] j.type = "del" /\ CatzOwns(j) -> CatzDelzone(j)
                          [] OTHER -> czView
           /\ czUnserved' = IF j.type = "add" THEN czUnserved \ {j.name} ELSE czUnserved
    /\ czJobs' = Tail(czJobs)
    /\ UNCHANGED <<czObj, czConf, czDb, czNow, czReconf, czFails, czAborted>>

\* catz_addmodzone_cb fails: the zone may not be added to the view or cannot be
\* configured, and is left as it was, or it cannot be loaded and is removed.
CzJobFails ==
    /\ CzUnpaused
    /\ czNow + czFails < CzMaxReconf
    /\ czJobs # <<>>
    /\ LET j == Head(czJobs)
       IN  /\ \/ j.type = "add" /\ CatzAdds(j) /\ UNCHANGED czView
              \/ j.type = "mod" /\ CatzOwns(j) /\ czView' \in {czView, CatzDelzone(j)}
           /\ czUnserved' = czUnserved \cup {j.name}
    /\ czFails' = czFails + 1
    /\ czJobs' = Tail(czJobs)
    /\ UNCHANGED <<czObj, czConf, czDb, czNow, czReconf, czAborted>>

---------------------------------------------------------------------------
\* dns_catz_prereconfig: the new configuration lists the catalogs S.
CzPrereconfig(S) ==
    /\ CzUnpaused
    /\ czNow + czFails < CzMaxReconf
    /\ czReconf' = [phase |-> "add", to |-> S]
    /\ czObj' = [o \in CzObjs |->
                    IF czConf[czObj[o].name] = o
                    THEN [czObj[o] EXCEPT !.active = FALSE] ELSE czObj[o]]
    /\ UNCHANGED <<czConf, czDb, czJobs, czView, czNow, czfaults>>

CzZoneAdded(c) ==
    /\ czReconf.phase = "add"
    /\ c \in czReconf.to
    /\ czReconf' = [czReconf EXCEPT !.to = @ \ {c},
                                    !.phase = IF czReconf.to = {c} THEN "post" ELSE @]

\* configure_catz_zone for a catalog that is new.
CzZoneNew(c) ==
    /\ CzZoneAdded(c)
    /\ czConf[c] = 0
    /\ czObj' = Append(czObj, CzNew(c))
    /\ czConf' = [czConf EXCEPT ![c] = Len(czObj) + 1]
    /\ UNCHANGED <<czDb, czJobs, czView, czNow, czfaults>>

\* What dns_catz_zone_for_each_entry2 may find.  It has catzs->lock and not the lock of
\* the catalog: while a merge takes entries out of the table it may miss any of them.
CzFound(o) ==
    LET names == { e.name : e \in czObj[o].entries }
    IN  IF CzMerging(o) THEN SUBSET names ELSE {names}

\* configure_catz_zone for a catalog that was there: dns_catz_zone_add, and
\* catz_changeview on each of its entries.
CzZoneExists(c) ==
    LET o == czConf[c]
    IN  /\ CzZoneAdded(c)
        /\ o # 0 /\ ~CzSwapping(o)
        /\ czObj' = [czObj EXCEPT ![o].active = TRUE,
                                  ![o].q.failed = @ \/ czObj[o].active]
        /\ \E moved \in CzFound(o) :
              czView' = [czView EXCEPT ![czNow + 1] =
                  [n \in CzNames |-> IF n \in moved /\ ~@[n].there
                                     THEN czView[czNow][n] ELSE @[n]]]
        /\ UNCHANGED <<czConf, czDb, czJobs, czNow, czfaults>>

\* It meets an entry that is being freed, or no table at all.
CzZoneRaces(c) ==
    /\ czReconf.phase = "add"
    /\ c \in czReconf.to
    /\ czConf[c] # 0 /\ CzMerging(czConf[c])
    /\ CzAborts

\* dns_catz_postreconfig on one catalog that is not configured any more: a merge
\* with an empty catalog, under the lock a worker's merge may hold.
CzPostreconfig(c) ==
    LET o == czConf[c]
    IN  /\ czReconf.phase = "post"
        /\ o # 0 /\ ~czObj[o].active
        /\ ~CzMerging(o)
        /\ czJobs' = czJobs \o CzJobsFor("del", czObj[o].entries, o)
        /\ czObj' = [CzDestroyed(czObj, o) EXCEPT ![o].coos = {}]
        /\ czReconf' = [phase |-> "removing", to |-> {c}]
        /\ UNCHANGED <<czConf, czDb, czView, czNow, czfaults>>

\* The lock is released, and a worker may have merged meanwhile: the INSIST that the
\* catalog is empty.  It is taken out of the table.
CzRemoved(c) ==
    LET o == czConf[c]
    IN  /\ czReconf.phase = "removing"
        /\ c \in czReconf.to
        /\ IF czObj[o].entries # {} \/ CzSwapping(o)
           THEN CzAborts
           ELSE /\ czConf' = [czConf EXCEPT ![c] = 0]
                /\ czReconf' = [phase |-> "post", to |-> {}]
                /\ UNCHANGED <<czObj, czDb, czJobs, czView, czNow, czfaults>>

\* The end of load_configuration: the zones are configured in the new view, and
\* configure_zone has each catalog that has a database read again.
CzResume ==
    /\ czReconf.phase = "post"
    /\ \A c \in CzCatalogs : czConf[c] # 0 => czObj[czConf[c]].active
    /\ czNow' = czNow + 1
    /\ czReconf' = [phase |-> "none", to |-> {}]
    /\ czObj' = [o \in CzObjs |->
                    IF czConf[czObj[o].name] = o /\ CzCurrent(czObj[o].name) > 0
                    THEN [czObj[o] EXCEPT !.q = UqNotify(@, CzCurrent(czObj[o].name))]
                    ELSE czObj[o]]
    /\ UNCHANGED <<czConf, czDb, czJobs, czView, czfaults>>

CzWorker(o) ==
    \/ CzCheck(o)
    \/ CzRead(o)
    \/ CzLock(o)
    \/ \E m \in czObj[o].left : CzVisit(o, m)
    \/ CzOwner(o)
    \/ CzBack(o)
    \/ CzDeletes(o) \/ CzDeletesStale(o)
    \/ CzMerged(o)

CzUpdate(o) == CzTimer(o) \/ CzWorker(o) \/ CzDone(o)

CzReconfigure ==
    \/ \E c \in CzCatalogs :
          \/ CzZoneNew(c) \/ CzZoneExists(c) \/ CzZoneRaces(c)
          \/ CzPostreconfig(c) \/ CzRemoved(c)
    \/ CzResume

\* All steps but those that publish a version, fail or begin a reconfiguration.
CzSteps ==
    /\ ~czAborted
    /\ (\E o \in CzObjs : CzUpdate(o)) \/ CzRunJob \/ CzReconfigure

CatzNext ==
    \/ CzSteps
    \/ /\ ~czAborted
       /\ \/ \E c \in CzCatalogs : CzPublish(c)
          \/ CzJobFails
          \/ \E S \in SUBSET CzCatalogs \ {{}} : CzPrereconfig(S)

CatzSpec == CatzInit /\ [][CatzNext]_czvars

---------------------------------------------------------------------------
CatzTypeOK ==
    /\ \A o \in CzObjs :
          /\ czObj[o].name \in CzCatalogs
          /\ czObj[o].phase \in {"none", "queued", "read", "merge", "walk", "owner", "back",
                                "swap", "done"}
          /\ czObj[o].into \in CzObjs \cup {0}
          /\ \A e, f \in czObj[o].entries : e.label = f.label => e = f
          /\ (czObj[o].phase # "none") = czObj[o].q.running
    /\ \A c \in CzCatalogs : czConf[c] \in {0} \cup { o \in CzObjs : czObj[o].name = c }
    /\ czNow \in 0 .. CzMaxReconf
    /\ czFails \in 0 .. CzMaxReconf /\ czUnserved \subseteq CzNames

\* The REQUIREs and INSISTs of the update queue and of dns_catz_zone_add hold: a timer
\* is never started twice, the version fields are NULL where dns_db_currentversion and
\* the timer want them NULL, and no catalog is configured twice.
CatzAsserts == \A o \in CzObjs : ~czObj[o].q.failed

\* Between reconfigurations the last version of every configured catalog is
\* merged or will be: the update that runs or waits has it, even if a
\* reconfiguration made a worker give up.
CatzNotLost ==
    CzUnpaused =>
        \A c \in CzCatalogs : (czConf[c] # 0 /\ CzCurrent(c) > 0) =>
            LET o == czConf[c]
            IN  \/ czObj[o].merged = CzCurrent(c)
                \/ ~czDb[c][CzCurrent(c)].ok
                \/ UqWillSee(czObj[o].q, CzCurrent(c))

CzAtRest ==
    /\ CzUnpaused
    /\ czJobs = <<>>
    /\ \A o \in CzObjs : CzReferenced(o) => ~czObj[o].q.running /\ ~czObj[o].q.timer

CzListed(c) ==
    IF czConf[c] = 0 THEN {} ELSE { e.name : e \in czObj[czConf[c]].entries }

\* Names that one catalog at most can list.
CzUncontested == { n \in CzNames :
    Cardinality({ c \in CzCatalogs : \E m \in CzMembers(c) : m.name = n }) <= 1 }

\* At rest, a member of a configured catalog that no other catalog lists is
\* served, whatever jobs a reconfiguration made for the view it replaced and whatever
\* it failed to move, unless the last job for it failed.
CatzServed ==
    CzAtRest =>
        \A c \in CzCatalogs : \A n \in (CzListed(c) \cap CzUncontested) \ czUnserved :
            czView[czNow][n].there

\* At rest, if nothing was reconfigured, a zone that a catalog added is still
\* listed by it: what leaves the catalog leaves the view.
CatzListed ==
    (CzAtRest /\ czNow = 0) =>
        \A n \in CzNames : \A c \in CzCatalogs :
            (czConf[c] # 0 /\ czView[0][n].there /\ czView[0][n].parent = czConf[c])
                => n \in CzListed(c)

\* Catalogs and member zones fit together: no version of a catalog is forgotten,
\* and what the view serves is what the catalogs list (dns__catz_update_cb,
\* dns__catz_zones_merge).
CatzSound == CatzTypeOK /\ CatzAsserts /\ CatzNotLost /\ CatzServed /\ CatzListed

\* Every configured catalog ends with its last good version merged and every
\* job done, if the process does not abort.
CatzSettles ==
    <>[](~czAborted =>
         /\ CzAtRest
         /\ \A c \in CzCatalogs :
               (czConf[c] # 0 /\ CzCurrent(c) > 0 /\ czDb[c][CzCurrent(c)].ok)
                   => czObj[czConf[c]].merged = CzCurrent(c))

\* Does not hold: the zone keeps the options of the first of two versions that
\* were merged before the main loop ran the first one's job.
\* At rest, a zone a configured catalog owns has the options its entry has.
CatzOptions ==
    (CzAtRest /\ czNow = 0) =>
        \A c \in CzCatalogs : czConf[c] # 0 =>
            \A e \in czObj[czConf[c]].entries :
                (czView[0][e.name].there /\ czView[0][e.name].parent = czConf[c])
                    => czView[0][e.name].opts = e.opts

\* Does not hold: a worker that passed the check of "active" merges into a
\* catalog that a reconfiguration has emptied and dropped.
\* At rest every zone of the view that a catalog added belongs to a catalog that
\* is configured.
CatzNoOrphan ==
    CzAtRest =>
        \A n \in CzNames :
            (czView[czNow][n].there /\ czView[czNow][n].parent # 0)
                => \E c \in CzCatalogs : czConf[c] = czView[czNow][n].parent

\* Does not hold, in four ways.  A worker that passed the check of "active" merges
\* between the merge with an empty catalog and the INSIST of dns_catz_postreconfig.
\* A merge that is asking another catalog for a member comes back to a table that the
\* reconfiguration has destroyed.  A reconfiguration reads the entries of a catalog
\* while a worker merges into it.  A merge asks the catalog that a zone remembers, which
\* may have been freed.
\* "At this moment catz->entries has to be be empty", "Make sure that we have an empty
\* catalog zone": the assertions of dns__catz_zones_merge and dns_catz_postreconfig hold.
CatzNoAbort == ~czAborted
=============================================================================
