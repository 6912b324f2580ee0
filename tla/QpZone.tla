------------------------------- MODULE QpZone -------------------------------
(***************************************************************************)
(* The versions of a zone database (lib/dns/qpzone.c): readers see the     *)
(* version that was current when they opened it while one writer prepares  *)
(* the next, and what no open version can see any more is freed.           *)
(*                                                                         *)
(* A node keeps, for each type, a chain of headers with the newest first.  *)
(* A header belongs to the version ("serial") that added it; no rdata      *)
(* stands for NONEXISTENT; "ignore" is set by a rollback; "heap" says that *)
(* it is in the heap of signatures to renew.  What happens under qpdb->lock*)
(* or under a node lock held for writing is one step, and so is a lookup;  *)
(* closing a version is several steps of its thread, with other threads in *)
(* between.  detachnode holds the node lock for reading only, which two    *)
(* threads may do at a time.                                               *)
(***************************************************************************)
EXTENDS Integers, Sequences, SequencesExt, FiniteSets, FiniteSetsExt, Functions

CONSTANTS QzReaders,     \* threads that read
          QzNodes, QzTypes, QzRdata,
          QzSigTypes,    \* the types that are renewed: RRSIG
          QzBucket,      \* the bucket of the node locks each node is in
          QzLoaded,      \* the data of the zone file: node -> type -> rdata
          QzMaxSerial,   \* versions
          QzMaxWrites,   \* changes in each version
          QzMayEnd       \* whether the database may be destroyed

QzWriter == "writer"

ASSUME QpZoneAssumption ==
    /\ QzWriter \notin QzReaders /\ QzSigTypes \subseteq QzTypes
    /\ QzBucket \in [QzNodes -> Nat] /\ QzLoaded \in [QzNodes -> [QzTypes -> SUBSET QzRdata]]

QzThreads == QzReaders \cup {QzWriter}

VARIABLES qzChain,       \* node -> type -> the headers
          qzNode,        \* node -> [erefs, dirty]
          qzVer,         \* the versions that are allocated, by serial
          qzOpen,        \* open_versions, newest first
          qzCurrent, qzLeast, qzFuture, qzNext,
          qzThread,      \* what each thread holds and is doing
          qzWrites,      \* changes in the version being written
          qzEnd,         \* qpdb_destroy: the buckets still to visit and the inactive ones
          qzActive,      \* qpdb->active
          qzFailed       \* an INSIST did not hold

qzvars == <<qzChain, qzNode, qzVer, qzOpen, qzCurrent, qzLeast, qzFuture, qzNext, qzThread,
            qzWrites, qzEnd, qzActive, qzFailed>>

QzNone == [node |-> "none"]

\* "rds" is the header of a bound rdataset, which holds a reference to its node;
\* the rest are the local variables of a closeversion in progress.
QzIdle == [ver |-> 0, pc |-> "run", rds |-> QzNone, commit |-> FALSE, rollback |-> FALSE,
           serial |-> 0, least |-> 0, changed |-> <<>>, resigned |-> <<>>]

QzBuckets == Range(QzBucket)

\* The records of a version, as version->records counts them.
QzRecords(view) ==
    MapThenSumSet(LAMBDA n : MapThenSumSet(LAMBDA t : Cardinality(view[n][t]), QzTypes), QzNodes)

\* allocate_version.  "view" is what was put into the version, for the properties.
QzAllocate(writer, records, view) ==
    [refs |-> 1, writer |-> writer, changed |-> <<>>, resigned |-> <<>>, records |-> records,
     view |-> view]

\* A database that was just loaded: every header has serial 1.
QpZoneInit ==
    /\ qzChain = [n \in QzNodes |-> [t \in QzTypes |->
                    IF QzLoaded[n][t] = {} THEN <<>>
                    ELSE <<[serial |-> 1, k |-> 1, data |-> QzLoaded[n][t], ignore |-> FALSE,
                            heap |-> t \in QzSigTypes]>>]]
    /\ qzNode = [n \in QzNodes |-> [erefs |-> 0, dirty |-> FALSE]]
    /\ qzVer = (1 :> QzAllocate(FALSE, QzRecords(QzLoaded), QzLoaded))
    /\ qzOpen = <<1>>
    /\ qzCurrent = 1 /\ qzLeast = 1 /\ qzFuture = 0 /\ qzNext = 2
    /\ qzThread = [t \in QzThreads |-> QzIdle]
    /\ qzWrites = 0
    /\ qzEnd = [todo |-> {}, inactive |-> 0, state |-> "no"]
    /\ qzActive = Cardinality(QzBuckets)
    /\ qzFailed = FALSE

-----------------------------------------------------------------------------
(***************************************************************************)
(* Headers and nodes.                                                      *)
(***************************************************************************)
\* The header of a chain that a version sees: the loop of findrdataset.
QzActiveAt(chain, serial) ==
    SelectInSeq(chain, LAMBDA h : h.serial <= serial /\ ~h.ignore)

QzVisible(n, t, serial) ==
    LET i == QzActiveAt(qzChain[n][t], serial)
    IN  IF i = 0 THEN {} ELSE qzChain[n][t][i].data

\* The first header that is not IGNOREd, whatever its serial: what add and
\* subtractrdataset take for the present data.
QzPresent(chain) == SelectInSeq(chain, LAMBDA h : ~h.ignore)

\* clean_zone_node, one type: first the older headers that are IGNOREd or have
\* the serial of the one above, then an IGNOREd top, then all from the first
\* that is older than the least open version.
QzCleaned(chain, least) ==
    LET kept   == FoldLeft(LAMBDA c, h : IF h.ignore \/ h.serial = Last(c).serial THEN c
                                         ELSE Append(c, h), <<Head(chain)>>, Tail(chain))
        pulled == IF Head(kept).ignore THEN Tail(kept) ELSE kept
        old    == {i \in 2..Len(pulled) : pulled[i].serial < least}
    IN  IF chain = <<>> THEN <<>>
        ELSE IF old = {} THEN pulled
        ELSE SubSeq(pulled, 1, Min(old) - 1)

\* The mistake of a cleaning that always clears the dirty mark.
QzDecrefSpotless(s, n, least) ==
    LET last    == s.node[n].erefs = 1
        cleaned == [t \in QzTypes |-> QzCleaned(s.chain[n][t], least)]
        dropped == [s EXCEPT !.node[n].erefs = @ - 1]
    IN  IF ~last \/ ~s.node[n].dirty THEN dropped
        ELSE [dropped EXCEPT !.chain[n] = cleaned,
                             !.node[n].dirty = FALSE]

\* decref, for s == [chain, node].  The node is cleaned when its last external
\* reference goes.
QzDecref(s, n, least) ==
    LET last    == s.node[n].erefs = 1
        cleaned == [t \in QzTypes |-> QzCleaned(s.chain[n][t], least)]
        dropped == [s EXCEPT !.node[n].erefs = @ - 1]
    IN  IF ~last \/ ~s.node[n].dirty THEN dropped
        ELSE [dropped EXCEPT !.chain[n] = cleaned,
                             !.node[n].dirty = \E t \in QzTypes : Len(cleaned[t]) > 1]

\* newref.
QzNewref(nodes, n) == [nodes EXCEPT ![n].erefs = @ + 1]

QzState == [chain |-> qzChain, node |-> qzNode]

\* A thread is inside detachnode with the lock of the bucket held for reading.
QzReading(b) == \E t \in QzThreads : qzThread[t].pc = "check" /\ qzThread[t].serial = b

-----------------------------------------------------------------------------
(***************************************************************************)
(* Readers.                                                                *)
(***************************************************************************)
QzUp == qzEnd.state = "no"

\* currentversion.
QzCurrentversion(t) ==
    /\ QzUp /\ t \in QzReaders /\ qzThread[t].ver = 0 /\ qzThread[t].pc = "run"
    /\ qzVer' = [qzVer EXCEPT ![qzCurrent].refs = @ + 1]
    /\ qzThread' = [qzThread EXCEPT ![t].ver = qzCurrent]
    /\ UNCHANGED <<qzChain, qzNode, qzOpen, qzCurrent, qzLeast, qzFuture, qzNext, qzWrites, qzEnd, qzActive, qzFailed>>

\* attachversion: a reader is given the version of another.
QzAttachversion(t, u) ==
    /\ {t, u} \subseteq QzReaders /\ qzThread[t].ver = 0 /\ qzThread[t].pc = "run"
    /\ qzThread[u].ver # 0 /\ qzThread[u].pc = "run"
    /\ qzVer' = [qzVer EXCEPT ![qzThread[u].ver].refs = @ + 1]
    /\ qzThread' = [qzThread EXCEPT ![t].ver = qzThread[u].ver]
    /\ UNCHANGED <<qzChain, qzNode, qzOpen, qzCurrent, qzLeast, qzFuture, qzNext, qzWrites, qzEnd, qzActive, qzFailed>>

\* findrdataset and bindrdataset.
QzFindrdataset(t, n, ty) ==
    LET i == QzActiveAt(qzChain[n][ty], qzThread[t].ver)
        h == qzChain[n][ty][i]
    IN  /\ qzThread[t].ver # 0 /\ qzThread[t].pc = "run" /\ qzThread[t].rds = QzNone
        /\ i # 0 /\ h.data # {}
        /\ qzThread' = [qzThread EXCEPT ![t].rds = [node |-> n, type |-> ty,
                                                    serial |-> h.serial, k |-> h.k]]
        /\ qzNode' = QzNewref(qzNode, n)
        /\ UNCHANGED <<qzChain, qzVer, qzOpen, qzCurrent, qzLeast, qzFuture, qzNext, qzWrites, qzEnd, qzActive, qzFailed>>

\* The last reference to a node of a bucket makes it inactive, once the
\* database is gone: the end of detachnode.
QzInactive(nodes, b) ==
    IF /\ \A n \in QzNodes : QzBucket[n] = b => nodes[n].erefs = 0
       /\ qzEnd.state # "no" /\ b \notin qzEnd.todo
      THEN qzActive - 1 ELSE qzActive

\* detachnode, when the rdataset is disassociated.  The lock is held for reading
\* until the look at the lock's references, a step of its own; but decref takes
\* it for writing when the node may need cleaning.
QzDetachnode(t) ==
    LET n    == qzThread[t].rds.node
        s    == QzDecref(QzState, n, qzLeast)
        slow == qzNode[n].dirty \/ \A ty \in QzTypes : qzChain[n][ty] = <<>>
    IN  /\ qzThread[t].pc = "run" /\ qzThread[t].rds # QzNone
        /\ slow => ~QzReading(QzBucket[n])
        /\ qzChain' = s.chain /\ qzNode' = s.node
        /\ qzThread' = IF slow THEN [qzThread EXCEPT ![t].rds = QzNone]
                       ELSE [qzThread EXCEPT ![t].rds = QzNone, ![t].pc = "check",
                                             ![t].serial = QzBucket[n]]
        /\ qzActive' = IF slow THEN QzInactive(s.node, QzBucket[n]) ELSE qzActive
        /\ UNCHANGED <<qzVer, qzOpen, qzCurrent, qzLeast, qzFuture, qzNext, qzWrites, qzEnd, qzFailed>>

QzDetached(t) ==
    /\ qzThread[t].pc = "check"
    /\ qzActive' = QzInactive(qzNode, qzThread[t].serial)
    /\ qzThread' = [qzThread EXCEPT ![t].pc = "run", ![t].serial = 0]
    /\ UNCHANGED <<qzChain, qzNode, qzVer, qzOpen, qzCurrent, qzLeast, qzFuture, qzNext,
                   qzWrites, qzEnd, qzFailed>>

-----------------------------------------------------------------------------
(***************************************************************************)
(* The writer.                                                             *)
(***************************************************************************)
\* newversion.  Its callers have one writer at a time, which has finished
\* closing its last version.
QzNewversion ==
    /\ QzUp /\ qzThread[QzWriter] = QzIdle /\ qzNext <= QzMaxSerial
    /\ qzVer' = qzVer @@ (qzNext :> QzAllocate(TRUE, qzVer[qzCurrent].records,
                                              qzVer[qzCurrent].view))
    /\ qzFuture' = qzNext
    /\ qzNext' = qzNext + 1
    /\ qzThread' = [qzThread EXCEPT ![QzWriter].ver = qzNext]
    /\ qzWrites' = 0
    /\ UNCHANGED <<qzChain, qzNode, qzOpen, qzCurrent, qzLeast, qzEnd, qzActive, qzFailed>>

\* A change of the data of node n, type t, from that of header i of the chain (0
\* for none) to "data": add_changed, the new header on top of the chain, the
\* heap and the counts.  "heap" is the heap of signatures: the new header enters
\* it and the old one leaves it for the version's resigned_list, with a reference.
QzPut(n, t, data) ==
    LET v     == qzFuture
        chain == qzChain[n][t]
        i     == QzPresent(chain)
        old   == IF i = 0 THEN {} ELSE chain[i].data
        sig   == t \in QzSigTypes
        leave == sig /\ i # 0 /\ chain[i].heap
        new   == [serial |-> v, data |-> data, ignore |-> FALSE, heap |-> sig /\ data # {},
                  k |-> 1 + Len(SelectSeq(chain, LAMBDA h : h.serial = v))]
        below == IF leave THEN [chain EXCEPT ![i].heap = FALSE] ELSE chain
        ref   == QzNewref(qzNode, n)
    IN  /\ qzChain' = [qzChain EXCEPT ![n][t] = <<new>> \o below]
        /\ qzNode' = [(IF leave THEN QzNewref(ref, n) ELSE ref)
                        EXCEPT ![n].dirty = @ \/ chain # <<>>]
        /\ qzVer' = [qzVer EXCEPT
               ![v].changed = Append(@, [node |-> n, dirty |-> chain # <<>>]),
               ![v].view[n][t] = data,
               ![v].records = @ + Cardinality(data) - Cardinality(old),
               ![v].resigned = IF leave
                                 THEN Append(@, [node |-> n, type |-> t,
                                                 serial |-> chain[i].serial, k |-> chain[i].k])
                                 ELSE @]
        /\ qzFailed' = (qzFailed \/ (chain # <<>> /\ v < Head(chain).serial))

\* add_changed alone: a change that turns out to be none leaves its record.
QzPutNothing(n) ==
    /\ qzNode' = QzNewref(qzNode, n)
    /\ qzVer' = [qzVer EXCEPT ![qzFuture].changed = Append(@, [node |-> n, dirty |-> FALSE])]
    /\ UNCHANGED <<qzChain, qzFailed>>

\* The writer's version is open, and no reader has the node's lock.
QzWriting(n) ==
    /\ qzFuture # 0 /\ qzThread[QzWriter].pc = "run" /\ qzWrites < QzMaxWrites[qzFuture]
    /\ ~QzReading(QzBucket[n])
    /\ qzWrites' = qzWrites + 1
    /\ UNCHANGED <<qzOpen, qzCurrent, qzLeast, qzFuture, qzNext, qzThread, qzEnd, qzActive>>

QzPresentData(n, t) ==
    LET i == QzPresent(qzChain[n][t]) IN IF i = 0 THEN {} ELSE qzChain[n][t][i].data

\* addrdataset with DNS_DBADD_MERGE: the union with the present data.
QzAddrdataset(n, t, data) ==
    /\ QzWriting(n)
    /\ IF data \subseteq QzPresentData(n, t) THEN QzPutNothing(n)
       ELSE QzPut(n, t, QzPresentData(n, t) \cup data)

\* subtractrdataset.
QzSubtractrdataset(n, t, data) ==
    /\ QzWriting(n)
    /\ IF data \cap QzPresentData(n, t) = {} THEN QzPutNothing(n)
       ELSE QzPut(n, t, QzPresentData(n, t) \ data)

-----------------------------------------------------------------------------
(***************************************************************************)
(* closeversion.                                                           *)
(***************************************************************************)
\* The reference count, before the lock is taken.
QzClose(t, commit) ==
    LET v == qzThread[t].ver
    IN  /\ qzThread[t].pc = "run" /\ v # 0 /\ (commit => t = QzWriter)
        /\ qzVer' = [qzVer EXCEPT ![v].refs = @ - 1]
        /\ qzThread' = [qzThread EXCEPT
              ![t] = IF qzVer[v].refs > 1 THEN [@ EXCEPT !.ver = 0]
                     ELSE [@ EXCEPT !.pc = "close", !.commit = commit]]
        /\ UNCHANGED <<qzChain, qzNode, qzOpen, qzCurrent, qzLeast, qzFuture, qzNext, qzWrites, qzEnd, qzActive, qzFailed>>

\* What a closing thread takes out of the lock: the changed records and the
\* headers off the heap that it has to release.
QzReleases(t, changed, resigned, rollback, least) ==
    LET done == changed = <<>> /\ resigned = <<>>
        me   == qzThread[t]
    IN  qzThread' = [qzThread EXCEPT ![t] =
           IF done THEN [QzIdle EXCEPT !.rds = me.rds]
           ELSE [me EXCEPT !.pc = "clean", !.ver = 0, !.serial = me.ver, !.commit = FALSE,
                           !.rollback = rollback, !.least = least,
                           !.changed = changed, !.resigned = resigned]]

QzUnlinked(open, v) == SelectSeq(open, LAMBDA x : x # v)

\* The mistake of a commit that releases what older versions may still see.
QzCommitReleases ==
    LET v     == qzThread[QzWriter].ver
        old   == qzCurrent
        gone  == qzVer[old].refs = 1
        open  == IF gone THEN QzUnlinked(qzOpen, old) ELSE qzOpen
        least == open = <<>>                            \* v becomes the least version
        clean == qzVer[v].changed
        keep  == <<>>
        mine  == [qzVer[v] EXCEPT !.refs = 1, !.writer = FALSE, !.resigned = <<>>,
                     !.changed = IF gone THEN keep \o qzVer[old].changed ELSE keep]
    IN  /\ qzThread[QzWriter].pc = "close" /\ qzThread[QzWriter].commit
        /\ qzVer' = IF gone THEN [x \in DOMAIN qzVer \ {old} |-> IF x = v THEN mine ELSE qzVer[x]]
                    ELSE [qzVer EXCEPT ![v] = mine, ![old].refs = @ - 1]
        /\ qzOpen' = <<v>> \o open
        /\ qzLeast' = IF least THEN v ELSE qzLeast
        /\ qzCurrent' = v
        /\ qzFuture' = 0
        /\ QzReleases(QzWriter, IF least THEN qzVer[v].changed ELSE clean,
                      qzVer[v].resigned, FALSE, qzLeast')
        /\ qzFailed' = \/ qzFailed \/ v # qzFuture \/ qzVer[v].refs # 0
                       \/ gone /\ old = qzLeast /\ qzVer[old].changed # <<>>
        /\ UNCHANGED <<qzChain, qzNode, qzNext, qzWrites, qzEnd, qzActive>>

\* The part under the lock, for a commit.  The database's own reference moves
\* from the old current version to the new one.
QzCommit ==
    LET v     == qzThread[QzWriter].ver
        old   == qzCurrent
        gone  == qzVer[old].refs = 1
        open  == IF gone THEN QzUnlinked(qzOpen, old) ELSE qzOpen
        least == open = <<>>                            \* v becomes the least version
        clean == SelectSeq(qzVer[v].changed, LAMBDA c : ~c.dirty)
        keep  == IF least THEN <<>> ELSE SelectSeq(qzVer[v].changed, LAMBDA c : c.dirty)
        mine  == [qzVer[v] EXCEPT !.refs = 1, !.writer = FALSE, !.resigned = <<>>,
                     !.changed = IF gone THEN keep \o qzVer[old].changed ELSE keep]
    IN  /\ qzThread[QzWriter].pc = "close" /\ qzThread[QzWriter].commit
        /\ qzVer' = IF gone THEN [x \in DOMAIN qzVer \ {old} |-> IF x = v THEN mine ELSE qzVer[x]]
                    ELSE [qzVer EXCEPT ![v] = mine, ![old].refs = @ - 1]
        /\ qzOpen' = <<v>> \o open
        /\ qzLeast' = IF least THEN v ELSE qzLeast
        /\ qzCurrent' = v
        /\ qzFuture' = 0
        /\ QzReleases(QzWriter, IF least THEN qzVer[v].changed ELSE clean,
                      qzVer[v].resigned, FALSE, qzLeast')
        /\ qzFailed' = \/ qzFailed \/ v # qzFuture \/ qzVer[v].refs # 0
                       \/ gone /\ old = qzLeast /\ qzVer[old].changed # <<>>
        /\ UNCHANGED <<qzChain, qzNode, qzNext, qzWrites, qzEnd, qzActive>>

\* The part under the lock, for a writer that does not commit.
QzRollback ==
    LET v == qzThread[QzWriter].ver
    IN  /\ qzThread[QzWriter].pc = "close" /\ ~qzThread[QzWriter].commit
        /\ qzVer' = Restrict(qzVer, DOMAIN qzVer \ {v})
        /\ qzFuture' = 0
        /\ QzReleases(QzWriter, qzVer[v].changed, qzVer[v].resigned, TRUE, qzLeast)
        /\ UNCHANGED <<qzChain, qzNode, qzOpen, qzCurrent, qzLeast, qzNext, qzWrites,
                       qzEnd, qzActive, qzFailed>>

\* The part under the lock, for the last reader of a version.  That version is
\* not the current one, to which the database has a reference.
QzLastReader(t) ==
    LET v       == qzThread[t].ver
        i       == CHOOSE j \in 1..Len(qzOpen) : qzOpen[j] = v
        greater == IF i = 1 THEN qzCurrent ELSE qzOpen[i - 1]
        least   == v = qzLeast
    IN  /\ t \in QzReaders /\ qzThread[t].pc = "close"
        /\ qzVer' = [x \in DOMAIN qzVer \ {v} |->
                       IF x # greater THEN qzVer[x]
                       ELSE [qzVer[x] EXCEPT
                               !.changed = IF least THEN <<>> ELSE @ \o qzVer[v].changed]]
        /\ qzOpen' = QzUnlinked(qzOpen, v)
        /\ qzLeast' = IF least THEN greater ELSE qzLeast
        /\ QzReleases(t, IF least THEN qzVer[greater].changed ELSE <<>>, <<>>, FALSE, qzLeast')
        /\ qzFailed' = \/ qzFailed \/ v = qzCurrent \/ v >= greater
                       \/ least /\ qzVer[v].changed # <<>>
        /\ UNCHANGED <<qzChain, qzNode, qzCurrent, qzFuture, qzNext, qzWrites, qzEnd,
                       qzActive>>

\* rollback_node.
QzRolledBack(s, n, serial) ==
    LET hit == \E t \in QzTypes : \E i \in 1..Len(s.chain[n][t]) : s.chain[n][t][i].serial = serial
    IN  [s EXCEPT !.chain[n] = [t \in QzTypes |-> [i \in 1..Len(s.chain[n][t]) |->
                     [s.chain[n][t][i] EXCEPT !.ignore = @ \/ s.chain[n][t][i].serial = serial]]],
                  !.node[n].dirty = @ \/ hit]

\* One header of the resigned list: a rollback puts it back into the heap.
QzReleaseResigned(t) ==
    LET me == qzThread[t]
        r  == Head(me.resigned)
        i  == SelectInSeq(qzChain[r.node][r.type], LAMBDA h : h.serial = r.serial /\ h.k = r.k)
        h  == qzChain[r.node][r.type][i]
        back == me.rollback /\ ~h.ignore
        s  == QzDecref([QzState EXCEPT !.chain[r.node][r.type][i].heap = @ \/ back],
                       r.node, me.least)
    IN  /\ me.pc = "clean" /\ me.resigned # <<>> /\ ~QzReading(QzBucket[r.node])
        /\ qzChain' = s.chain /\ qzNode' = s.node
        /\ qzThread' = [qzThread EXCEPT ![t] =
              IF Len(me.resigned) = 1 /\ me.changed = <<>> THEN [QzIdle EXCEPT !.rds = me.rds]
              ELSE [me EXCEPT !.resigned = Tail(@)]]
        /\ qzFailed' = (qzFailed \/ i = 0 \/ (back /\ h.heap))
        /\ UNCHANGED <<qzVer, qzOpen, qzCurrent, qzLeast, qzFuture, qzNext, qzWrites,
                       qzEnd, qzActive>>

\* One changed record.
QzReleaseChanged(t) ==
    LET me == qzThread[t]
        n  == Head(me.changed).node
        s  == QzDecref(IF me.rollback THEN QzRolledBack(QzState, n, me.serial) ELSE QzState,
                       n, me.least)
    IN  /\ me.pc = "clean" /\ me.resigned = <<>> /\ me.changed # <<>>
        /\ ~QzReading(QzBucket[n])
        /\ qzChain' = s.chain /\ qzNode' = s.node
        /\ qzThread' = [qzThread EXCEPT ![t] =
              IF Len(me.changed) = 1 THEN [QzIdle EXCEPT !.rds = me.rds]
              ELSE [me EXCEPT !.changed = Tail(@)]]
        /\ UNCHANGED <<qzVer, qzOpen, qzCurrent, qzLeast, qzFuture, qzNext, qzWrites,
                       qzEnd, qzActive, qzFailed>>

-----------------------------------------------------------------------------
(***************************************************************************)
(* qpdb_destroy, when the last reference to the database is gone: no       *)
(* version is open any more, but rdatasets may still be bound.             *)
(***************************************************************************)
QzDestroy ==
    /\ QzMayEnd /\ QzUp
    /\ \A t \in QzThreads : qzThread[t].ver = 0 /\ qzThread[t].pc # "clean"
    /\ qzEnd' = [todo |-> QzBuckets, inactive |-> 0, state |-> "destroy"]
    /\ UNCHANGED <<qzChain, qzNode, qzVer, qzOpen, qzCurrent, qzLeast, qzFuture, qzNext,
                   qzThread, qzWrites, qzActive, qzFailed>>

\* One bucket, under its lock for writing: exiting is set.
QzDestroyBucket(b) ==
    LET idle == \A n \in QzNodes : QzBucket[n] = b => qzNode[n].erefs = 0
    IN  /\ b \in qzEnd.todo /\ \A x \in qzEnd.todo : b <= x /\ ~QzReading(b)
        /\ qzEnd' = [qzEnd EXCEPT !.todo = @ \ {b}, !.inactive = @ + IF idle THEN 1 ELSE 0]
        /\ UNCHANGED <<qzChain, qzNode, qzVer, qzOpen, qzCurrent, qzLeast, qzFuture, qzNext,
                       qzThread, qzWrites, qzActive, qzFailed>>

QzDestroyed ==
    /\ qzEnd.state = "destroy" /\ qzEnd.todo = {}
    /\ qzEnd' = [qzEnd EXCEPT !.state = "done"]
    /\ qzActive' = qzActive - qzEnd.inactive
    /\ UNCHANGED <<qzChain, qzNode, qzVer, qzOpen, qzCurrent, qzLeast, qzFuture, qzNext,
                   qzThread, qzWrites, qzFailed>>

-----------------------------------------------------------------------------
QzReader(t) ==
    \/ QzCurrentversion(t) \/ QzDetachnode(t) \/ QzDetached(t)
    \/ QzClose(t, FALSE) \/ QzLastReader(t) \/ QzReleaseChanged(t)
    \/ \E u \in QzReaders : QzAttachversion(t, u)
    \/ \E n \in QzNodes, ty \in QzTypes : QzFindrdataset(t, n, ty)

QzWrite ==
    \/ QzNewversion \/ QzClose(QzWriter, TRUE) \/ QzClose(QzWriter, FALSE)
    \/ QzCommit \/ QzRollback \/ QzReleaseResigned(QzWriter) \/ QzReleaseChanged(QzWriter)
    \/ \E n \in QzNodes, ty \in QzTypes : \E r \in QzRdata :
          QzAddrdataset(n, ty, {r}) \/ QzSubtractrdataset(n, ty, {r})

QzEnding == QzDestroy \/ (\E b \in QzBuckets : QzDestroyBucket(b)) \/ QzDestroyed

QpZoneNext == QzWrite \/ QzEnding \/ \E t \in QzReaders : QzReader(t)

QpZoneSpec == QpZoneInit /\ [][QpZoneNext]_qzvars

-----------------------------------------------------------------------------
QpZoneTypeOK ==
    /\ \A n \in QzNodes : qzNode[n].erefs \in Nat /\ qzNode[n].dirty \in BOOLEAN
    /\ \A v \in DOMAIN qzVer : qzVer[v].refs \in Nat /\ qzVer[v].records \in Nat
    /\ ToSet(qzOpen) \cup {qzFuture} = DOMAIN qzVer \cup {qzFuture}
    /\ \A t \in QzThreads : qzThread[t].pc \in {"run", "close", "clean", "check"}

\* Snapshot isolation: whoever has a version open finds in it, at every node and
\* type, what was in it when it was committed (or what the writer put there so
\* far), whatever was committed, rolled back and cleaned since.
QzSnapshot ==
    \A t \in QzThreads :
       LET v == qzThread[t].ver
       IN  v # 0 /\ qzThread[t].pc = "run" =>
             \A n \in QzNodes, ty \in QzTypes : QzVisible(n, ty, v) = qzVer[v].view[n][ty]

\* No INSIST of add, resigninsert and closeversion fails.
QzAsserts == ~qzFailed

\* A bound rdataset's header is never freed under it.
QzBoundLives ==
    \A t \in QzThreads :
       LET r == qzThread[t].rds
       IN  r # QzNone => \E i \in 1..Len(qzChain[r.node][r.type]) :
              /\ qzChain[r.node][r.type][i].serial = r.serial
              /\ qzChain[r.node][r.type][i].k = r.k

\* The least serial is that of the oldest open version, and no cleanup waits for
\* it: what it changed is released already.
QzLeastIsOldest ==
    /\ qzLeast = Last(qzOpen)
    /\ qzVer[qzLeast].changed = <<>>
    /\ \A i \in 1..Len(qzOpen) - 1 : qzOpen[i] > qzOpen[i + 1]

\* Nothing is left behind for good: a node with a header below another is dirty,
\* so that its next decref cleans it, and what a rollback IGNOREd is there only
\* while the node is referenced ("When the reference count goes to zero, these
\* rdatasets will be cleaned up").  A thread that closes a version with a least
\* serial that is stale by then may be the last to let go of the node and leave
\* the older headers to the next decref.
QzNoGarbage ==
    \A n \in QzNodes, ty \in QzTypes :
       /\ Len(qzChain[n][ty]) > 1 => qzNode[n].dirty
       /\ (\E i \in 1..Len(qzChain[n][ty]) : qzChain[n][ty][i].ignore) => qzNode[n].erefs > 0

\* Each version counts its records right, the one being written included.
QzCounts == \A v \in DOMAIN qzVer : qzVer[v].records = QzRecords(qzVer[v].view)

\* While nothing is being written or closed, the signatures in the current
\* version are in the heap, and of the others only those a rollback IGNOREd.
QzHeap ==
    qzThread[QzWriter].pc = "run" /\ qzFuture = 0 =>
      \A n \in QzNodes, ty \in QzSigTypes :
         \A i \in 1..Len(qzChain[n][ty]) :
            LET h == qzChain[n][ty][i]
            IN  ~h.ignore => (h.heap <=> i = QzActiveAt(qzChain[n][ty], qzCurrent) /\ h.data # {})

\* The database is freed only when none of its nodes is in use.
QzFreedLast == qzEnd.state = "done" /\ qzActive <= 0 => \A n \in QzNodes : qzNode[n].erefs = 0

\* What a reader was given stays: the version it opened (attachversion), and the
\* headers its rdatasets are bound to (bindrdataset), while others add, commit,
\* roll back and clean.
QzReadersSafe == QzSnapshot /\ QzBoundLives

\* What add, closeversion and decref keep beside the data is right: least_serial,
\* dirty nodes, record counts and the heap of signatures.
QzTidy ==
    QpZoneTypeOK /\ QzAsserts /\ QzLeastIsOldest /\ QzNoGarbage /\ QzCounts /\ QzHeap
=============================================================================
