----------------------------- MODULE ZoneStore -----------------------------
(***************************************************************************)
(* How a dynamic zone is kept on disk: updates are written to the journal  *)
(* and then committed to the database (lib/ns/update.c), the zone is       *)
(* dumped to its master file from time to time, and after a dump the       *)
(* journal is compacted (lib/dns/zone.c, lib/dns/journal.c).  Updates, the *)
(* end of a dump and the compaction run one at a time on the zone's loop;  *)
(* the dump itself runs on a worker thread.  The process may stop between  *)
(* any two writes, and at a restart loads the master file and rolls the    *)
(* journal forward.  What is written is taken to reach the disk in order.  *)
(* The changes of a secondary zone come by transfers (module Secondary).   *)
(***************************************************************************)
EXTENDS Journal

CONSTANTS MaxVersion,   \* bound on the versions of the zone
          Sizes,        \* sizes of a transaction, in units
          Scenarios     \* environments, chosen from in the initial state

\* An environment: by how much updates may advance the SOA serial, how many
\* versions they make, at which steps of the loop the process may stop,
\* whether the serial may run half the ring ahead of the master file, and
\* whether the zone is a secondary.
ScenarioType ==
    [jumps : SUBSET (1..(Modulus \div 2 - 1)), versions : 1..MaxVersion,
     stops : SUBSET STRING, far : BOOLEAN, secondary : BOOLEAN]

ASSUME ZoneStoreAssumption ==
    /\ MaxVersion \in Nat \ {0}
    /\ Sizes \subseteq Nat \ {0}
    /\ \A s \in Scenarios : s \in ScenarioType

VARIABLES
    env,        \* the environment
    hist,       \* the SOA serial of every version ever made, by the primary
    jnl,        \* the journal file, or NoFile
    jnw,        \* the file the journal is compacted into, or NoFile
    master,     \* the version in the master file, or 0: no file
    up,         \* "up", "down", or "failed": the zone was not loaded
    db,         \* the version in the database
    loop,       \* what the zone's loop is doing
    flags,      \* DNS_ZONEFLG_NEEDDUMP, _DUMPING, _FLUSH, _NEEDCOMPACT, _NOIXFR
    dumper,     \* the dump in progress
    xfr,        \* zone->xfr, the transfer in progress
    apply,      \* the worker that applies and journals the deltas of an IXFR
    compact,    \* zone->compact_serial
    full        \* history: the version that the last AXFR brought

xfrvars == <<xfr, apply, compact, full>>
storevars == <<env, hist, jnl, jnw, master, up, db, loop, flags, dumper, xfrvars>>

NoFile == [begin |-> NoPos, end |-> NoPos, index |-> <<>>, x |-> <<>>]
Idle == [at |-> "idle", begin |-> NoPos, end |-> NoPos, index |-> <<>>,
         xact |-> NoXact, since |-> 0, deferred |-> FALSE]
NoDump == [at |-> "none", version |-> 0]
NoXfr == [at |-> "none", got |-> 0, last |-> 0]
NoApply == [at |-> "none", version |-> 0, live |-> FALSE, file |-> NoFile,
            begin |-> NoPos, end |-> NoPos, index |-> <<>>, xact |-> NoXact]

StoreInit ==
    /\ env \in Scenarios
    /\ hist = <<IF env.secondary THEN 1 ELSE 0>>
    /\ jnl = NoFile /\ jnw = NoFile
    /\ master = 1
    /\ up = "up" /\ db = 1
    /\ loop = Idle
    /\ flags = {}
    /\ dumper = NoDump
    /\ xfr = NoXfr /\ apply = NoApply /\ compact = 0 /\ full = 0

----------------------------------------------------------------------------
(* An update, update_action: the journal is opened or created, the data    *)
(* and a dummy transaction header are written and synced, then the         *)
(* transaction header, the file header and the index are written and       *)
(* synced, and only then the new version is committed.                     *)

OnLoop == up = "up" /\ loop.at = "idle"

Opened(file) == IF file = NoFile THEN NewJournal ELSE file

\* The transaction of an update that advances the serial by jump.
NextXact(jump, size) ==
    [size |-> size, serial0 |-> hist[db],
     serial1 |-> (hist[db] + jump) % Modulus,
     from |-> db, to |-> Len(hist) + 1]

Update(jump, size) ==
    /\ OnLoop
    /\ ~env.secondary
    /\ Len(hist) < env.versions
    /\ \E j \in {Opened(jnl)}, x \in {NextXact(jump, size)} :
       \E c \in {PrepareCommit(j, x)} :
         /\ env.far \/ SerialGT(x.serial1, hist[master])
         /\ TransactionOffset(j) + size <= MaxOffset
         /\ jnl' = WriteAt(j, TransactionOffset(j), size, NoXact)
         /\ IF c.ok
            THEN /\ hist' = Append(hist, x.serial1)
                 /\ loop' = [Idle EXCEPT !.at = "xhdr", !.begin = c.begin,
                               !.end = c.end, !.index = c.index, !.xact = x]
            ELSE UNCHANGED <<hist, loop>>       \* refused and rolled back
    /\ UNCHANGED <<env, jnw, master, up, db, flags, dumper, xfrvars>>

WriteXhdr ==
    /\ loop.at = "xhdr"
    /\ jnl' = WriteAt(jnl, TransactionOffset(jnl), loop.xact.size, loop.xact)
    /\ loop' = [loop EXCEPT !.at = "header"]
    /\ UNCHANGED <<env, hist, jnw, master, up, db, flags, dumper, xfrvars>>

WriteHeader ==
    /\ loop.at = "header"
    /\ jnl' = [jnl EXCEPT !.begin = loop.begin, !.end = loop.end]
    /\ loop' = [loop EXCEPT !.at = "index"]
    /\ UNCHANGED <<env, hist, jnw, master, up, db, flags, dumper, xfrvars>>

WriteIndex ==
    /\ loop.at = "index"
    /\ jnl' = [jnl EXCEPT !.index = loop.index]
    /\ loop' = [loop EXCEPT !.at = "commit"]
    /\ UNCHANGED <<env, hist, jnw, master, up, db, flags, dumper, xfrvars>>

\* dns_db_closeversion and dns_zone_markdirty.
CommitUpdate ==
    /\ loop.at = "commit"
    /\ db' = loop.xact.to
    /\ flags' = flags \cup {"NEEDDUMP"}
    /\ loop' = Idle
    /\ UNCHANGED <<env, hist, jnl, jnw, master, up, dumper, xfrvars>>

----------------------------------------------------------------------------
(* Dumps.  was_dumping clears NEEDDUMP when the dump starts, so an update  *)
(* made while it runs asks for another one.                                *)

StartDump(flag) ==
    /\ flags' = (flags \ {"NEEDDUMP"}) \cup {"DUMPING"} \cup flag
    /\ dumper' = [at |-> "writing", version |-> db]

\* zone_maintenance, on the loop, when dumptime has come.
MaintenanceDump ==
    /\ OnLoop
    /\ "NEEDDUMP" \in flags /\ "DUMPING" \notin flags
    /\ StartDump({})
    /\ UNCHANGED <<env, hist, jnl, jnw, master, up, db, loop, xfrvars>>

\* dns_zone_flush, from rndc sync: not on the zone's loop.  NEEDCOMPACT is
\* read when a transfer ends, which a primary zone never sees.
Flush ==
    /\ up = "up"
    /\ \E asked \in {{"FLUSH"} \cup (IF env.secondary /\ "NEEDDUMP" \in flags
                                   THEN {"NEEDCOMPACT"} ELSE {})} :
         IF "NEEDDUMP" \in flags /\ "DUMPING" \notin flags
         THEN StartDump(asked)
         ELSE flags' = flags \cup asked /\ UNCHANGED dumper
    /\ UNCHANGED <<env, hist, jnl, jnw, master, up, db, loop, xfrvars>>

\* The worker writes a temporary file, syncs it and renames it.
DumpWritten ==
    /\ dumper.at = "writing"
    /\ master' = dumper.version
    /\ dumper' = [dumper EXCEPT !.at = "written"]
    /\ UNCHANGED <<env, hist, jnl, jnw, up, db, loop, flags, xfrvars>>

DumpFailed ==
    /\ dumper.at = "writing"
    /\ dumper' = [dumper EXCEPT !.at = "failed"]
    /\ UNCHANGED <<env, hist, jnl, jnw, master, up, db, loop, flags, xfrvars>>

FinishDump_clears(ok, more) ==
    /\ dumper' = NoDump
    /\ flags' = IF ok THEN more ELSE (flags \ {"DUMPING"}) \cup {"NEEDDUMP"}
    /\ UNCHANGED master

\* The end of dump_done.  A zone that was flushed and has changed since is
\* dumped again at once, without a compaction.
FinishDump(ok, more) ==
    /\ dumper' = NoDump
    /\ CASE ~ok ->
              /\ flags' = (flags \ {"DUMPING"}) \cup {"NEEDDUMP"}
              /\ UNCHANGED master
         [] ok /\ {"FLUSH", "NEEDDUMP"} \subseteq flags ->
              \/ /\ flags' = (flags \ {"DUMPING", "NEEDDUMP", "FLUSH"}) \cup more
                 /\ master' = db
              \/ /\ flags' = (flags \ {"DUMPING"}) \cup more
                 /\ UNCHANGED master               \* the second dump failed
         [] OTHER ->
              /\ flags' = (flags \ {"DUMPING", "FLUSH"}) \cup more
              /\ UNCHANGED master

\* What follows zone_journal_compact: the rest of dump_done, or of
\* zone_xfrdone if the compaction was put off to the end of a transfer.
Compacted(deferred) ==
    IF deferred
    THEN flags' = flags \ {"NEEDCOMPACT"} /\ UNCHANGED <<master, dumper>>
    ELSE FinishDump(TRUE, {})

\* zone_journal_compact up to the copy of what dns_journal_compact keeps.
Compaction(serial, deferred) ==
    IF jnl = NoFile \/ NothingToCompact(jnl, serial)
    THEN Compacted(deferred) /\ loop' = Idle /\ UNCHANGED jnw
    ELSE \E keep \in {KeepFrom(jnl, serial)} :
           CASE keep.res = "success" ->
                  /\ jnw' = IF keep.pos.offset = jnl.end.offset
                            THEN Opened(jnw)
                            ELSE CopyFrom(Opened(jnw), jnl, keep.pos)
                  /\ loop' = [Idle EXCEPT
                                !.at = IF keep.pos.offset = jnl.end.offset
                                       THEN "rename" ELSE "copied",
                                !.begin = [serial |-> keep.pos.serial,
                                           offset |-> IndexEnd],
                                !.end = CompactedEnd(jnl, keep.pos),
                                !.since = serial, !.deferred = deferred]
                  /\ UNCHANGED <<master, flags, dumper>>
             [] keep.res = "insist" ->
                  /\ loop' = [Idle EXCEPT !.at = "insist"]
                  /\ UNCHANGED <<jnw, master, flags, dumper>>
             [] OTHER ->
                  jnw' = NoFile /\ Compacted(deferred) /\ loop' = Idle

DumpDone_always ==
    /\ OnLoop
    /\ \/ /\ dumper.at = "failed"
          /\ FinishDump(FALSE, {})
          /\ UNCHANGED <<jnw, loop>>
       \/ /\ dumper.at = "written"
          /\ Compaction(hist[dumper.version], FALSE)
    /\ UNCHANGED <<env, hist, jnl, up, db, xfrvars>>

\* dump_done: the journal that a transfer has open is not compacted now.
DumpDone ==
    /\ OnLoop
    /\ \/ /\ dumper.at = "failed"
          /\ FinishDump(FALSE, {})
          /\ UNCHANGED <<jnw, loop, compact>>
       \/ /\ dumper.at = "written" /\ xfr.at = "none"
          /\ Compaction(hist[dumper.version], FALSE)
          /\ UNCHANGED compact
       \/ /\ dumper.at = "written" /\ xfr.at # "none"
          /\ FinishDump(TRUE, {"NEEDCOMPACT"})
          /\ compact' = hist[dumper.version]
          /\ UNCHANGED <<jnw, loop>>
    /\ UNCHANGED <<env, hist, jnl, up, db, xfr, apply, full>>

\* The header of the new file is written, and its index built from the file.
CompactHeader ==
    /\ loop.at = "copied"
    /\ \E new \in {[jnw EXCEPT !.begin = loop.begin, !.end = loop.end]} :
       \E built \in {BuildIndex(new)} :
         IF built.res = "success"
         THEN /\ jnw' = new
              /\ loop' = [loop EXCEPT !.at = "cindex", !.index = built.index]
              /\ UNCHANGED <<master, flags, dumper>>
         ELSE jnw' = NoFile /\ loop' = Idle /\ Compacted(loop.deferred)
    /\ UNCHANGED <<env, hist, jnl, up, db, xfrvars>>

CompactIndex ==
    /\ loop.at = "cindex"
    /\ jnw' = [jnw EXCEPT !.index = loop.index]
    /\ loop' = [loop EXCEPT !.at = "rename"]
    /\ UNCHANGED <<env, hist, jnl, master, up, db, flags, dumper, xfrvars>>

\* A worker that still has the old journal open goes on with that file, which
\* has no name any more.
KeepsOldFile == [apply EXCEPT !.file = IF @ = NoFile THEN jnl ELSE @]
Unlinked == apply' = IF apply.at = "none" THEN apply ELSE KeepsOldFile

CompactRename ==
    /\ loop.at = "rename"
    /\ jnl' = jnw
    /\ jnw' = NoFile
    /\ loop' = Idle
    /\ Compacted(loop.deferred)
    /\ Unlinked
    /\ UNCHANGED <<env, hist, up, db, xfr, compact, full>>

----------------------------------------------------------------------------
(* The process stops; at a restart zone_postload rolls the journal forward *)
(* and then removes one that is empty or does not end at the zone's serial.*)

Stop ==
    /\ up = "up"
    /\ loop.at \in env.stops
    /\ up' = "down" /\ db' = 0
    /\ loop' = Idle /\ flags' = {} /\ dumper' = NoDump
    /\ xfr' = NoXfr /\ apply' = NoApply /\ compact' = 0 /\ full' = 0
    /\ UNCHANGED <<env, hist, jnl, jnw, master>>

\* zone_journal_rollforward.
Recover ==
    IF master = 0 THEN [res |-> "nofile", version |-> 0]
    ELSE IF jnl = NoFile \/ JournalEmpty(jnl)
    THEN [res |-> "uptodate", version |-> master]
    ELSE Rollforward(jnl, master, hist[master])

Load_nomerge ==
    /\ up = "down"
    /\ up' = "up"
    /\ db' = master
    /\ jnl' = IF jnl # NoFile /\ jnl.end.serial # hist[master] THEN NoFile ELSE jnl
    /\ UNCHANGED <<env, hist, jnw, master, loop, flags, dumper, xfrvars>>

\* zone_postload: a zone whose journal cannot be rolled forward is not loaded;
\* if it is a secondary the files are put out of the way (zone_saveunique).
Load ==
    /\ up = "down"
    /\ \E r \in {Recover} :
         IF r.res \in {"success", "uptodate"}
         THEN /\ up' = "up"
              /\ db' = r.version
              /\ flags' = IF r.res = "success" THEN {"NEEDDUMP"} ELSE {}
              /\ jnl' = IF r.res = "uptodate" /\ jnl.end.serial # hist[master]
                        THEN NoFile ELSE jnl
              /\ UNCHANGED master
         ELSE /\ up' = "failed"
              /\ jnl' = IF env.secondary THEN NoFile ELSE jnl
              /\ master' = IF env.secondary THEN 0 ELSE master
              /\ UNCHANGED <<db, flags>>
    /\ UNCHANGED <<env, hist, jnw, loop, dumper, xfrvars>>

StoreNext ==
    \/ \E jump \in env.jumps, size \in Sizes : Update(jump, size)
    \/ WriteXhdr \/ WriteHeader \/ WriteIndex \/ CommitUpdate
    \/ MaintenanceDump \/ Flush \/ DumpWritten \/ DumpFailed
    \/ DumpDone \/ CompactHeader \/ CompactIndex \/ CompactRename
    \/ Stop \/ Load

StoreSpec == StoreInit /\ [][StoreNext]_storevars

----------------------------------------------------------------------------
Files == {jnl, jnw} \ {NoFile}

\* The types of the variables; a transaction header is blank or leads from a
\* version to a later one (journal_xhdr_t).
StoreTypeOK ==
    /\ env \in Scenarios
    /\ hist \in Seq(Serial) /\ Len(hist) \in 1..MaxVersion
    /\ \A f \in Files :
         /\ f.begin \in Pos /\ f.end \in Pos
         /\ f.index \in [1..IndexSize -> Pos]
         /\ \A o \in IndexEnd..MaxOffset :
               f.x[o] = NoXact \/ (f.x[o].from < f.x[o].to /\ f.x[o].size \in Sizes)
    /\ master \in 0..Len(hist)
    /\ up \in {"up", "down", "failed"}
    /\ db \in 0..Len(hist)
    /\ loop.at \in {"idle", "xhdr", "header", "index", "commit",
                    "copied", "cindex", "rename", "insist", "xfrdone"}
    /\ flags \subseteq {"NEEDDUMP", "DUMPING", "FLUSH", "NEEDCOMPACT", "NOIXFR"}
    /\ dumper \in [at : {"none", "writing", "written", "failed"}, version : 0..Len(hist)]
    /\ xfr.at \in {"none", "ixfr", "axfr"} /\ {xfr.got, xfr.last} \subseteq 0..Len(hist)
    /\ apply.at \in {"none", "apply", "xhdr", "header", "index",
                     "applied", "failed", "toomany"}
    /\ apply.version \in 0..Len(hist) /\ full \in 0..Len(hist)
    /\ compact \in Serial

DZ == INSTANCE DurableZone
        WITH disk <- IF Recover.res \in {"success", "uptodate"}
                     THEN Recover.version ELSE 0

\* The journal and the master file on disk at any moment, in the middle of a
\* commit, a dump or a compaction, lead a restart (zone_journal_rollforward)
\* to the version being served or to the update being journaled, and no
\* other step changes what they lead to.
ImplementsDurableZone == DZ!DSpec

\* The journal always continues the zone that is served, so dns_journal_commit
\* accepts the next update whatever dumps, compactions and restarts came
\* before ("malformed transaction: last serial != transaction first serial").
UpdatesAccepted ==
    OnLoop =>
      \A jump \in env.jumps, size \in Sizes :
         \E j \in {Opened(jnl)} : PrepareCommit(j, NextXact(jump, size)).ok

Boundaries(j) ==
    LET Walk[p \in AnyPos] ==
          LET n == JournalNext(j, p)
          IN  {p} \cup (IF n.res = "success" THEN Walk[n.pos] ELSE {})
    IN  Walk[j.begin]

\* journal_find, helped by an index that is decimated, invalidated and now
\* and then older than the header, agrees with a walk over the whole journal:
\* it finds every transaction boundary and nothing else.
FindAgreesWithWalk ==
    (jnl # NoFile /\ ~JournalEmpty(jnl)) =>
      \E walk \in {Boundaries(jnl)} :
        \A s \in Serial : \E f \in {JournalFind(jnl, s)} :
          IF \E p \in walk : p.serial = s
          THEN f.res = "success" /\ f.pos \in walk /\ f.pos.serial = s
          ELSE f.res \in {"range", "notfound"}

\* The journal can be added to (dns_journal_commit) and looked up (journal_find)
\* whatever dumps, compactions, stops and restarts have made of it.
JournalUsable == StoreTypeOK /\ UpdatesAccepted /\ FindAgreesWithWalk

\* What an outgoing IXFR from a serial would be sent.
Deltas(j, serial) ==
    LET From[p \in AnyPos] ==
          LET n == JournalNext(j, p)
          IN  IF n.res = "success" THEN <<XactAt(j, p)>> \o From[n.pos]
              ELSE <<>>
    IN  IF JournalEmpty(j) THEN <<>> ELSE From[JournalFind(j, serial).pos]

\* dns_journal_compact leaves a suffix of the journal that has every change
\* made since the dump, and frees the rest: what it keeps of older changes is
\* less than half the target size.  Its INSIST on the guess holds.  (What a
\* transfer that has been given up journals meanwhile may be lost.)
CompactionKeepsAndFrees ==
    [][/\ loop'.at # "insist"
       /\ (CompactRename /\ (apply.at = "none" \/ apply.file # NoFile)) =>
            \E since \in {loop.since} :
              /\ IsSuffix(Deltas(jnl', jnl'.begin.serial),
                          Deltas(jnl, jnl.begin.serial))
              /\ Deltas(jnl', since) = Deltas(jnl, since)
              /\ \/ JournalEmpty(jnl')
                 \/ jnl'.begin.serial = since
                 \/ ~EnoughLeft(jnl', jnl'.begin)]_storevars

----------------------------------------------------------------------------
\* NEEDDUMP is not lost between updates, dumps and flushes that overlap: a
\* zone that stays up is dumped as it is served again and again.
DumpedInTheEnd == []<>(up # "up" \/ master = db)
============================================================================
