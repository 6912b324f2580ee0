----------------------------- MODULE Secondary -----------------------------
(***************************************************************************)
(* Transfers into a secondary zone (lib/dns/xfrin.c, lib/dns/zone.c) and   *)
(* the files of module ZoneStore.  The deltas of an IXFR are queued as     *)
(* they arrive, and a worker applies each of them to an open version of    *)
(* the database and journals it; when the queue is empty the version is    *)
(* committed on the loop.  An AXFR brings a new database and removes the   *)
(* journal.  A transfer that is given up leaves a worker that may still be *)
(* writing.  Transfers, dumps, compactions and stops overlap.  With        *)
(* ixfr-from-differences an AXFR would be journaled too: left out.         *)
(***************************************************************************)
EXTENDS ZoneStore

\* The zone's loop also serves a secondary zone that could not be loaded.
OnXfrLoop == env.secondary /\ up \in {"up", "failed"} /\ loop.at = "idle"

\* The primary server makes a new version.
PrimaryChanges(jump) ==
    /\ env.secondary
    /\ Len(hist) < env.versions
    /\ hist' = Append(hist, (hist[Len(hist)] + jump) % Modulus)
    /\ UNCHANGED <<env, jnl, jnw, master, up, db, loop, flags, dumper, xfrvars>>

NewData == db < Len(hist)

\* got_transfer_quota and ixfr_init: the journal stays open during the transfer.
\* The worker of an earlier transfer is taken to have ended.
IxfrStart ==
    /\ OnXfrLoop /\ xfr.at = "none" /\ apply.at = "none"
    /\ db # 0 /\ NewData /\ "NOIXFR" \notin flags
    /\ xfr' = [at |-> "ixfr", got |-> db, last |-> Len(hist)]
    /\ jnl' = Opened(jnl)
    /\ UNCHANGED <<env, hist, jnw, master, up, db, loop, flags, dumper,
                   apply, compact, full>>

\* A primary server may answer a request for an IXFR with the whole zone.
AxfrStart ==
    /\ OnXfrLoop /\ xfr.at = "none" /\ NewData
    /\ xfr' = [at |-> "axfr", got |-> 0, last |-> Len(hist)]
    /\ flags' = flags \ {"NOIXFR"}
    /\ UNCHANGED <<env, hist, jnl, jnw, master, up, db, loop, dumper,
                   apply, compact, full>>

\* ixfr_commit: a delta has arrived; the worker is started unless it runs.
IxfrDelta ==
    /\ OnXfrLoop /\ xfr.at = "ixfr" /\ xfr.got < xfr.last
    /\ xfr' = [xfr EXCEPT !.got = @ + 1]
    /\ apply' = IF apply.at # "none" THEN apply
                ELSE [NoApply EXCEPT !.at = "apply", !.version = db, !.live = TRUE]
    /\ UNCHANGED <<env, hist, jnl, jnw, master, up, db, loop, flags, dumper,
                   compact, full>>

----------------------------------------------------------------------------
(* The worker, ixfr_apply.                                                 *)

WorkerStep == UNCHANGED <<env, hist, jnw, master, up, db, loop, flags, dumper,
                          xfr, compact, full>>

OpenFile == IF apply.file = NoFile THEN jnl ELSE apply.file

\* The worker writes to the file it has open, and goes on as next says.
Written(file, next) ==
    IF apply.file = NoFile
    THEN jnl' = file /\ apply' = next
    ELSE UNCHANGED jnl /\ apply' = [next EXCEPT !.file = file]

\* ixfr_apply_one up to the checks of dns_journal_commit.
ApplyOne(size) ==
    /\ apply.at = "apply" /\ apply.live
    /\ \E v \in {apply.version} :
       \E x \in {[size |-> size, serial0 |-> hist[v], serial1 |-> hist[v + 1],
                  from |-> v, to |-> v + 1]} :
       \E c \in {PrepareCommit(OpenFile, x)} :
         /\ TransactionOffset(OpenFile) + size <= MaxOffset
         /\ Written(WriteAt(OpenFile, TransactionOffset(OpenFile), size, NoXact),
                    IF c.ok
                    THEN [apply EXCEPT !.at = "xhdr", !.begin = c.begin,
                            !.end = c.end, !.index = c.index, !.xact = x]
                    ELSE [apply EXCEPT !.at = "failed"])
    /\ WorkerStep

\* The delta does not apply, or makes the zone too large, or the transfer has
\* been given up.
ApplyFails(how) ==
    /\ apply.at = "apply"
    /\ apply' = [apply EXCEPT !.at = how]
    /\ UNCHANGED jnl
    /\ WorkerStep

ApplyXhdr ==
    /\ apply.at = "xhdr"
    /\ Written(WriteAt(OpenFile, TransactionOffset(OpenFile), apply.xact.size,
                       apply.xact),
               [apply EXCEPT !.at = "header"])
    /\ WorkerStep

ApplyHeader ==
    /\ apply.at = "header"
    /\ Written([OpenFile EXCEPT !.begin = apply.begin, !.end = apply.end],
               [apply EXCEPT !.at = "index"])
    /\ WorkerStep

\* The index is written.  The worker goes on with a delta that was in the queue
\* when it started, or returns, and ixfr_apply_done starts it again.
ApplyIndex ==
    /\ apply.at = "index"
    /\ \E v \in {apply.xact.to} :
       \E more \in {FALSE} \cup (IF apply.live /\ v < xfr.got THEN {TRUE} ELSE {}) :
         Written([OpenFile EXCEPT !.index = apply.index],
                 [NoApply EXCEPT !.version = v, !.live = apply.live, !.file = apply.file,
                    !.at = IF more THEN "apply" ELSE "applied"])
    /\ WorkerStep

----------------------------------------------------------------------------
(* The end of a transfer, zone_xfrdone: a compaction that was put off is   *)
(* done now.                                                               *)

XfrDone(more) ==
    /\ xfr' = NoXfr
    /\ flags' = flags \cup more
    /\ loop' = IF "NEEDCOMPACT" \in flags /\ db' # 0
               THEN [Idle EXCEPT !.at = "xfrdone"] ELSE loop

CompactDeferred ==
    /\ loop.at = "xfrdone"
    /\ Compaction(compact, TRUE)
    /\ UNCHANGED <<env, hist, jnl, up, db, xfrvars>>

\* ixfr_apply_done: the open version is committed or rolled back.
ApplyDone ==
    /\ OnXfrLoop
    /\ \/ /\ apply.at \in {"applied", "failed", "toomany"} /\ ~apply.live
          /\ apply' = NoApply
          /\ UNCHANGED <<db, xfr, flags, loop>>
       \/ /\ apply.at = "applied" /\ apply.live /\ apply.version < xfr.got
          /\ apply' = [apply EXCEPT !.at = "apply"]
          /\ UNCHANGED <<db, xfr, flags, loop>>
       \/ /\ apply.at = "applied" /\ apply.live /\ apply.version = xfr.got
          /\ apply' = NoApply
          /\ db' = apply.version
          /\ IF xfr.got = xfr.last
             THEN XfrDone({"NEEDDUMP"})
             ELSE flags' = flags \cup {"NEEDDUMP"} /\ UNCHANGED <<xfr, loop>>
       \/ /\ apply.at \in {"failed", "toomany"} /\ apply.live
          /\ apply' = NoApply
          /\ UNCHANGED db
          /\ XfrDone(IF apply.at = "failed" THEN {"NOIXFR"} ELSE {})
    /\ UNCHANGED <<env, hist, jnl, jnw, master, up, dumper, compact, full>>

\* xfrin_fail: a timeout, or the connection is lost.
XfrFails ==
    /\ OnXfrLoop /\ xfr.at # "none"
    /\ apply' = IF xfr.at = "ixfr" THEN [apply EXCEPT !.live = FALSE] ELSE apply
    /\ UNCHANGED db
    /\ XfrDone(IF xfr.at = "ixfr" THEN {"NOIXFR"} ELSE {})
    /\ UNCHANGED <<env, hist, jnl, jnw, master, up, dumper, compact, full>>

\* axfr_finalize and zone_replacedb.
AxfrDone ==
    /\ OnXfrLoop /\ xfr.at = "axfr"
    /\ jnl' = NoFile
    /\ Unlinked
    /\ db' = xfr.last /\ full' = xfr.last
    /\ up' = "up"
    /\ XfrDone({"NEEDDUMP"})
    /\ UNCHANGED <<env, hist, jnw, master, dumper, compact>>

SecondaryNext ==
    \/ StoreNext
    \/ \E jump \in env.jumps : PrimaryChanges(jump)
    \/ IxfrStart \/ AxfrStart \/ IxfrDelta
    \/ \E size \in Sizes : ApplyOne(size)
    \/ \E how \in {"failed", "toomany"} : ApplyFails(how)
    \/ ApplyXhdr \/ ApplyHeader \/ ApplyIndex
    \/ ApplyDone \/ XfrFails \/ AxfrDone \/ CompactDeferred

----------------------------------------------------------------------------
Recovered == Recover.res \in {"success", "uptodate"}

\* Whatever transfers, failed transfers, dumps and deferred compactions have
\* left, a stop at any moment does not set a secondary zone back behind the
\* version it has answered for, and its journal still fits its master file --
\* except after an AXFR, which removes the journal (zone_replacedb) until the
\* dump that is then due has been written.
SecondaryDurable ==
    (env.secondary /\ up = "up") =>
      \/ Recovered /\ Recover.version >= db
      \/ master < full /\ flags \cap {"NEEDDUMP", "DUMPING"} # {}
============================================================================
