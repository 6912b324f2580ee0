---------------------------- MODULE UpdateQueue ----------------------------
(***************************************************************************)
(* How a catalog zone and a policy zone take up new versions of their      *)
(* database: a version that arrives while an update waits or runs is only  *)
(* noted, and the update that follows takes the last one noted.  catz.c    *)
(* and rpz.c hold the same five fields; the operators below are what each  *)
(* critical section does to them.  Versions are numbered from 1.           *)
(***************************************************************************)
EXTENDS Integers

\* held: dbversion; up: updbversion; 0 is NULL.  failed: a REQUIRE or an INSIST
\* of the code did not hold.
UqNew == [pending |-> FALSE, running |-> FALSE, timer |-> FALSE,
          held |-> 0, up |-> 0, failed |-> FALSE]

\* isc_timer_create asserts that there is no timer yet.
UqTimerStart(u) == [u EXCEPT !.timer = TRUE, !.failed = @ \/ u.timer]

\* dbupdate_callback: version v of the database is current.  The first branch
\* passes the field to dns_db_currentversion, which asserts that it is NULL.
UqNotify(u, v) ==
    IF ~u.pending /\ ~u.running
    THEN UqTimerStart([u EXCEPT !.pending = TRUE, !.held = v,
                                !.failed = @ \/ u.held # 0])
    ELSE [u EXCEPT !.pending = TRUE, !.held = v]

\* timer_cb: the update starts on a worker thread.
UqStart(u) ==
    [u EXCEPT !.pending = FALSE, !.running = TRUE, !.timer = FALSE,
              !.up = u.held, !.held = 0,
              !.failed = @ \/ u.held = 0 \/ u.up # 0]

\* timer_cb's other ending: the zone is no longer configured.
UqCancel(u) ==
    [u EXCEPT !.pending = FALSE, !.running = FALSE, !.timer = FALSE,
              !.failed = @ \/ u.held = 0 \/ u.up # 0]

\* done_cb, back on the loop
UqDone(u, shuttingdown) ==
    LET v == [u EXCEPT !.running = FALSE, !.up = 0]
    IN  IF u.pending /\ ~shuttingdown THEN UqTimerStart(v) ELSE v

\* Version v will be taken up: it is what the update runs or waits with.
UqWillSee(u, v) ==
    \/ u.running /\ u.up = v /\ ~u.pending
    \/ u.pending /\ u.held = v /\ (u.timer \/ u.running)
=============================================================================
