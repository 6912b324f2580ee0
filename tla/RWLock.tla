------------------------------- MODULE RWLock -------------------------------
(***************************************************************************)
(* The internal readers-writer lock of lib/isc/rwlock.c, a modified        *)
(* C-RW-WP lock.  Every atomic access of the code is one step; a call is   *)
(* the walk of a thread through the program points of its function.  The   *)
(* memory is sequentially consistent (see the README on memory orders).    *)
(***************************************************************************)
EXTENDS Naturals, FiniteSets

CONSTANTS
  Threads,       \* the threads that share the lock
  Calls,         \* the functions the threads call (a subset of AllCalls)
  Patience,      \* RWLOCK_MAX_READER_PATIENCE
  CounterLimit   \* the indicator counters wrap at this value; 0: never

AllCalls == {"rdlock", "tryrdlock", "rdunlock", "tryupgrade",
             "wrlock", "trywrlock", "wrunlock", "downgrade"}

ASSUME ThreadsAssumption == IsFiniteSet(Threads)
ASSUME CallsAssumption == Calls \subseteq AllCalls
ASSUME BoundsAssumption == Patience \in Nat /\ CounterLimit \in Nat

VARIABLES
  writers_lock,      \* TRUE: ISC_RWLOCK_LOCKED
  writers_barrier,   \* the readers that ran out of patience
  readers_ingress,   \* arrivals at the read indicator
  readers_egress,    \* departures from it
  pc,                \* the program point of each thread
  cnt,               \* spins of the current rdlock call, up to Patience
  barrier_raised,    \* the local flag of rdlock
  seen               \* the first of the two loads of read_indicator_isempty

shared == <<writers_lock, writers_barrier, readers_ingress, readers_egress>>
locals == <<cnt, barrier_raised, seen>>
vars == <<shared, pc, locals>>

-----------------------------------------------------------------------------
(* Program points.  "idle", "read" and "write" are outside any call. *)
RdPoints == {"rd_arrive", "rd_check", "rd_depart", "rd_spin", "rd_raise",
             "rd_lower"}
TrPoints == {"tr_arrive", "tr_check", "tr_depart"}
UpPoints == {"up_barrier", "up_acquire", "up_depart", "up_load", "up_empty",
             "up_arrive", "up_release"}
WrPoints == {"wr_barrier", "wr_acquire", "wr_load", "wr_empty"}
TwPoints == {"tw_barrier", "tw_acquire", "tw_load", "tw_empty", "tw_release"}
Points == {"idle", "read", "write", "ru_depart", "wu_release",
           "dg_arrive", "dg_release"}
          \cup RdPoints \cup TrPoints \cup UpPoints \cup WrPoints \cup TwPoints

(* Where a call starts, and the program point a thread makes it from. *)
Entry == [rdlock |-> "rd_arrive", tryrdlock |-> "tr_arrive",
          rdunlock |-> "ru_depart", tryupgrade |-> "up_barrier",
          wrlock |-> "wr_barrier", trywrlock |-> "tw_barrier",
          wrunlock |-> "wu_release", downgrade |-> "dg_arrive"]

CallerAt(op) == CASE op \in {"rdunlock", "tryupgrade"} -> "read"
                  [] op \in {"wrunlock", "downgrade"} -> "write"
                  [] OTHER -> "idle"

Goto(t, to) == pc' = [pc EXCEPT ![t] = to]

(* isc_rwlock_init *)
Init ==
  /\ writers_lock = FALSE /\ writers_barrier = 0
  /\ readers_ingress = 0 /\ readers_egress = 0
  /\ pc = [t \in Threads |-> "idle"]
  /\ cnt = [t \in Threads |-> 0]
  /\ barrier_raised = [t \in Threads |-> FALSE]
  /\ seen = [t \in Threads |-> 0]

Bump(n) == IF n + 1 = CounterLimit THEN 0 ELSE n + 1

read_indicator_arrive ==
  /\ readers_ingress' = Bump(readers_ingress)
  /\ UNCHANGED <<writers_lock, writers_barrier, readers_egress>>

read_indicator_depart ==
  /\ readers_egress' = Bump(readers_egress)
  /\ UNCHANGED <<writers_lock, writers_barrier, readers_ingress>>

IndicatorLoads_swapped == <<readers_ingress, readers_egress>>

(* read_indicator_isempty compares two loads, made left to right. *)
IndicatorLoads == <<readers_egress, readers_ingress>>

writers_barrier_raise ==
  /\ writers_barrier' = writers_barrier + 1
  /\ UNCHANGED <<writers_lock, readers_ingress, readers_egress>>

writers_barrier_lower ==
  /\ writers_barrier' = writers_barrier - 1
  /\ UNCHANGED <<writers_lock, readers_ingress, readers_egress>>

writers_lock_acquire ==
  /\ ~writers_lock
  /\ writers_lock' = TRUE
  /\ UNCHANGED <<writers_barrier, readers_ingress, readers_egress>>

writers_lock_release ==
  /\ writers_lock
  /\ writers_lock' = FALSE
  /\ UNCHANGED <<writers_barrier, readers_ingress, readers_egress>>

-----------------------------------------------------------------------------
(* A thread enters a function; the locals of rdlock are initialised. *)
Call(t, op) ==
  /\ pc[t] = CallerAt(op)
  /\ Goto(t, Entry[op])
  /\ cnt' = [cnt EXCEPT ![t] = 0]
  /\ barrier_raised' = [barrier_raised EXCEPT ![t] = FALSE]
  /\ UNCHANGED <<shared, seen>>

(* The steps that arrive at or depart from the read indicator. *)
Arrive(t) ==
  /\ \/ pc[t] = "rd_arrive" /\ Goto(t, "rd_check")
     \/ pc[t] = "tr_arrive" /\ Goto(t, "tr_check")
     \/ pc[t] = "up_arrive" /\ Goto(t, "up_release")
     \/ pc[t] = "dg_arrive" /\ Goto(t, "dg_release")
  /\ read_indicator_arrive
  /\ UNCHANGED locals

Depart(t) ==
  /\ \/ pc[t] = "rd_depart" /\ Goto(t, "rd_spin")
     \/ pc[t] = "tr_depart" /\ Goto(t, "idle")
     \/ pc[t] = "ru_depart" /\ Goto(t, "idle")
     \/ pc[t] = "up_depart" /\ Goto(t, "up_load")
  /\ read_indicator_depart
  /\ UNCHANGED locals

(* isc_rwlock_rdlock, isc_rwlock_tryrdlock: is a writer there? *)
RdCheck(t) ==
  /\ \/ /\ pc[t] = "rd_check"
        /\ Goto(t, IF writers_lock THEN "rd_depart"
                   ELSE IF barrier_raised[t] THEN "rd_lower" ELSE "read")
     \/ /\ pc[t] = "tr_check"
        /\ Goto(t, IF writers_lock THEN "tr_depart" ELSE "read")
  /\ UNCHANGED <<shared, locals>>

(* One turn of the inner loop of isc_rwlock_rdlock. *)
RdSpin(t) ==
  /\ pc[t] = "rd_spin"
  /\ \/ ~writers_lock /\ Goto(t, "rd_arrive") /\ UNCHANGED cnt
     \/ /\ writers_lock
        /\ cnt' = [cnt EXCEPT ![t] = IF @ < Patience THEN @ + 1 ELSE @]
        /\ Goto(t, IF cnt[t] >= Patience /\ ~barrier_raised[t]
                   THEN "rd_raise" ELSE "rd_spin")
  /\ UNCHANGED <<shared, barrier_raised, seen>>

RdRaise(t) ==
  /\ pc[t] = "rd_raise"
  /\ Goto(t, "rd_spin")
  /\ barrier_raised' = [barrier_raised EXCEPT ![t] = TRUE]
  /\ writers_barrier_raise
  /\ UNCHANGED <<cnt, seen>>

RdLower(t) ==
  /\ pc[t] = "rd_lower"
  /\ Goto(t, "read")
  /\ writers_barrier_lower
  /\ UNCHANGED locals

BarrierCheck_ignored(t) ==
  /\ \/ pc[t] = "wr_barrier" /\ Goto(t, "wr_acquire")
     \/ pc[t] = "tw_barrier" /\ Goto(t, "tw_acquire")
     \/ pc[t] = "up_barrier" /\ Goto(t, "up_acquire")
  /\ UNCHANGED <<shared, locals>>

(* wrlock waits for the barrier, the other two give up. *)
BarrierCheck(t) ==
  /\ \/ pc[t] = "wr_barrier" /\ writers_barrier = 0 /\ Goto(t, "wr_acquire")
     \/ /\ pc[t] = "tw_barrier"
        /\ Goto(t, IF writers_barrier > 0 THEN "idle" ELSE "tw_acquire")
     \/ /\ pc[t] = "up_barrier"
        /\ Goto(t, IF writers_barrier > 0 THEN "read" ELSE "up_acquire")
  /\ UNCHANGED <<shared, locals>>

WrAcquire(t) ==
  /\ \/ pc[t] = "wr_acquire" /\ Goto(t, "wr_load")
     \/ pc[t] = "tw_acquire" /\ Goto(t, "tw_load")
     \/ pc[t] = "up_acquire" /\ Goto(t, "up_depart")
  /\ writers_lock_acquire
  /\ UNCHANGED locals

(* The weak compare-and-swap fails, on a held lock or spuriously. *)
WrAcquireFails(t) ==
  /\ \/ pc[t] = "tw_acquire" /\ Goto(t, "idle")
     \/ pc[t] = "up_acquire" /\ Goto(t, "read")
  /\ UNCHANGED <<shared, locals>>

(* The first load of read_indicator_isempty. *)
LoadFirst(t) ==
  /\ \/ pc[t] = "wr_load" /\ Goto(t, "wr_empty")
     \/ pc[t] = "tw_load" /\ Goto(t, "tw_empty")
     \/ pc[t] = "up_load" /\ Goto(t, "up_empty")
  /\ seen' = [seen EXCEPT ![t] = IndicatorLoads[1]]
  /\ UNCHANGED <<shared, cnt, barrier_raised>>

(* The second load, the comparison and the branch on its result. *)
LoadSecond(t) ==
  LET empty == seen[t] = IndicatorLoads[2] IN
  /\ \/ pc[t] = "wr_empty" /\ Goto(t, IF empty THEN "write" ELSE "wr_load")
     \/ pc[t] = "tw_empty" /\ Goto(t, IF empty THEN "write" ELSE "tw_release")
     \/ pc[t] = "up_empty" /\ Goto(t, IF empty THEN "write" ELSE "up_arrive")
  /\ seen' = [seen EXCEPT ![t] = 0]
  /\ UNCHANGED <<shared, cnt, barrier_raised>>

WrRelease_keep(t) ==
  /\ \/ pc[t] = "wu_release" /\ Goto(t, "idle") /\ writers_lock_release
     \/ pc[t] = "dg_release" /\ Goto(t, "read") /\ writers_lock_release
     \/ pc[t] = "up_release" /\ Goto(t, "read") /\ writers_lock_release
     \/ pc[t] = "tw_release" /\ Goto(t, "idle") /\ UNCHANGED shared
  /\ UNCHANGED locals

WrRelease(t) ==
  /\ \/ pc[t] = "wu_release" /\ Goto(t, "idle")
     \/ pc[t] = "dg_release" /\ Goto(t, "read")
     \/ pc[t] = "up_release" /\ Goto(t, "read")
     \/ pc[t] = "tw_release" /\ Goto(t, "idle")
  /\ writers_lock_release
  /\ UNCHANGED locals

(* A step of thread t inside a call. *)
Step(t) ==
  \/ Arrive(t) \/ Depart(t)
  \/ RdCheck(t) \/ RdSpin(t) \/ RdRaise(t) \/ RdLower(t)
  \/ BarrierCheck(t) \/ WrAcquire(t) \/ WrAcquireFails(t)
  \/ LoadFirst(t) \/ LoadSecond(t) \/ WrRelease(t)

Next == \E t \in Threads : Step(t) \/ \E op \in Calls : Call(t, op)

Spec == Init /\ [][Next]_vars

\* Giving the lock back, which a fair caller does in the end.
Unlock(t) == \E op \in {"rdunlock", "wrunlock"} : Call(t, op)

-----------------------------------------------------------------------------
(* The mode a thread holds the lock in: the refinement mapping. *)
HoldsWrite == {"write", "wu_release", "dg_arrive", "dg_release"}
HoldsRead == {"read", "rd_lower", "ru_depart"} \cup UpPoints

Mode(point) == CASE point \in HoldsWrite -> "write"
                 [] point \in HoldsRead -> "read"
                 [] OTHER -> "none"

Abstract == INSTANCE RWLockSpec WITH mode <- [t \in Threads |-> Mode(pc[t])]

(* Type invariant of the lock and of the locals of its callers. *)
TypeOK ==
  /\ writers_lock \in BOOLEAN
  /\ writers_barrier \in Nat
  /\ readers_ingress \in Nat /\ readers_egress \in Nat
  /\ pc \in [Threads -> Points]
  /\ cnt \in [Threads -> 0..Patience]
  /\ barrier_raised \in [Threads -> BOOLEAN]
  /\ seen \in [Threads -> Nat]

(* While a thread holds the lock for writing, no other thread holds it,    *)
(* whatever transient readers, failed try-locks, failed upgrades and       *)
(* downgrades are in flight: what isc_rwlock_wrlock waits for.             *)
MutualExclusion ==
  \A t, u \in Threads :
    t # u /\ pc[t] \in HoldsWrite => pc[u] \notin HoldsWrite \cup HoldsRead

(* The REQUIRE of writers_lock_release never fails, and once every call    *)
(* has returned and nobody holds the lock, the REQUIREs of                 *)
(* isc_rwlock_destroy hold and no barrier is left raised.                  *)
ReleaseAndDestroyRequires ==
  /\ \A t \in Threads :
       pc[t] \in {"wu_release", "dg_release", "up_release", "tw_release"}
         => writers_lock
  /\ (\A t \in Threads : pc[t] = "idle")
       => /\ ~writers_lock /\ writers_barrier = 0
          /\ readers_egress = readers_ingress

(* The lock implements the abstract readers-writer lock: upgrades and      *)
(* downgrades are atomic for the other threads.                            *)
ImplementsRWLock == Abstract!Spec

(* A reader that has raised the barrier is not starved, however many       *)
(* writers keep coming: isc_rwlock_rdlock returns.  (Before that it can    *)
(* be: a retry that finds the lock already free again costs no patience.)  *)
ImpatientReaderProgress ==
  \A t \in Threads :
    []<>~(pc[t] \in RdPoints /\ barrier_raised[t])

(* A writer that owns writers_lock eventually sees the indicator empty,    *)
(* whatever readers arrive meanwhile: read_indicator_wait_until_empty      *)
(* returns.                                                                *)
WriterDrainsReaders ==
  \A t \in Threads : []<>(pc[t] \notin {"wr_load", "wr_empty"})

(* Both: nobody who has a claim to the lock waits for it for ever.         *)
LockProgress == ImpatientReaderProgress /\ WriterDrainsReaders
=============================================================================
