---------------------------- MODULE RWLockProofs ----------------------------
(***************************************************************************)
(* Safety of the readers-writer lock for any finite set of threads, any    *)
(* mix of calls and any patience, as long as the indicator counters do not *)
(* wrap (CounterLimit = 0): mutual exclusion, the REQUIREs of the code,    *)
(* and the refinement of the abstract readers-writer lock.                 *)
(***************************************************************************)
EXTENDS RWLock, FiniteSetTheorems, TLAPS

(* The program points between acquiring and releasing writers_lock. *)
Owners == {"up_depart", "up_load", "up_empty", "up_arrive", "up_release",
           "wr_load", "wr_empty", "tw_load", "tw_empty", "tw_release",
           "write", "wu_release", "dg_arrive", "dg_release"}

(* The program points between an arrival and the matching departure. *)
Counted == {"rd_check", "rd_depart", "rd_lower", "tr_check", "tr_depart",
            "read", "ru_depart", "up_barrier", "up_acquire", "up_depart",
            "up_release", "dg_release"}

Inside == {t \in Threads : pc[t] \in Counted}
Raised == {t \in Threads : pc[t] \in RdPoints /\ barrier_raised[t]}

(* writers_lock is held exactly while one thread owns it. *)
OwnerInv ==
  /\ \A t \in Threads : pc[t] \in Owners
       => writers_lock /\ \A u \in Threads \ {t} : pc[u] \notin Owners
  /\ writers_lock => \E t \in Threads : pc[t] \in Owners

(* The indicator and the barrier count threads. *)
CountInv ==
  /\ readers_ingress = readers_egress + Cardinality(Inside)
  /\ writers_barrier = Cardinality(Raised)

(* What a writer loaded first never exceeds the departures since. *)
SeenInv ==
  \A t \in Threads :
    pc[t] \in {"wr_empty", "tw_empty", "up_empty"} => seen[t] <= readers_egress

(* barrier_raised tells the two barrier steps of rdlock apart. *)
FlagInv ==
  \A t \in Threads : /\ pc[t] = "rd_raise" => ~barrier_raised[t]
                     /\ pc[t] = "rd_lower" => barrier_raised[t]

IInv == /\ TypeOK /\ OwnerInv /\ CountInv /\ SeenInv /\ FlagInv
        /\ MutualExclusion

-----------------------------------------------------------------------------
\* How the sets of program points lie in each other.
LEMMA PointsLemma ==
  /\ Owners \subseteq Points /\ Counted \subseteq Points
  /\ HoldsWrite \subseteq Owners
  /\ HoldsRead \subseteq Owners \cup Counted
  /\ \A op \in AllCalls : Entry[op] \in Points
  BY DEF Owners, Counted, Points, HoldsWrite, HoldsRead, AllCalls, Entry,
         RdPoints, TrPoints, UpPoints, WrPoints, TwPoints

(* How one thread's move changes the number of threads that satisfy a       *)
(* predicate of their state.                                                *)
LEMMA OneMover ==
  ASSUME NEW A \in SUBSET Threads, NEW B \in SUBSET Threads,
         NEW t \in Threads, \A u \in Threads \ {t} : u \in A <=> u \in B
  PROVE  /\ Cardinality(A) \in Nat /\ Cardinality(B) \in Nat
         /\ (t \in A <=> t \in B) => Cardinality(B) = Cardinality(A)
         /\ t \notin A /\ t \in B => Cardinality(B) = Cardinality(A) + 1
         /\ t \in A /\ t \notin B => Cardinality(B) = Cardinality(A) - 1
  <1>1. IsFiniteSet(A) /\ IsFiniteSet(B)
    BY FS_Subset, ThreadsAssumption
  <1>2. CASE t \in A <=> t \in B
    <2>1. A = B
      BY <1>2
    <2>2. QED BY <1>1, <1>2, <2>1, FS_CardinalityType
  <1>3. CASE t \notin A /\ t \in B
    <2>1. B = A \cup {t}
      BY <1>3
    <2>2. QED BY <1>1, <1>3, <2>1, FS_AddElement, FS_CardinalityType
  <1>4. CASE t \in A /\ t \notin B
    <2>1. B = A \ {t}
      BY <1>4
    <2>2. QED BY <1>1, <1>4, <2>1, FS_RemoveElement, FS_CardinalityType
  <1>5. QED BY <1>2, <1>3, <1>4

(* What a step that moves thread t to program point "to" does to the        *)
(* program counters and to the two counts.                                  *)
LEMMA MoveLemma ==
  ASSUME TypeOK, NEW t \in Threads, NEW to \in Points, Goto(t, to),
         \A u \in Threads \ {t} : barrier_raised'[u] = barrier_raised[u]
  PROVE  /\ pc' \in [Threads -> Points] /\ pc'[t] = to
         /\ \A u \in Threads \ {t} : pc'[u] = pc[u]
         /\ Cardinality(Inside) \in Nat /\ Cardinality(Inside') \in Nat
         /\ Cardinality(Raised) \in Nat /\ Cardinality(Raised') \in Nat
         /\ (pc[t] \in Counted <=> to \in Counted)
              => Cardinality(Inside') = Cardinality(Inside)
         /\ pc[t] \notin Counted /\ to \in Counted
              => Cardinality(Inside') = Cardinality(Inside) + 1
         /\ pc[t] \in Counted /\ to \notin Counted
              => Cardinality(Inside') = Cardinality(Inside) - 1
         /\ (t \in Raised <=> t \in Raised')
              => Cardinality(Raised') = Cardinality(Raised)
         /\ t \notin Raised /\ t \in Raised'
              => Cardinality(Raised') = Cardinality(Raised) + 1
         /\ t \in Raised /\ t \notin Raised'
              => Cardinality(Raised') = Cardinality(Raised) - 1
  <1>1. /\ pc' \in [Threads -> Points] /\ pc'[t] = to
        /\ \A u \in Threads \ {t} : pc'[u] = pc[u]
    BY DEF TypeOK, Goto
  <1>2. /\ Inside \in SUBSET Threads /\ Inside' \in SUBSET Threads
        /\ \A u \in Threads \ {t} : u \in Inside <=> u \in Inside'
        /\ t \in Inside <=> pc[t] \in Counted
        /\ t \in Inside' <=> to \in Counted
    BY <1>1 DEF Inside
  <1>3. /\ Raised \in SUBSET Threads /\ Raised' \in SUBSET Threads
        /\ \A u \in Threads \ {t} : u \in Raised <=> u \in Raised'
    BY <1>1 DEF Raised
  <1>4. /\ Cardinality(Inside) \in Nat /\ Cardinality(Inside') \in Nat
        /\ (pc[t] \in Counted <=> to \in Counted)
              => Cardinality(Inside') = Cardinality(Inside)
        /\ pc[t] \notin Counted /\ to \in Counted
              => Cardinality(Inside') = Cardinality(Inside) + 1
        /\ pc[t] \in Counted /\ to \notin Counted
              => Cardinality(Inside') = Cardinality(Inside) - 1
    BY <1>2, OneMover
  <1>5. /\ Cardinality(Raised) \in Nat /\ Cardinality(Raised') \in Nat
        /\ (t \in Raised <=> t \in Raised')
              => Cardinality(Raised') = Cardinality(Raised)
        /\ t \notin Raised /\ t \in Raised'
              => Cardinality(Raised') = Cardinality(Raised) + 1
        /\ t \in Raised /\ t \notin Raised'
              => Cardinality(Raised') = Cardinality(Raised) - 1
    BY <1>3, OneMover
  <1>6. QED BY <1>1, <1>4, <1>5

-----------------------------------------------------------------------------
(* Type correctness does not depend on the width of the counters.           *)
LEMMA InitTypeOK == Init => TypeOK
  <1> SUFFICES ASSUME Init PROVE TypeOK
    OBVIOUS
  <1>1. writers_lock \in BOOLEAN /\ barrier_raised \in [Threads -> BOOLEAN]
    BY Zenon DEF Init
  <1>2. "idle" \in Points /\ 0 \in 0..Patience
    BY BoundsAssumption DEF Points
  <1>3. QED BY <1>1, <1>2 DEF Init, TypeOK

\* isc_rwlock_init: no thread is inside and no counter is raised.
LEMMA InitIInv == Init => IInv
  <1> SUFFICES ASSUME Init PROVE IInv
    OBVIOUS
  <1>1. TypeOK
    BY InitTypeOK
  <1>2. Inside = {} /\ Raised = {}
    BY DEF Init, Inside, Raised, Counted, RdPoints
  <1>3. CountInv
    BY <1>2, FS_EmptySet DEF Init, CountInv
  <1>4. OwnerInv /\ SeenInv /\ FlagInv /\ MutualExclusion
    BY DEF Init, OwnerInv, SeenInv, FlagInv, MutualExclusion, Owners, HoldsWrite
  <1>5. QED BY <1>1, <1>3, <1>4 DEF IInv

\* read_indicator_arrive: the caller is counted as a reader from here on.
LEMMA ArriveStep ==
  ASSUME IInv, CounterLimit = 0, NEW t \in Threads, Arrive(t)
  PROVE  IInv'
  <1>1. PICK to \in {"rd_check", "tr_check", "up_release", "dg_release"} :
          /\ Goto(t, to)
          /\ to = "rd_check" => pc[t] = "rd_arrive"
          /\ to = "tr_check" => pc[t] = "tr_arrive"
          /\ to = "up_release" => pc[t] = "up_arrive"
          /\ to = "dg_release" => pc[t] = "dg_arrive"
    BY DEF Arrive
  <1>2. /\ readers_ingress' = readers_ingress + 1
        /\ UNCHANGED <<writers_lock, writers_barrier, readers_egress, cnt,
                       barrier_raised, seen>>
    BY DEF Arrive, read_indicator_arrive, Bump, locals, IInv, TypeOK
  <1>3. to \in Points /\ to \in Counted /\ pc[t] \notin Counted
    BY <1>1 DEF Points, Counted, RdPoints, TrPoints, UpPoints, WrPoints,
                TwPoints
  <1>4. /\ pc' \in [Threads -> Points] /\ pc'[t] = to
        /\ \A u \in Threads \ {t} : pc'[u] = pc[u]
        /\ Cardinality(Inside) \in Nat /\ Cardinality(Raised) \in Nat
        /\ Cardinality(Inside') = Cardinality(Inside) + 1
    BY <1>1, <1>2, <1>3, MoveLemma DEF IInv, TypeOK
  <1>5. Cardinality(Raised') = Cardinality(Raised)
    <2>1. t \in Raised <=> t \in Raised'
      BY <1>1, <1>2, <1>4 DEF Raised, RdPoints, IInv, TypeOK, FlagInv
    <2>2. QED BY <1>1, <1>2, <1>3, <2>1, MoveLemma DEF IInv, TypeOK
  <1>6. TypeOK'
    BY <1>2, <1>4 DEF IInv, TypeOK
  <1>7. OwnerInv'
    BY <1>1, <1>2, <1>4 DEF IInv, OwnerInv, Owners
  <1>8. CountInv'
    BY <1>2, <1>4, <1>5 DEF IInv, TypeOK, CountInv
  <1>9. SeenInv' /\ FlagInv'
    BY <1>1, <1>2, <1>4 DEF IInv, TypeOK, SeenInv, FlagInv
  <1>10. MutualExclusion'
    BY <1>1, <1>2, <1>4 DEF IInv, MutualExclusion, HoldsWrite, HoldsRead,
                            UpPoints
  <1>11. QED BY <1>6, <1>7, <1>8, <1>9, <1>10 DEF IInv

\* read_indicator_depart: the caller is no longer counted.
LEMMA DepartStep ==
  ASSUME IInv, CounterLimit = 0, NEW t \in Threads, Depart(t)
  PROVE  IInv'
  <1>1. PICK to \in {"rd_spin", "idle", "up_load"} :
          /\ Goto(t, to)
          /\ to = "rd_spin" => pc[t] = "rd_depart"
          /\ to = "idle" => pc[t] \in {"tr_depart", "ru_depart"}
          /\ to = "up_load" => pc[t] = "up_depart"
    BY DEF Depart
  <1>2. /\ readers_egress' = readers_egress + 1
        /\ UNCHANGED <<writers_lock, writers_barrier, readers_ingress, cnt,
                       barrier_raised, seen>>
    BY DEF Depart, read_indicator_depart, Bump, locals, IInv, TypeOK
  <1>3. to \in Points /\ to \notin Counted /\ pc[t] \in Counted
    BY <1>1 DEF Points, Counted, RdPoints, TrPoints, UpPoints, WrPoints,
                TwPoints
  <1>4. /\ pc' \in [Threads -> Points] /\ pc'[t] = to
        /\ \A u \in Threads \ {t} : pc'[u] = pc[u]
        /\ Cardinality(Inside) \in Nat /\ Cardinality(Raised) \in Nat
        /\ Cardinality(Inside') = Cardinality(Inside) - 1
    BY <1>1, <1>2, <1>3, MoveLemma DEF IInv, TypeOK
  <1>5. Cardinality(Raised') = Cardinality(Raised)
    <2>1. t \in Raised <=> t \in Raised'
      BY <1>1, <1>2, <1>4 DEF Raised, RdPoints, IInv, TypeOK, FlagInv
    <2>2. QED BY <1>1, <1>2, <1>3, <2>1, MoveLemma DEF IInv, TypeOK
  <1>6. TypeOK'
    BY <1>2, <1>4 DEF IInv, TypeOK
  <1>7. OwnerInv'
    BY <1>1, <1>2, <1>4 DEF IInv, OwnerInv, Owners
  <1>8. CountInv'
    BY <1>2, <1>4, <1>5 DEF IInv, TypeOK, CountInv
  <1>9. SeenInv' /\ FlagInv'
    BY <1>1, <1>2, <1>4 DEF IInv, TypeOK, SeenInv, FlagInv
  <1>10. MutualExclusion'
    BY <1>1, <1>2, <1>4 DEF IInv, MutualExclusion, HoldsWrite, HoldsRead,
                            UpPoints
  <1>11. QED BY <1>6, <1>7, <1>8, <1>9, <1>10 DEF IInv

\* A reader that was counted looks at the writer's lock.
LEMMA RdCheckStep ==
  ASSUME IInv, CounterLimit = 0, NEW t \in Threads, RdCheck(t)
  PROVE  IInv'
  <1>1. PICK to \in {"rd_depart", "tr_depart", "rd_lower", "read"} :
          /\ Goto(t, to)
          /\ to = "rd_depart" => pc[t] = "rd_check"
          /\ to = "tr_depart" => pc[t] = "tr_check"
          /\ to = "rd_lower" => pc[t] = "rd_check" /\ ~writers_lock /\ barrier_raised[t]
          /\ to = "read" => /\ ~writers_lock
                             /\ \/ pc[t] = "tr_check"
                                \/ pc[t] = "rd_check" /\ ~barrier_raised[t]
    BY DEF RdCheck
  <1>2. UNCHANGED <<writers_lock, writers_barrier, readers_ingress,
                        readers_egress, cnt, barrier_raised, seen>>
    BY DEF RdCheck, shared, locals
  <1>3. to \in Points /\ (pc[t] \in Counted <=> to \in Counted)
    BY <1>1 DEF Points, Counted, RdPoints, TrPoints, UpPoints, WrPoints,
                TwPoints
  <1>4. /\ pc' \in [Threads -> Points] /\ pc'[t] = to
        /\ \A u \in Threads \ {t} : pc'[u] = pc[u]
        /\ Cardinality(Inside) \in Nat /\ Cardinality(Raised) \in Nat
        /\ Cardinality(Inside') = Cardinality(Inside)
    BY <1>1, <1>2, <1>3, MoveLemma DEF IInv, TypeOK
  <1>5. Cardinality(Raised') = Cardinality(Raised)
    <2>1. t \in Raised <=> t \in Raised'
      BY <1>1, <1>2, <1>4 DEF Raised, RdPoints, IInv, TypeOK, FlagInv
    <2>2. QED BY <1>1, <1>2, <1>3, <2>1, MoveLemma DEF IInv, TypeOK
  <1>6. TypeOK'
    BY <1>2, <1>4 DEF IInv, TypeOK
  <1>7. OwnerInv'
    BY <1>1, <1>2, <1>4 DEF IInv, OwnerInv, Owners
  <1>8. CountInv'
    BY <1>2, <1>4, <1>5 DEF IInv, TypeOK, CountInv
  <1>9. SeenInv' /\ FlagInv'
    BY <1>1, <1>2, <1>4 DEF IInv, TypeOK, SeenInv, FlagInv
  <1>10. MutualExclusion'
    <2>1. to \in {"read", "rd_lower"} =>
            \A u \in Threads : pc[u] \notin HoldsWrite
      BY <1>1, PointsLemma DEF IInv, OwnerInv
    <2>2. QED BY <1>1, <1>2, <1>4, <2>1 DEF IInv, MutualExclusion,
                   HoldsWrite, HoldsRead, UpPoints
  <1>11. QED BY <1>6, <1>7, <1>8, <1>9, <1>10 DEF IInv

\* A reader waits for the writer to leave.
LEMMA RdSpinStep ==
  ASSUME IInv, CounterLimit = 0, NEW t \in Threads, RdSpin(t)
  PROVE  IInv'
  <1>1. PICK to \in {"rd_arrive", "rd_raise", "rd_spin"} :
          /\ Goto(t, to)
          /\ to = "rd_arrive" => pc[t] = "rd_spin"
          /\ to = "rd_raise" => pc[t] = "rd_spin" /\ ~barrier_raised[t]
          /\ to = "rd_spin" => pc[t] = "rd_spin"
    BY DEF RdSpin
  <1>2. /\ cnt' \in [Threads -> 0..Patience]
        /\ UNCHANGED <<writers_lock, writers_barrier, readers_ingress,
                        readers_egress, barrier_raised, seen>>
    <2>1. cnt' \in [Threads -> 0..Patience]
      BY BoundsAssumption DEF RdSpin, IInv, TypeOK
    <2>2. QED BY <2>1 DEF RdSpin, shared
  <1>3. to \in Points /\ (pc[t] \in Counted <=> to \in Counted)
    BY <1>1 DEF Points, Counted, RdPoints, TrPoints, UpPoints, WrPoints,
                TwPoints
  <1>4. /\ pc' \in [Threads -> Points] /\ pc'[t] = to
        /\ \A u \in Threads \ {t} : pc'[u] = pc[u]
        /\ Cardinality(Inside) \in Nat /\ Cardinality(Raised) \in Nat
        /\ Cardinality(Inside') = Cardinality(Inside)
    BY <1>1, <1>2, <1>3, MoveLemma DEF IInv, TypeOK
  <1>5. Cardinality(Raised') = Cardinality(Raised)
    <2>1. t \in Raised <=> t \in Raised'
      BY <1>1, <1>2, <1>4 DEF Raised, RdPoints, IInv, TypeOK, FlagInv
    <2>2. QED BY <1>1, <1>2, <1>3, <2>1, MoveLemma DEF IInv, TypeOK
  <1>6. TypeOK'
    BY <1>2, <1>4 DEF IInv, TypeOK
  <1>7. OwnerInv'
    BY <1>1, <1>2, <1>4 DEF IInv, OwnerInv, Owners
  <1>8. CountInv'
    BY <1>2, <1>4, <1>5 DEF IInv, TypeOK, CountInv
  <1>9. SeenInv' /\ FlagInv'
    BY <1>1, <1>2, <1>4 DEF IInv, TypeOK, SeenInv, FlagInv
  <1>10. MutualExclusion'
    BY <1>1, <1>2, <1>4 DEF IInv, MutualExclusion, HoldsWrite, HoldsRead,
                            UpPoints
  <1>11. QED BY <1>6, <1>7, <1>8, <1>9, <1>10 DEF IInv

\* A reader that waited too long raises the writers' barrier.
LEMMA RdRaiseStep ==
  ASSUME IInv, CounterLimit = 0, NEW t \in Threads, RdRaise(t)
  PROVE  IInv'
  <1>1. PICK to \in {"rd_spin"} :
          /\ Goto(t, to)
          /\ to = "rd_spin" => pc[t] = "rd_raise"
    BY DEF RdRaise
  <1>2. /\ writers_barrier' = writers_barrier + 1
        /\ barrier_raised' = [barrier_raised EXCEPT ![t] = TRUE]
        /\ UNCHANGED <<writers_lock, readers_ingress, readers_egress, cnt, seen>>
    BY DEF RdRaise, writers_barrier_raise
  <1>3. to \in Points /\ (pc[t] \in Counted <=> to \in Counted)
    BY <1>1 DEF Points, Counted, RdPoints, TrPoints, UpPoints, WrPoints,
                TwPoints
  <1>4. /\ pc' \in [Threads -> Points] /\ pc'[t] = to
        /\ \A u \in Threads \ {t} : pc'[u] = pc[u]
        /\ Cardinality(Inside) \in Nat /\ Cardinality(Raised) \in Nat
        /\ Cardinality(Inside') = Cardinality(Inside)
    BY <1>1, <1>2, <1>3, MoveLemma, Zenon DEF IInv, TypeOK
  <1>5. Cardinality(Raised') = Cardinality(Raised) + 1
    <2>1. t \notin Raised /\ t \in Raised'
      BY <1>1, <1>2, <1>4 DEF Raised, RdPoints, IInv, TypeOK, FlagInv
    <2>2. QED BY <1>1, <1>2, <1>3, <2>1, MoveLemma, Zenon DEF IInv, TypeOK
  <1>6. TypeOK'
    <2>1. barrier_raised' \in [Threads -> BOOLEAN]
      BY <1>2, Zenon DEF IInv, TypeOK
    <2>2. QED BY <1>2, <1>4, <2>1 DEF IInv, TypeOK
  <1>7. OwnerInv'
    BY <1>1, <1>2, <1>4 DEF IInv, OwnerInv, Owners
  <1>8. CountInv'
    BY <1>2, <1>4, <1>5 DEF IInv, TypeOK, CountInv
  <1>9. SeenInv' /\ FlagInv'
    BY <1>1, <1>2, <1>4 DEF IInv, TypeOK, SeenInv, FlagInv
  <1>10. MutualExclusion'
    BY <1>1, <1>2, <1>4 DEF IInv, MutualExclusion, HoldsWrite, HoldsRead,
                            UpPoints
  <1>11. QED BY <1>6, <1>7, <1>8, <1>9, <1>10 DEF IInv

\* A reader that raised the barrier lowers it once it is in.
LEMMA RdLowerStep ==
  ASSUME IInv, CounterLimit = 0, NEW t \in Threads, RdLower(t)
  PROVE  IInv'
  <1>1. PICK to \in {"read"} :
          /\ Goto(t, to)
          /\ to = "read" => pc[t] = "rd_lower"
    BY DEF RdLower
  <1>2. /\ writers_barrier' = writers_barrier - 1
        /\ UNCHANGED <<writers_lock, readers_ingress, readers_egress, cnt,
                       barrier_raised, seen>>
    BY DEF RdLower, writers_barrier_lower, locals
  <1>3. to \in Points /\ (pc[t] \in Counted <=> to \in Counted)
    BY <1>1 DEF Points, Counted, RdPoints, TrPoints, UpPoints, WrPoints,
                TwPoints
  <1>4. /\ pc' \in [Threads -> Points] /\ pc'[t] = to
        /\ \A u \in Threads \ {t} : pc'[u] = pc[u]
        /\ Cardinality(Inside) \in Nat /\ Cardinality(Raised) \in Nat
        /\ Cardinality(Inside') = Cardinality(Inside)
    BY <1>1, <1>2, <1>3, MoveLemma DEF IInv, TypeOK
  <1>5. Cardinality(Raised') = Cardinality(Raised) - 1
    <2>1. t \in Raised /\ t \notin Raised'
      BY <1>1, <1>2, <1>4 DEF Raised, RdPoints, IInv, TypeOK, FlagInv
    <2>2. QED BY <1>1, <1>2, <1>3, <2>1, MoveLemma DEF IInv, TypeOK
  <1>6. TypeOK'
    <2>1. writers_barrier' = Cardinality(Raised')
      BY <1>2, <1>4, <1>5 DEF IInv, CountInv
    <2>2. writers_barrier' \in Nat
      BY <1>1, <1>2, <1>3, <2>1, MoveLemma DEF IInv
    <2>3. QED BY <1>2, <1>4, <2>2 DEF IInv, TypeOK
  <1>7. OwnerInv'
    BY <1>1, <1>2, <1>4 DEF IInv, OwnerInv, Owners
  <1>8. CountInv'
    BY <1>2, <1>4, <1>5 DEF IInv, TypeOK, CountInv
  <1>9. SeenInv' /\ FlagInv'
    BY <1>1, <1>2, <1>4 DEF IInv, TypeOK, SeenInv, FlagInv
  <1>10. MutualExclusion'
    BY <1>1, <1>2, <1>4 DEF IInv, MutualExclusion, HoldsWrite, HoldsRead,
                            UpPoints
  <1>11. QED BY <1>6, <1>7, <1>8, <1>9, <1>10 DEF IInv

\* A writer looks at the barrier.
LEMMA BarrierCheckStep ==
  ASSUME IInv, CounterLimit = 0, NEW t \in Threads, BarrierCheck(t)
  PROVE  IInv'
  <1>1. PICK to \in {"wr_acquire", "tw_acquire", "idle",
                     "up_acquire", "read"} :
          /\ Goto(t, to)
          /\ to = "wr_acquire" => pc[t] = "wr_barrier"
          /\ to = "tw_acquire" => pc[t] = "tw_barrier"
          /\ to = "idle" => pc[t] = "tw_barrier"
          /\ to = "up_acquire" => pc[t] = "up_barrier"
          /\ to = "read" => pc[t] = "up_barrier"
    BY DEF BarrierCheck
  <1>2. UNCHANGED <<writers_lock, writers_barrier, readers_ingress,
                        readers_egress, cnt, barrier_raised, seen>>
    BY DEF BarrierCheck, shared, locals
  <1>3. to \in Points /\ (pc[t] \in Counted <=> to \in Counted)
    BY <1>1 DEF Points, Counted, RdPoints, TrPoints, UpPoints, WrPoints,
                TwPoints
  <1>4. /\ pc' \in [Threads -> Points] /\ pc'[t] = to
        /\ \A u \in Threads \ {t} : pc'[u] = pc[u]
        /\ Cardinality(Inside) \in Nat /\ Cardinality(Raised) \in Nat
        /\ Cardinality(Inside') = Cardinality(Inside)
    BY <1>1, <1>2, <1>3, MoveLemma DEF IInv, TypeOK
  <1>5. Cardinality(Raised') = Cardinality(Raised)
    <2>1. t \in Raised <=> t \in Raised'
      BY <1>1, <1>2, <1>4 DEF Raised, RdPoints, IInv, TypeOK, FlagInv
    <2>2. QED BY <1>1, <1>2, <1>3, <2>1, MoveLemma DEF IInv, TypeOK
  <1>6. TypeOK'
    BY <1>2, <1>4 DEF IInv, TypeOK
  <1>7. OwnerInv'
    BY <1>1, <1>2, <1>4 DEF IInv, OwnerInv, Owners
  <1>8. CountInv'
    BY <1>2, <1>4, <1>5 DEF IInv, TypeOK, CountInv
  <1>9. SeenInv' /\ FlagInv'
    BY <1>1, <1>2, <1>4 DEF IInv, TypeOK, SeenInv, FlagInv
  <1>10. MutualExclusion'
    BY <1>1, <1>2, <1>4 DEF IInv, MutualExclusion, HoldsWrite, HoldsRead,
                            UpPoints
  <1>11. QED BY <1>6, <1>7, <1>8, <1>9, <1>10 DEF IInv

\* The compare-and-swap that takes the writer's lock succeeds.
LEMMA WrAcquireStep ==
  ASSUME IInv, CounterLimit = 0, NEW t \in Threads, WrAcquire(t)
  PROVE  IInv'
  <1>1. PICK to \in {"wr_load", "tw_load", "up_depart"} :
          /\ Goto(t, to)
          /\ to = "wr_load" => pc[t] = "wr_acquire"
          /\ to = "tw_load" => pc[t] = "tw_acquire"
          /\ to = "up_depart" => pc[t] = "up_acquire"
    BY DEF WrAcquire
  <1>2. /\ ~writers_lock /\ writers_lock'
        /\ writers_lock' \in BOOLEAN
        /\ UNCHANGED <<writers_barrier, readers_ingress, readers_egress, cnt,
                       barrier_raised, seen>>
    BY DEF WrAcquire, writers_lock_acquire, locals
  <1>3. to \in Points /\ (pc[t] \in Counted <=> to \in Counted)
    BY <1>1 DEF Points, Counted, RdPoints, TrPoints, UpPoints, WrPoints,
                TwPoints
  <1>4. /\ pc' \in [Threads -> Points] /\ pc'[t] = to
        /\ \A u \in Threads \ {t} : pc'[u] = pc[u]
        /\ Cardinality(Inside) \in Nat /\ Cardinality(Raised) \in Nat
        /\ Cardinality(Inside') = Cardinality(Inside)
    BY <1>1, <1>2, <1>3, MoveLemma DEF IInv, TypeOK
  <1>5. Cardinality(Raised') = Cardinality(Raised)
    <2>1. t \in Raised <=> t \in Raised'
      BY <1>1, <1>2, <1>4 DEF Raised, RdPoints, IInv, TypeOK, FlagInv
    <2>2. QED BY <1>1, <1>2, <1>3, <2>1, MoveLemma DEF IInv, TypeOK
  <1>6. TypeOK'
    BY <1>2, <1>4 DEF IInv, TypeOK
  <1>7. OwnerInv'
    BY <1>1, <1>2, <1>4 DEF IInv, OwnerInv, Owners
  <1>8. CountInv'
    BY <1>2, <1>4, <1>5 DEF IInv, TypeOK, CountInv
  <1>9. SeenInv' /\ FlagInv'
    BY <1>1, <1>2, <1>4 DEF IInv, TypeOK, SeenInv, FlagInv
  <1>10. MutualExclusion'
    BY <1>1, <1>2, <1>4 DEF IInv, MutualExclusion, HoldsWrite, HoldsRead,
                            UpPoints
  <1>11. QED BY <1>6, <1>7, <1>8, <1>9, <1>10 DEF IInv

\* It fails, for a caller that only tries.
LEMMA WrAcquireFailsStep ==
  ASSUME IInv, CounterLimit = 0, NEW t \in Threads, WrAcquireFails(t)
  PROVE  IInv'
  <1>1. PICK to \in {"idle", "read"} :
          /\ Goto(t, to)
          /\ to = "idle" => pc[t] = "tw_acquire"
          /\ to = "read" => pc[t] = "up_acquire"
    BY DEF WrAcquireFails
  <1>2. UNCHANGED <<writers_lock, writers_barrier, readers_ingress,
                        readers_egress, cnt, barrier_raised, seen>>
    BY DEF WrAcquireFails, shared, locals
  <1>3. to \in Points /\ (pc[t] \in Counted <=> to \in Counted)
    BY <1>1 DEF Points, Counted, RdPoints, TrPoints, UpPoints, WrPoints,
                TwPoints
  <1>4. /\ pc' \in [Threads -> Points] /\ pc'[t] = to
        /\ \A u \in Threads \ {t} : pc'[u] = pc[u]
        /\ Cardinality(Inside) \in Nat /\ Cardinality(Raised) \in Nat
        /\ Cardinality(Inside') = Cardinality(Inside)
    BY <1>1, <1>2, <1>3, MoveLemma DEF IInv, TypeOK
  <1>5. Cardinality(Raised') = Cardinality(Raised)
    <2>1. t \in Raised <=> t \in Raised'
      BY <1>1, <1>2, <1>4 DEF Raised, RdPoints, IInv, TypeOK, FlagInv
    <2>2. QED BY <1>1, <1>2, <1>3, <2>1, MoveLemma DEF IInv, TypeOK
  <1>6. TypeOK'
    BY <1>2, <1>4 DEF IInv, TypeOK
  <1>7. OwnerInv'
    BY <1>1, <1>2, <1>4 DEF IInv, OwnerInv, Owners
  <1>8. CountInv'
    BY <1>2, <1>4, <1>5 DEF IInv, TypeOK, CountInv
  <1>9. SeenInv' /\ FlagInv'
    BY <1>1, <1>2, <1>4 DEF IInv, TypeOK, SeenInv, FlagInv
  <1>10. MutualExclusion'
    BY <1>1, <1>2, <1>4 DEF IInv, MutualExclusion, HoldsWrite, HoldsRead,
                            UpPoints
  <1>11. QED BY <1>6, <1>7, <1>8, <1>9, <1>10 DEF IInv

\* read_indicator_isempty loads the first counter.
LEMMA LoadFirstStep ==
  ASSUME IInv, CounterLimit = 0, NEW t \in Threads, LoadFirst(t)
  PROVE  IInv'
  <1>1. PICK to \in {"wr_empty", "tw_empty", "up_empty"} :
          /\ Goto(t, to)
          /\ to = "wr_empty" => pc[t] = "wr_load"
          /\ to = "tw_empty" => pc[t] = "tw_load"
          /\ to = "up_empty" => pc[t] = "up_load"
    BY DEF LoadFirst
  <1>2. /\ seen' = [seen EXCEPT ![t] = readers_egress]
        /\ UNCHANGED <<writers_lock, writers_barrier, readers_ingress,
                        readers_egress, cnt, barrier_raised>>
    BY DEF LoadFirst, shared, IndicatorLoads
  <1>3. to \in Points /\ (pc[t] \in Counted <=> to \in Counted)
    BY <1>1 DEF Points, Counted, RdPoints, TrPoints, UpPoints, WrPoints,
                TwPoints
  <1>4. /\ pc' \in [Threads -> Points] /\ pc'[t] = to
        /\ \A u \in Threads \ {t} : pc'[u] = pc[u]
        /\ Cardinality(Inside) \in Nat /\ Cardinality(Raised) \in Nat
        /\ Cardinality(Inside') = Cardinality(Inside)
    BY <1>1, <1>2, <1>3, MoveLemma DEF IInv, TypeOK
  <1>5. Cardinality(Raised') = Cardinality(Raised)
    <2>1. t \in Raised <=> t \in Raised'
      BY <1>1, <1>2, <1>4 DEF Raised, RdPoints, IInv, TypeOK, FlagInv
    <2>2. QED BY <1>1, <1>2, <1>3, <2>1, MoveLemma DEF IInv, TypeOK
  <1>6. TypeOK'
    BY <1>2, <1>4, Zenon DEF IInv, TypeOK
  <1>7. OwnerInv'
    BY <1>1, <1>2, <1>4 DEF IInv, OwnerInv, Owners
  <1>8. CountInv'
    BY <1>2, <1>4, <1>5 DEF IInv, TypeOK, CountInv
  <1>9. SeenInv' /\ FlagInv'
    BY <1>1, <1>2, <1>4 DEF IInv, TypeOK, SeenInv, FlagInv
  <1>10. MutualExclusion'
    BY <1>1, <1>2, <1>4 DEF IInv, MutualExclusion, HoldsWrite, HoldsRead,
                            UpPoints
  <1>11. QED BY <1>6, <1>7, <1>8, <1>9, <1>10 DEF IInv

\* It loads the second: equal counters mean that no reader was inside all along.
LEMMA LoadSecondStep ==
  ASSUME IInv, CounterLimit = 0, NEW t \in Threads, LoadSecond(t)
  PROVE  IInv'
  <1>1. PICK to \in {"write", "wr_load", "tw_release", "up_arrive"} :
          /\ Goto(t, to)
          /\ to = "write" => /\ pc[t] \in {"wr_empty", "tw_empty", "up_empty"}
                            /\ seen[t] = readers_ingress
          /\ to = "wr_load" => pc[t] = "wr_empty"
          /\ to = "tw_release" => pc[t] = "tw_empty"
          /\ to = "up_arrive" => pc[t] = "up_empty"
    BY DEF LoadSecond, IndicatorLoads
  <1>2. /\ seen' = [seen EXCEPT ![t] = 0]
        /\ UNCHANGED <<writers_lock, writers_barrier, readers_ingress,
                        readers_egress, cnt, barrier_raised>>
    BY DEF LoadSecond, shared
  <1>3. to \in Points /\ (pc[t] \in Counted <=> to \in Counted)
    BY <1>1 DEF Points, Counted, RdPoints, TrPoints, UpPoints, WrPoints,
                TwPoints
  <1>4. /\ pc' \in [Threads -> Points] /\ pc'[t] = to
        /\ \A u \in Threads \ {t} : pc'[u] = pc[u]
        /\ Cardinality(Inside) \in Nat /\ Cardinality(Raised) \in Nat
        /\ Cardinality(Inside') = Cardinality(Inside)
    BY <1>1, <1>2, <1>3, MoveLemma DEF IInv, TypeOK
  <1>5. Cardinality(Raised') = Cardinality(Raised)
    <2>1. t \in Raised <=> t \in Raised'
      BY <1>1, <1>2, <1>4 DEF Raised, RdPoints, IInv, TypeOK, FlagInv
    <2>2. QED BY <1>1, <1>2, <1>3, <2>1, MoveLemma DEF IInv, TypeOK
  <1>6. TypeOK'
    BY <1>2, <1>4, Zenon DEF IInv, TypeOK
  <1>7. OwnerInv'
    BY <1>1, <1>2, <1>4 DEF IInv, OwnerInv, Owners
  <1>8. CountInv'
    BY <1>2, <1>4, <1>5 DEF IInv, TypeOK, CountInv
  <1>9. SeenInv' /\ FlagInv'
    BY <1>1, <1>2, <1>4 DEF IInv, TypeOK, SeenInv, FlagInv
  <1>10. MutualExclusion'
    <2>1. to = "write" => \A u \in Threads : pc[u] \notin Counted
      <3>1. to = "write" => seen[t] <= readers_egress
        BY <1>1 DEF IInv, SeenInv
      <3>2. to = "write" => Cardinality(Inside) = 0
        BY <1>1, <1>4, <3>1 DEF IInv, TypeOK, CountInv
      <3>3. Inside \in SUBSET Threads
        BY DEF Inside
      <3>4. IsFiniteSet(Inside)
        BY <3>3, FS_Subset, ThreadsAssumption
      <3>5. to = "write" => Inside = {}
        BY <3>2, <3>4, FS_EmptySet
      <3>6. QED BY <3>5 DEF Inside
    <2>2. \A u \in Threads \ {t} : pc[u] \notin Owners
      BY <1>1 DEF IInv, OwnerInv, Owners
    <2>3. QED BY <1>1, <1>2, <1>4, <2>1, <2>2, PointsLemma DEF IInv,
                   MutualExclusion, HoldsWrite
  <1>11. QED BY <1>6, <1>7, <1>8, <1>9, <1>10 DEF IInv

\* The writer's lock is released.
LEMMA WrReleaseStep ==
  ASSUME IInv, CounterLimit = 0, NEW t \in Threads, WrRelease(t)
  PROVE  IInv'
  <1>1. PICK to \in {"idle", "read"} :
          /\ Goto(t, to)
          /\ to = "idle" => pc[t] \in {"wu_release", "tw_release"}
          /\ to = "read" => pc[t] \in {"dg_release", "up_release"}
    BY DEF WrRelease
  <1>2. /\ ~writers_lock' /\ writers_lock' \in BOOLEAN
        /\ UNCHANGED <<writers_barrier, readers_ingress, readers_egress, cnt,
                       barrier_raised, seen>>
    BY Zenon DEF WrRelease, writers_lock_release, locals
  <1>3. to \in Points /\ (pc[t] \in Counted <=> to \in Counted)
    BY <1>1 DEF Points, Counted, RdPoints, TrPoints, UpPoints, WrPoints,
                TwPoints
  <1>4. /\ pc' \in [Threads -> Points] /\ pc'[t] = to
        /\ \A u \in Threads \ {t} : pc'[u] = pc[u]
        /\ Cardinality(Inside) \in Nat /\ Cardinality(Raised) \in Nat
        /\ Cardinality(Inside') = Cardinality(Inside)
    BY <1>1, <1>2, <1>3, MoveLemma DEF IInv, TypeOK
  <1>5. Cardinality(Raised') = Cardinality(Raised)
    <2>1. t \in Raised <=> t \in Raised'
      BY <1>1, <1>2, <1>4 DEF Raised, RdPoints, IInv, TypeOK, FlagInv
    <2>2. QED BY <1>1, <1>2, <1>3, <2>1, MoveLemma DEF IInv, TypeOK
  <1>6. TypeOK'
    BY <1>2, <1>4 DEF IInv, TypeOK
  <1>7. OwnerInv'
    BY <1>1, <1>2, <1>4 DEF IInv, OwnerInv, Owners
  <1>8. CountInv'
    BY <1>2, <1>4, <1>5 DEF IInv, TypeOK, CountInv
  <1>9. SeenInv' /\ FlagInv'
    BY <1>1, <1>2, <1>4 DEF IInv, TypeOK, SeenInv, FlagInv
  <1>10. MutualExclusion'
    <2>1. \A u \in Threads \ {t} : pc[u] \notin HoldsWrite
      BY <1>1, PointsLemma, Zenon DEF IInv, OwnerInv, Owners
    <2>2. QED BY <1>1, <1>4, <2>1 DEF IInv, MutualExclusion, HoldsWrite
  <1>11. QED BY <1>6, <1>7, <1>8, <1>9, <1>10 DEF IInv

\* A thread enters one of the functions of the interface.
LEMMA CallStep ==
  ASSUME IInv, CounterLimit = 0, NEW t \in Threads, NEW op \in AllCalls,
         Call(t, op)
  PROVE  IInv'
  <1>1. PICK to \in {"rd_arrive", "tr_arrive", "ru_depart", "up_barrier", "wr_barrier",
                     "tw_barrier", "wu_release", "dg_arrive"} :
          /\ Goto(t, to)
          /\ to = "rd_arrive" => pc[t] = "idle"
          /\ to = "tr_arrive" => pc[t] = "idle"
          /\ to = "ru_depart" => pc[t] = "read"
          /\ to = "up_barrier" => pc[t] = "read"
          /\ to = "wr_barrier" => pc[t] = "idle"
          /\ to = "tw_barrier" => pc[t] = "idle"
          /\ to = "wu_release" => pc[t] = "write"
          /\ to = "dg_arrive" => pc[t] = "write"
    BY DEF Call, CallerAt, Entry, AllCalls
  <1>2. /\ cnt' = [cnt EXCEPT ![t] = 0]
        /\ barrier_raised' = [barrier_raised EXCEPT ![t] = FALSE]
        /\ UNCHANGED <<writers_lock, writers_barrier, readers_ingress,
                        readers_egress, seen>>
    BY DEF Call, shared
  <1>3. to \in Points /\ (pc[t] \in Counted <=> to \in Counted)
    BY <1>1 DEF Points, Counted, RdPoints, TrPoints, UpPoints, WrPoints,
                TwPoints
  <1>4. /\ pc' \in [Threads -> Points] /\ pc'[t] = to
        /\ \A u \in Threads \ {t} : pc'[u] = pc[u]
        /\ Cardinality(Inside) \in Nat /\ Cardinality(Raised) \in Nat
        /\ Cardinality(Inside') = Cardinality(Inside)
    BY <1>1, <1>2, <1>3, MoveLemma, Zenon DEF IInv, TypeOK
  <1>5. Cardinality(Raised') = Cardinality(Raised)
    <2>1. t \in Raised <=> t \in Raised'
      BY <1>1, <1>2, <1>4 DEF Raised, RdPoints, IInv, TypeOK, FlagInv
    <2>2. QED BY <1>1, <1>2, <1>3, <2>1, MoveLemma, Zenon DEF IInv, TypeOK
  <1>6. TypeOK'
    <2>1. barrier_raised' \in [Threads -> BOOLEAN]
      BY <1>2, Zenon DEF IInv, TypeOK
    <2>2. cnt' \in [Threads -> 0..Patience]
      BY <1>2, BoundsAssumption DEF IInv, TypeOK
    <2>3. QED BY <1>2, <1>4, <2>1, <2>2 DEF IInv, TypeOK
  <1>7. OwnerInv'
    BY <1>1, <1>2, <1>4 DEF IInv, OwnerInv, Owners
  <1>8. CountInv'
    BY <1>2, <1>4, <1>5 DEF IInv, TypeOK, CountInv
  <1>9. SeenInv' /\ FlagInv'
    BY <1>1, <1>2, <1>4 DEF IInv, TypeOK, SeenInv, FlagInv
  <1>10. MutualExclusion'
    BY <1>1, <1>2, <1>4 DEF IInv, MutualExclusion, HoldsWrite, HoldsRead,
                            UpPoints
  <1>11. QED BY <1>6, <1>7, <1>8, <1>9, <1>10 DEF IInv

\* Every step keeps the invariant.
LEMMA NextIInv == CounterLimit = 0 /\ IInv /\ [Next]_vars => IInv'
  <1> SUFFICES ASSUME CounterLimit = 0, IInv, [Next]_vars PROVE IInv'
    OBVIOUS
  <1>1. CASE UNCHANGED vars
    BY <1>1 DEF vars, shared, locals, IInv, TypeOK, OwnerInv, CountInv,
                SeenInv, FlagInv, MutualExclusion, Inside, Raised
  <1>2. ASSUME NEW t \in Threads, Step(t) PROVE IInv'
    BY <1>2, ArriveStep, DepartStep, RdCheckStep, RdSpinStep, RdRaiseStep,
       RdLowerStep, BarrierCheckStep, WrAcquireStep, WrAcquireFailsStep,
       LoadFirstStep, LoadSecondStep, WrReleaseStep DEF Step
  <1>3. ASSUME NEW t \in Threads, NEW op \in Calls, Call(t, op) PROVE IInv'
    BY <1>3, CallStep, CallsAssumption
  <1>4. QED BY <1>1, <1>2, <1>3 DEF Next

\* The invariant always holds.
LEMMA InductiveInvariant == ASSUME CounterLimit = 0 PROVE Spec => []IInv
  <1>1. Init => IInv
    BY InitIInv
  <1>2. IInv /\ [Next]_vars => IInv'
    BY NextIInv
  <1>3. QED BY <1>1, <1>2, PTL DEF Spec

(* The lock and the locals of every caller keep their types.               *)
THEOREM TypeCorrect == ASSUME CounterLimit = 0 PROVE Spec => []TypeOK
  <1>1. IInv => TypeOK
    BY DEF IInv
  <1>2. QED BY <1>1, InductiveInvariant, PTL

(* For any number of threads and any mix of calls, a writer holds the lock *)
(* alone (isc_rwlock_wrlock, isc_rwlock_trywrlock, isc_rwlock_tryupgrade). *)
THEOREM MutualExclusionHolds ==
  ASSUME CounterLimit = 0 PROVE Spec => []MutualExclusion
  <1>1. IInv => MutualExclusion
    BY DEF IInv
  <1>2. QED BY <1>1, InductiveInvariant, PTL

(* The REQUIREs of writers_lock_release and isc_rwlock_destroy hold.       *)
THEOREM RequiresHold ==
  ASSUME CounterLimit = 0 PROVE Spec => []ReleaseAndDestroyRequires
  <1>1. IInv => ReleaseAndDestroyRequires
    <2> SUFFICES ASSUME IInv PROVE ReleaseAndDestroyRequires
      OBVIOUS
    <2>1. ASSUME NEW t \in Threads,
                 pc[t] \in {"wu_release", "dg_release", "up_release",
                            "tw_release"}
          PROVE  writers_lock
      BY <2>1 DEF IInv, OwnerInv, Owners
    <2>2. ASSUME \A t \in Threads : pc[t] = "idle"
          PROVE  /\ ~writers_lock /\ writers_barrier = 0
                 /\ readers_egress = readers_ingress
      <3>1. Inside = {} /\ Raised = {}
        BY <2>2 DEF Inside, Raised, Counted, RdPoints
      <3>2. Cardinality(Inside) = 0 /\ Cardinality(Raised) = 0
        BY <3>1, FS_EmptySet
      <3>3. ~writers_lock
        BY <2>2 DEF IInv, OwnerInv, Owners
      <3>4. QED BY <3>2, <3>3 DEF IInv, TypeOK, CountInv
    <2>3. QED BY <2>1, <2>2 DEF ReleaseAndDestroyRequires
  <1>2. QED BY <1>1, InductiveInvariant, PTL

-----------------------------------------------------------------------------
(* Refinement: the only steps that change the mode of a thread are the     *)
(* last check of an acquisition and the access that gives the lock back.   *)
ModeStep(from, to) ==
  \/ Mode(to) = Mode(from)
  \/ Mode(from) = "none" /\ Mode(to) = "read"
  \/ Mode(from) \in {"none", "read"} /\ Mode(to) = "write"
  \/ Mode(from) = "write" /\ Mode(to) = "read"
  \/ Mode(from) # "none" /\ Mode(to) = "none"

\* Every step of a thread changes the mode it holds the lock in as ModeStep says.
LEMMA ModeChanges ==
  ASSUME IInv, NEW t \in Threads, NEW op \in AllCalls, Step(t) \/ Call(t, op)
  PROVE  \E to \in Points : Goto(t, to) /\ ModeStep(pc[t], to)
  <1> USE DEF ModeStep, Mode, HoldsRead, HoldsWrite, Points,
              RdPoints, TrPoints, UpPoints, WrPoints, TwPoints
  <1>1. CASE Call(t, op)
    BY <1>1 DEF Call, CallerAt, Entry, AllCalls
  <1>2. CASE Arrive(t) \/ Depart(t)
    BY <1>2 DEF Arrive, Depart
  <1>3. CASE RdCheck(t)
    BY <1>3 DEF RdCheck
  <1>4. CASE RdSpin(t) \/ RdRaise(t) \/ RdLower(t)
    BY <1>4 DEF RdSpin, RdRaise, RdLower
  <1>5. CASE BarrierCheck(t)
    BY <1>5 DEF BarrierCheck
  <1>6. CASE WrAcquire(t) \/ WrAcquireFails(t) \/ LoadFirst(t)
    BY <1>6 DEF WrAcquire, WrAcquireFails, LoadFirst
  <1>7. CASE LoadSecond(t)
    BY <1>7 DEF LoadSecond
  <1>8. CASE WrRelease(t)
    BY <1>8 DEF WrRelease
  <1>9. QED BY <1>1, <1>2, <1>3, <1>4, <1>5, <1>6, <1>7, <1>8 DEF Step

AbstractMode == [t \in Threads |-> Mode(pc[t])]

(* A step of a thread is a step of the abstract lock or changes no mode.   *)
LEMMA Simulation ==
  ASSUME CounterLimit = 0, IInv, [Next]_vars
  PROVE  [Abstract!Next]_AbstractMode
  <1>1. CASE UNCHANGED vars
    BY <1>1 DEF vars, AbstractMode
  <1>2. ASSUME NEW t \in Threads, NEW op \in AllCalls, Step(t) \/ Call(t, op),
               Next
        PROVE  [Abstract!Next]_AbstractMode
    <2>1. PICK to \in Points : Goto(t, to) /\ ModeStep(pc[t], to)
      BY <1>2, ModeChanges
    <2>2. /\ pc' = [pc EXCEPT ![t] = to] /\ pc \in [Threads -> Points]
          /\ pc'[t] = to
      BY <2>1 DEF Goto, IInv, TypeOK
    <2>3. AbstractMode' = [AbstractMode EXCEPT ![t] = Mode(to)]
      BY <2>2, Zenon DEF AbstractMode
    <2>4. IInv'
      BY <1>2, NextIInv
    <2>5. \A u \in Threads : AbstractMode[u] = Mode(pc[u])
      BY DEF AbstractMode
    <2>6. CASE Mode(to) = Mode(pc[t])
      <3>1. AbstractMode' = AbstractMode
        BY <2>3, <2>6, Zenon DEF AbstractMode
      <3>2. QED BY <3>1
    <2>7. CASE Mode(pc[t]) = "none" /\ Mode(to) = "read"
      <3>1. \A u \in Threads \ {t} : Mode(pc[u]) # "write"
        BY <2>2, <2>4, <2>7 DEF IInv, MutualExclusion, Mode
      <3>2. Abstract!AcquireRead(t)
        BY <2>3, <2>5, <2>7, <3>1
           DEF AbstractMode, Abstract!AcquireRead, Abstract!NoWriter
      <3>3. QED BY <3>2 DEF Abstract!Next
    <2>8. CASE Mode(pc[t]) \in {"none", "read"} /\ Mode(to) = "write"
      <3>1. \A u \in Threads \ {t} : Mode(pc[u]) = "none"
        BY <2>2, <2>4, <2>8 DEF IInv, MutualExclusion, Mode
      <3>2. Abstract!AcquireWrite(t)
        BY <2>3, <2>5, <2>8, <3>1
           DEF AbstractMode, Abstract!AcquireWrite, Abstract!Alone
      <3>3. QED BY <3>2 DEF Abstract!Next
    <2>9. CASE Mode(pc[t]) = "write" /\ Mode(to) = "read"
      <3>1. Abstract!Downgrade(t)
        BY <2>3, <2>5, <2>9 DEF AbstractMode, Abstract!Downgrade
      <3>2. QED BY <3>1 DEF Abstract!Next
    <2>10. CASE Mode(pc[t]) # "none" /\ Mode(to) = "none"
      <3>1. Abstract!Release(t)
        BY <2>3, <2>5, <2>10 DEF AbstractMode, Abstract!Release
      <3>2. QED BY <3>1 DEF Abstract!Next
    <2>11. QED BY <2>1, <2>6, <2>7, <2>8, <2>9, <2>10 DEF ModeStep
  <1>3. "rdlock" \in AllCalls
    BY DEF AllCalls
  <1>4. QED BY <1>1, <1>2, <1>3, CallsAssumption DEF Next

(* lib/isc/rwlock.c implements the abstract readers-writer lock: to the    *)
(* other threads every acquisition, isc_rwlock_tryupgrade and              *)
(* isc_rwlock_downgrade is one step.                                       *)
THEOREM Refinement == ASSUME CounterLimit = 0 PROVE Spec => ImplementsRWLock
  <1>1. Init => Abstract!Init
    BY DEF Init, Abstract!Init, Mode, HoldsRead, HoldsWrite, UpPoints
  <1>2. IInv /\ [Next]_vars => [Abstract!Next]_AbstractMode
    BY Simulation
  <1>3. QED
    BY <1>1, <1>2, InductiveInvariant, PTL
       DEF Spec, ImplementsRWLock, Abstract!Spec, AbstractMode
=============================================================================
