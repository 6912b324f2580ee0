----------------------------- MODULE QuotaProofs -----------------------------
(***************************************************************************)
(* Proofs about the quota, for any finite set of callers and any limits:   *)
(* its counter never drifts, a job is run once for every time it was       *)
(* queued, and a new holder never exceeds every limit of its attempt,      *)
(* although the counter, the limit and the queue are three objects that no *)
(* lock covers and the limit may move between any two steps of a call.     *)
(***************************************************************************)
EXTENDS Quota, TLAPS, FiniteSetTheorems, SequenceTheorems

\* The holders, and the attempts that would become holders under the limit W.
QInside(W) ==
  {d \in QClients : qPc[d] \in QHolding \/ (qPc[d] = "added" /\ qSaw[d] < W)}

\* What makes QuotaBound inductive.  An attempt under a limit raised the counter over
\* all holders and all attempts, so for every limit W it may yet meet, the widest of
\* its own and above, the holders and those that W would let in are within W if it
\* is one of them.  The limit that others are let in under is never wider than the
\* widest it has met, so that those let in meanwhile were counted.
QuotaRoom ==
  \A c \in QClients : qPc[c] = "added" /\ qTop[c] # 0 =>
    /\ qMax # 0 /\ qMax <= qTop[c]
    /\ \A W \in Nat : W >= qTop[c] /\ qSaw[c] < W => Cardinality(QInside(W)) <= W

QuotaInv == QuotaTypeOK /\ QuotaAccounting /\ QuotaJobsOnce /\ QuotaRoom

QCount == {c \in QClients : qPc[c] \in QCounted}

-----------------------------------------------------------------------------
\* The sets that the counter counts are finite, as the clients are.
LEMMA QuotaFinite ==
  /\ IsFiniteSet(QHolders) /\ IsFiniteSet(QCount) /\ \A W : IsFiniteSet(QInside(W))
  /\ Cardinality(QHolders) \in Nat /\ Cardinality(QCount) \in Nat
  /\ \A W : Cardinality(QInside(W)) \in Nat
  <1>1. IsFiniteSet(QHolders)
    BY QuotaAssumption, FS_Subset DEF QHolders
  <1>2. IsFiniteSet(QCount)
    BY QuotaAssumption, FS_Subset DEF QCount
  <1>3. ASSUME NEW W PROVE IsFiniteSet(QInside(W))
    <2>1. QInside(W) \in SUBSET QClients
      BY DEF QInside
    <2> QED
      BY <2>1, QuotaAssumption, FS_Subset
  <1> QED
    BY <1>1, <1>2, <1>3, FS_CardinalityType

\* A step that begins no attempt and moves no limit keeps QuotaRoom if it lets nobody
\* in that a limit no narrower than the one in force would not let in.
LEMMA RoomKept ==
  ASSUME QuotaTypeOK, QuotaRoom, qMax' = qMax,
         \A x \in QClients : qPc'[x] = "added" =>
            qPc[x] = "added" /\ qTop'[x] = qTop[x] /\ qSaw'[x] = qSaw[x],
         \A W \in Nat : qMax # 0 /\ qMax <= W =>
            Cardinality(QInside(W)') <= Cardinality(QInside(W)) /\ Cardinality(QInside(W)') \in Nat
  PROVE  QuotaRoom'
  <1> SUFFICES ASSUME NEW c \in QClients, qPc'[c] = "added", qTop'[c] # 0
               PROVE  /\ qMax' # 0 /\ qMax' <= qTop'[c]
                      /\ \A W \in Nat : W >= qTop'[c] /\ qSaw'[c] < W
                                       => Cardinality(QInside(W)') <= W
    BY DEF QuotaRoom
  <1>1. /\ qPc[c] = "added" /\ qTop'[c] = qTop[c] /\ qSaw'[c] = qSaw[c] /\ qTop[c] # 0
        /\ qMax # 0 /\ qMax <= qTop[c] /\ qMax \in Nat /\ qTop[c] \in Nat
    BY QuotaAssumption DEF QuotaRoom, QuotaTypeOK
  <1>2. ASSUME NEW W \in Nat, W >= qTop[c], qSaw[c] < W
        PROVE  Cardinality(QInside(W)') <= W
    <2>1. Cardinality(QInside(W)) <= W /\ Cardinality(QInside(W)) \in Nat
      BY <1>1, <1>2, QuotaFinite DEF QuotaRoom
    <2>2. qMax <= W
      BY <1>1, <1>2
    <2>3. Cardinality(QInside(W)') <= Cardinality(QInside(W)) /\ Cardinality(QInside(W)') \in Nat
      BY <1>1, <2>2
    <2> QED
      BY <2>1, <2>3
  <1> QED
    BY <1>1, <1>2

\* Fewer inside are no more inside.
LEMMA FewerInside ==
  ASSUME NEW W, QInside(W)' \in SUBSET QInside(W)
  PROVE  Cardinality(QInside(W)') <= Cardinality(QInside(W)) /\ Cardinality(QInside(W)') \in Nat
  BY QuotaFinite, FS_Subset, FS_CardinalityType

\* The first job of a queue, and what is left of it.
LEMMA FirstJob ==
  ASSUME QuotaTypeOK, QuotaJobsOnce, qJobs # <<>>
  PROVE  /\ Head(qJobs) \in QClients /\ qPc[Head(qJobs)] = "queued"
         /\ Tail(qJobs) \in Seq(QWithJob)
         /\ \A c \in QClients : c # Head(qJobs) =>
              (qPc[c] = "queued" <=> \E i \in 1..Len(Tail(qJobs)) : Tail(qJobs)[i] = c)
         /\ ~ \E i \in 1..Len(Tail(qJobs)) : Tail(qJobs)[i] = Head(qJobs)
         /\ \A i, j \in 1..Len(Tail(qJobs)) : Tail(qJobs)[i] = Tail(qJobs)[j] => i = j
  <1>1. qJobs \in Seq(QWithJob) /\ QWithJob \subseteq QClients
    BY QuotaAssumption DEF QuotaTypeOK
  <1>2. /\ Len(qJobs) \in Nat /\ Len(qJobs) >= 1
        /\ Head(qJobs) = qJobs[1] /\ Head(qJobs) \in QWithJob
        /\ Tail(qJobs) \in Seq(QWithJob) /\ Len(Tail(qJobs)) = Len(qJobs) - 1
        /\ \A i \in 1..Len(Tail(qJobs)) : Tail(qJobs)[i] = qJobs[i + 1]
    BY <1>1
  <1>3. qPc[Head(qJobs)] = "queued"
    BY <1>1, <1>2 DEF QuotaJobsOnce
  <1>4. ASSUME NEW c \in QClients, c # Head(qJobs)
        PROVE  qPc[c] = "queued" <=> \E i \in 1..Len(Tail(qJobs)) : Tail(qJobs)[i] = c
    <2>1. qPc[c] = "queued" <=> \E i \in 1..Len(qJobs) : qJobs[i] = c
      BY DEF QuotaJobsOnce
    <2>2. ASSUME NEW i \in 1..Len(qJobs), qJobs[i] = c
          PROVE  \E j \in 1..Len(Tail(qJobs)) : Tail(qJobs)[j] = c
      <3>1. i # 1 /\ i - 1 \in 1..Len(Tail(qJobs)) /\ Tail(qJobs)[i - 1] = c
        BY <1>2, <1>4, <2>2
      <3> QED
        BY <3>1
    <2>3. ASSUME NEW j \in 1..Len(Tail(qJobs)), Tail(qJobs)[j] = c
          PROVE  \E i \in 1..Len(qJobs) : qJobs[i] = c
      <3>1. j + 1 \in 1..Len(qJobs) /\ qJobs[j + 1] = c
        BY <1>2, <2>3
      <3> QED
        BY <3>1
    <2> QED
      BY <2>1, <2>2, <2>3
  <1>5. ASSUME NEW i \in 1..Len(Tail(qJobs))
        PROVE  Tail(qJobs)[i] # Head(qJobs)
    <2>1. 1 \in 1..Len(qJobs) /\ i + 1 \in 1..Len(qJobs) /\ i + 1 # 1
      BY <1>2
    <2>2. qJobs[i + 1] # qJobs[1]
      BY <2>1 DEF QuotaJobsOnce
    <2> QED
      BY <1>2, <2>2
  <1>6. ASSUME NEW i \in 1..Len(Tail(qJobs)), NEW j \in 1..Len(Tail(qJobs)),
               Tail(qJobs)[i] = Tail(qJobs)[j]
        PROVE  i = j
    <2>1. i + 1 \in 1..Len(qJobs) /\ j + 1 \in 1..Len(qJobs) /\ qJobs[i + 1] = qJobs[j + 1]
      BY <1>2, <1>6
    <2>2. i + 1 = j + 1
      BY <2>1 DEF QuotaJobsOnce
    <2> QED
      BY <2>2
  <1> QED
    BY <1>1, <1>2, <1>3, <1>4, <1>5, <1>6

-----------------------------------------------------------------------------
(* One lemma per step. *)

\* isc_quota_init: nobody is counted and no job waits.
LEMMA QuotaInitInv == QuotaInit => QuotaInv
  <1> SUFFICES ASSUME QuotaInit PROVE QuotaInv
    OBVIOUS
  <1>1. QuotaTypeOK
    BY DEF QuotaInit, QuotaTypeOK, QPcs
  <1>2. QuotaAccounting
    <2>1. {c \in QClients : qPc[c] \in QCounted} = {}
      BY DEF QuotaInit, QCounted, QHolding
    <2> QED
      BY <2>1, FS_EmptySet DEF QuotaAccounting, QuotaInit
  <1>3. QuotaJobsOnce
    BY DEF QuotaInit, QuotaJobsOnce
  <1>4. QuotaRoom
    BY DEF QuotaInit, QuotaRoom
  <1> QED
    BY <1>1, <1>2, <1>3, <1>4 DEF QuotaInv

\* isc_quota_acquire_cb adds to the counter: the caller is counted and holds nothing yet.
LEMMA AddInv ==
  ASSUME QuotaInv, NEW c \in QClients, QuotaAdd(c)
  PROVE  QuotaInv' /\ QHolders' = QHolders
  <1> USE DEF QuotaInv
  <1>1. QuotaTypeOK'
    BY QuotaAssumption DEF QuotaAdd, QuotaTypeOK, QPcs
  <1>2. QCount' = QCount \cup {c} /\ c \notin QCount
    BY DEF QuotaAdd, QuotaTypeOK, QCount, QCounted, QHolding
  <1>3. QuotaAccounting'
    <2>1. Cardinality(QCount \cup {c}) = Cardinality(QCount) + 1
      BY <1>2, QuotaFinite, FS_AddElement, Zenon
    <2>2. qUsed = Cardinality(QCount) /\ qUsed' = qUsed + 1
      BY DEF QuotaAccounting, QCount, QuotaAdd
    <2>3. qUsed' = Cardinality(QCount')
      BY <1>2, <2>1, <2>2
    <2> QED
      BY <2>3 DEF QuotaAccounting, QCount
  <1>4. QuotaJobsOnce'
    BY DEF QuotaAdd, QuotaTypeOK, QuotaJobsOnce
  <1>5. QHolders' = QHolders
    BY DEF QuotaAdd, QuotaTypeOK, QHolders, QHolding
  <1>6. /\ qUsed \in Nat /\ qMax \in Nat /\ qMax' = qMax /\ qPc[c] = "idle"
        /\ qSaw' = [qSaw EXCEPT ![c] = qUsed] /\ qTop' = [qTop EXCEPT ![c] = qMax]
        /\ qPc' = [qPc EXCEPT ![c] = "added"]
    <2>1. qUsed \in Nat
      BY QuotaFinite DEF QuotaAccounting, QCount
    <2> QED
      BY <2>1, QuotaAssumption DEF QuotaAdd, QuotaTypeOK
  <1>7. /\ qPc'[c] = "added" /\ qSaw'[c] = qUsed /\ qTop'[c] = qMax
        /\ \A x \in QClients \ {c} :
             qPc'[x] = qPc[x] /\ qSaw'[x] = qSaw[x] /\ qTop'[x] = qTop[x]
    BY <1>6, Zenon DEF QuotaTypeOK
  <1>8. ASSUME NEW W \in Nat, qUsed < W
        PROVE  Cardinality(QInside(W)') <= W
    <2>1. QInside(W)' \in SUBSET QCount'
      BY DEF QInside, QCount, QCounted
    <2>2. IsFiniteSet(QCount') /\ Cardinality(QCount') = qUsed + 1
      <3>1. IsFiniteSet(QCount')
        BY <1>2, QuotaFinite, FS_AddElement, Zenon
      <3>2. qUsed' = Cardinality(QCount')
        BY <1>3 DEF QuotaAccounting, QCount
      <3> QED
        BY <3>1, <3>2 DEF QuotaAdd
    <2>3. Cardinality(QInside(W)') <= Cardinality(QCount') /\ Cardinality(QInside(W)') \in Nat
      BY <2>1, <2>2, FS_Subset, FS_CardinalityType
    <2> QED
      BY <1>6, <1>8, <2>2, <2>3
  <1>9. ASSUME NEW W \in Nat, ~(qUsed < W)
        PROVE  QInside(W)' = QInside(W)
    BY <1>6, <1>7, <1>9, Zenon DEF QInside, QHolding
  <1>10. QuotaRoom'
    <2> SUFFICES ASSUME NEW d \in QClients, qPc'[d] = "added", qTop'[d] # 0
                 PROVE  /\ qMax' # 0 /\ qMax' <= qTop'[d]
                        /\ \A W \in Nat : W >= qTop'[d] /\ qSaw'[d] < W
                                         => Cardinality(QInside(W)') <= W
      BY DEF QuotaRoom
    <2>1. CASE d = c
      BY <2>1, <1>6, <1>7, <1>8
    <2>2. CASE d # c
      <3>1. /\ qPc[d] = "added" /\ qTop'[d] = qTop[d] /\ qTop[d] # 0 /\ qSaw'[d] = qSaw[d]
        BY <2>2, <1>7
      <3>2. qMax # 0 /\ qMax <= qTop[d]
        BY <3>1 DEF QuotaRoom
      <3>3. ASSUME NEW W \in Nat, W >= qTop[d], qSaw[d] < W
            PROVE  Cardinality(QInside(W)') <= W
        <4>1. Cardinality(QInside(W)) <= W
          BY <3>1, <3>3 DEF QuotaRoom
        <4> QED
          BY <4>1, <1>8, <1>9
      <3> QED
        BY <3>1, <3>2, <3>3, <1>6
    <2> QED
      BY <2>1, <2>2
  <1> QED
    BY <1>1, <1>3, <1>4, <1>5, <1>10

\* isc_quota_acquire_cb looks at the value it added to: it holds the quota only if that
\* was below the limit, and then it was inside for every limit its attempt has met.
LEMMA CheckInv ==
  ASSUME QuotaInv, NEW c \in QClients, QuotaCheck(c)
  PROVE  /\ QuotaInv'
         /\ QHolders' \in SUBSET (QHolders \cup {c})
         /\ c \in QHolders' /\ qTop[c] # 0 => Cardinality(QHolders') <= qTop[c]
  <1> USE DEF QuotaInv
  <1>1. QuotaTypeOK'
    BY DEF QuotaCheck, QuotaTypeOK, QPcs
  <1>2. QuotaAccounting'
    <2>1. {x \in QClients : qPc'[x] \in QCounted} = {x \in QClients : qPc[x] \in QCounted}
      BY DEF QuotaCheck, QuotaTypeOK, QCounted, QHolding
    <2> QED
      BY <2>1 DEF QuotaAccounting, QuotaCheck
  <1>3. QuotaJobsOnce'
    BY DEF QuotaCheck, QuotaTypeOK, QuotaJobsOnce
  <1>4. /\ qPc[c] = "added" /\ qPc'[c] # "added" /\ qMax' = qMax /\ qSaw' = qSaw
        /\ qMax \in Nat /\ qTop[c] \in Nat /\ qSaw[c] \in Int
        /\ qPc'[c] \in QHolding <=> ~QuotaFull(qSaw[c], qMax)
        /\ \A x \in QClients \ {c} : qPc'[x] = qPc[x] /\ qTop'[x] = qTop[x]
    BY QuotaAssumption DEF QuotaCheck, QuotaTypeOK, QHolding
  <1>5. QHolders' \in SUBSET (QHolders \cup {c})
    BY <1>4 DEF QHolders
  <1>6. ASSUME NEW W \in Nat, qMax # 0, qMax <= W
        PROVE  QInside(W)' \in SUBSET QInside(W)
    <2>1. qPc'[c] \in QHolding => qSaw[c] < W
      BY <1>4, <1>6 DEF QuotaFull
    <2> QED
      BY <1>4, <2>1, Zenon DEF QInside
  <1>7. QuotaRoom'
    BY <1>4, <1>6, FewerInside, RoomKept
  <1>8. ASSUME c \in QHolders', qTop[c] # 0
        PROVE  Cardinality(QHolders') <= qTop[c]
    <2>1. qMax # 0 /\ qMax <= qTop[c]
      BY <1>4, <1>8 DEF QuotaRoom
    <2>2. qSaw[c] < qTop[c]
      BY <1>4, <1>8, <2>1 DEF QuotaFull, QHolders
    <2>3. Cardinality(QInside(qTop[c])) <= qTop[c]
      BY <1>4, <1>8, <2>2 DEF QuotaRoom
    <2>4. QHolders' \in SUBSET QInside(qTop[c])
      BY <1>4, <1>5, <2>2 DEF QInside, QHolders
    <2>5. /\ Cardinality(QHolders') <= Cardinality(QInside(qTop[c]))
          /\ Cardinality(QHolders') \in Nat
      BY <2>4, QuotaFinite, FS_Subset, FS_CardinalityType
    <2> QED
      BY <1>4, <2>3, <2>5, QuotaFinite
  <1> QED
    BY <1>1, <1>2, <1>3, <1>5, <1>7, <1>8

\* A step that takes c out of the counted and lowers the counter with it.
LEMMA CounterLowered ==
  ASSUME QuotaTypeOK, QuotaAccounting, NEW c \in QClients,
         c \in QCount, QCount' = QCount \ {c}, qUsed' = qUsed - 1
  PROVE  QuotaAccounting'
  <1>1. Cardinality(QCount \ {c}) = Cardinality(QCount) - 1
    BY QuotaFinite, FS_RemoveElement, Zenon
  <1>2. qUsed' = Cardinality(QCount')
    BY <1>1 DEF QuotaAccounting, QCount
  <1> QED
    BY <1>2 DEF QuotaAccounting, QCount

\* A caller that was refused takes its count back.
LEMMA UndoInv ==
  ASSUME QuotaInv, NEW c \in QClients, QuotaUndo(c)
  PROVE  QuotaInv' /\ QHolders' = QHolders
  <1> USE DEF QuotaInv
  <1>1. QuotaTypeOK'
    BY DEF QuotaUndo, QuotaTypeOK, QPcs
  <1>2. c \in QCount /\ QCount' = QCount \ {c} /\ qUsed' = qUsed - 1
    BY DEF QuotaUndo, QuotaTypeOK, QCount, QCounted, QHolding
  <1>3. QuotaAccounting'
    BY <1>2, CounterLowered
  <1>4. QuotaJobsOnce'
    BY DEF QuotaUndo, QuotaTypeOK, QuotaJobsOnce
  <1>5. QHolders' = QHolders
    BY DEF QuotaUndo, QuotaTypeOK, QHolders, QHolding
  <1>6. QuotaRoom'
    <2>1. /\ qMax' = qMax /\ qSaw' = qSaw /\ qTop' = qTop
          /\ \A x \in QClients : qPc'[x] \in QHolding \cup {"added"} => qPc'[x] = qPc[x]
      BY DEF QuotaUndo, QuotaTypeOK, QHolding
    <2>2. \A W \in Nat : QInside(W)' \in SUBSET QInside(W)
      BY <2>1, Zenon DEF QInside
    <2> QED
      BY <2>1, <2>2, FewerInside, RoomKept
  <1> QED
    BY <1>1, <1>3, <1>4, <1>5, <1>6

\* A holder without a job to start takes its count back.
LEMMA SubInv ==
  ASSUME QuotaInv, NEW c \in QClients, QuotaSub(c)
  PROVE  QuotaInv' /\ QHolders' \in SUBSET QHolders
  <1> USE DEF QuotaInv
  <1>1. QuotaTypeOK'
    BY DEF QuotaSub, QuotaTypeOK, QPcs
  <1>2. c \in QCount /\ QCount' = QCount \ {c} /\ qUsed' = qUsed - 1
    BY DEF QuotaSub, QuotaTypeOK, QCount, QCounted, QHolding
  <1>3. QuotaAccounting'
    BY <1>2, CounterLowered
  <1>4. QuotaJobsOnce'
    BY DEF QuotaSub, QuotaTypeOK, QuotaJobsOnce
  <1>5. QHolders' \in SUBSET QHolders
    BY DEF QuotaSub, QuotaTypeOK, QHolders, QHolding
  <1>6. QuotaRoom'
    <2>1. /\ qMax' = qMax /\ qSaw' = qSaw /\ qTop' = qTop
          /\ \A x \in QClients : qPc'[x] \in QHolding \cup {"added"} => qPc'[x] = qPc[x]
      BY DEF QuotaSub, QuotaTypeOK, QHolding
    <2>2. \A W \in Nat : QInside(W)' \in SUBSET QInside(W)
      BY <2>1, Zenon DEF QInside
    <2> QED
      BY <2>1, <2>2, FewerInside, RoomKept
  <1> QED
    BY <1>1, <1>3, <1>4, <1>5, <1>6

\* A refused caller leaves its job in the queue.
LEMMA EnqueueInv ==
  ASSUME QuotaInv, NEW c \in QClients, QuotaEnqueue(c)
  PROVE  QuotaInv' /\ QHolders' = QHolders
  <1> USE DEF QuotaInv
  <1>1. QuotaTypeOK'
    BY DEF QuotaEnqueue, QuotaTypeOK, QPcs
  <1>2. QCount' = QCount /\ QHolders' = QHolders /\ qUsed' = qUsed
    BY DEF QuotaEnqueue, QuotaTypeOK, QCount, QCounted, QHolders, QHolding
  <1>3. QuotaAccounting'
    BY <1>2 DEF QuotaAccounting, QCount
  <1>4. QuotaJobsOnce'
    <2>1. CASE c \notin QWithJob
      BY <2>1 DEF QuotaEnqueue, QuotaTypeOK, QuotaJobsOnce
    <2>2. CASE c \in QWithJob
      <3>1. /\ qJobs \in Seq(QWithJob) /\ qJobs' = Append(qJobs, c)
            /\ Len(qJobs) \in Nat /\ Len(qJobs') = Len(qJobs) + 1
            /\ \A i \in 1..Len(qJobs) : qJobs'[i] = qJobs[i]
            /\ qJobs'[Len(qJobs) + 1] = c
        BY <2>2 DEF QuotaEnqueue, QuotaTypeOK
      <3>2. ~ \E i \in 1..Len(qJobs) : qJobs[i] = c
        BY DEF QuotaEnqueue, QuotaJobsOnce
      <3>3. \A x \in QClients : qPc'[x] = "queued" <=> qPc[x] = "queued" \/ x = c
        BY <2>2 DEF QuotaEnqueue, QuotaTypeOK
      <3>4. \A x \in QClients :
              (\E i \in 1..Len(qJobs') : qJobs'[i] = x)
                <=> (\E i \in 1..Len(qJobs) : qJobs[i] = x) \/ x = c
        BY <3>1
      <3>5. \A x \in QClients : qPc'[x] = "queued" <=> \E i \in 1..Len(qJobs') : qJobs'[i] = x
        BY <3>3, <3>4 DEF QuotaJobsOnce
      <3>6. \A i, j \in 1..Len(qJobs') : qJobs'[i] = qJobs'[j] => i = j
        BY <3>1, <3>2 DEF QuotaJobsOnce
      <3> QED
        BY <3>5, <3>6 DEF QuotaJobsOnce
    <2> QED
      BY <2>1, <2>2
  <1>5. QuotaRoom'
    <2>1. /\ qMax' = qMax /\ qSaw' = qSaw /\ qTop' = qTop
          /\ \A x \in QClients : qPc'[x] \in QHolding \cup {"added"} => qPc'[x] = qPc[x]
      BY DEF QuotaEnqueue, QuotaTypeOK, QHolding
    <2>2. \A W \in Nat : QInside(W)' \in SUBSET QInside(W)
      BY <2>1, Zenon DEF QInside
    <2> QED
      BY <2>1, <2>2, FewerInside, RoomKept
  <1> QED
    BY <1>1, <1>2, <1>3, <1>4, <1>5

\* isc_quota_max: the limit changes and nobody's place does.  An attempt in progress
\* has now met the new limit, so it answers for fewer limits or for the same.
LEMMA SetMaxInv ==
  ASSUME QuotaInv, QuotaSetMax
  PROVE  QuotaInv' /\ QHolders' = QHolders
  <1> USE DEF QuotaInv
  <1>1. PICK m \in QMaxima :
          /\ qMax' = m
          /\ qTop' = [c \in QClients |->
                        IF qPc[c] = "added" THEN QWider(qTop[c], m) ELSE qTop[c]]
    BY DEF QuotaSetMax
  <1>2. qUsed' = qUsed /\ qJobs' = qJobs /\ qPc' = qPc /\ qSaw' = qSaw
    BY DEF QuotaSetMax
  <1>3. \A c \in QClients : qTop'[c] \in Nat
    BY <1>1, QuotaAssumption DEF QWider, QuotaTypeOK
  <1>4. QuotaTypeOK'
    BY <1>1, <1>2, <1>3 DEF QuotaTypeOK
  <1>5. QuotaAccounting' /\ QuotaJobsOnce' /\ QHolders' = QHolders
    BY <1>2 DEF QuotaAccounting, QuotaJobsOnce, QHolders
  <1>6. QuotaRoom'
    <2> SUFFICES ASSUME NEW c \in QClients, qPc[c] = "added", qTop'[c] # 0
                 PROVE  /\ qMax' # 0 /\ qMax' <= qTop'[c]
                        /\ \A W \in Nat : W >= qTop'[c] /\ qSaw[c] < W
                                         => Cardinality(QInside(W)') <= W
      BY <1>2 DEF QuotaRoom
    <2>1. /\ m \in Nat /\ qTop[c] \in Nat /\ qTop'[c] \in Nat /\ qTop[c] # 0
          /\ m # 0 /\ m <= qTop'[c] /\ qTop[c] <= qTop'[c]
      BY <1>1, QuotaAssumption DEF QWider, QuotaTypeOK
    <2>2. ASSUME NEW W \in Nat, W >= qTop'[c], qSaw[c] < W
          PROVE  Cardinality(QInside(W)') <= W
      <3>1. QInside(W)' = QInside(W)
        BY <1>2 DEF QInside
      <3>2. W >= qTop[c]
        BY <2>1, <2>2
      <3>3. Cardinality(QInside(W)) <= W
        BY <2>1, <2>2, <3>2 DEF QuotaRoom
      <3> QED
        BY <3>1, <3>3
    <2> QED
      BY <1>1, <2>1, <2>2
  <1> QED
    BY <1>4, <1>5, <1>6

\* Handing a unit over does not change how many there are.
LEMMA HandedOver ==
  ASSUME NEW S, IsFiniteSet(S), NEW c \in S, NEW h, h \notin S
  PROVE  Cardinality((S \ {c}) \cup {h}) = Cardinality(S)
  <1>1. /\ IsFiniteSet(S \ {c}) /\ Cardinality(S) \in Nat
        /\ Cardinality(S \ {c}) = Cardinality(S) - 1
    BY FS_RemoveElement, FS_CardinalityType
  <1>2. Cardinality((S \ {c}) \cup {h}) = Cardinality(S \ {c}) + 1
    BY <1>1, FS_AddElement, Zenon
  <1> QED
    BY <1>1, <1>2

\* isc_quota_release hands its count to the first job of the queue, or keeps it to
\* take it back when there is none.
LEMMA ReleaseInv ==
  ASSUME QuotaInv, NEW c \in QClients, QuotaRelease(c)
  PROVE  QuotaInv' /\ Cardinality(QHolders') = Cardinality(QHolders)
  <1> USE DEF QuotaInv
  <1>1. CASE qJobs = <<>>
    <2>1. QuotaTypeOK' /\ QuotaJobsOnce'
      BY <1>1 DEF QuotaRelease, QuotaTypeOK, QPcs, QuotaJobsOnce
    <2>2. QCount' = QCount /\ QHolders' = QHolders /\ qUsed' = qUsed
      BY <1>1 DEF QuotaRelease, QuotaTypeOK, QCount, QCounted, QHolders, QHolding
    <2>3. QuotaAccounting'
      BY <2>2 DEF QuotaAccounting, QCount
    <2>4. QuotaRoom'
      <3>1. /\ qMax' = qMax /\ qSaw' = qSaw /\ qTop' = qTop
            /\ \A x \in QClients : /\ qPc'[x] \in QHolding <=> qPc[x] \in QHolding
                                   /\ qPc'[x] = "added" <=> qPc[x] = "added"
        BY <1>1 DEF QuotaRelease, QuotaTypeOK, QHolding
      <3>2. \A W \in Nat : QInside(W)' \in SUBSET QInside(W)
        BY <3>1, Zenon DEF QInside
      <3> QED
        BY <3>1, <3>2, FewerInside, RoomKept
    <2> QED
      BY <2>1, <2>2, <2>3, <2>4
  <1>2. CASE qJobs # <<>>
    <2> DEFINE h == Head(qJobs)
    <2>1. /\ h \in QClients /\ qPc[h] = "queued" /\ Tail(qJobs) \in Seq(QWithJob)
          /\ qJobs' = Tail(qJobs) /\ qPc[c] \in {"held", "soft"} /\ h # c
          /\ qPc' = [qPc EXCEPT ![c] = "idle", ![h] = "held"]
          /\ qMax' = qMax /\ qUsed' = qUsed /\ qSaw' = qSaw /\ qTop' = qTop
      BY <1>2, FirstJob DEF QuotaRelease
    <2>2. /\ qPc'[c] = "idle" /\ qPc'[h] = "held"
          /\ \A x \in QClients \ {c, h} : qPc'[x] = qPc[x]
      BY <2>1 DEF QuotaTypeOK
    <2>3. QuotaTypeOK'
      BY <2>1, Zenon DEF QuotaTypeOK, QPcs
    <2>4. QuotaJobsOnce'
      <3> DEFINE t == Tail(qJobs)
                 Listed(x) == \E i \in 1..Len(t) : t[i] = x
      <3>1. /\ \A x \in QClients : x # h => (qPc[x] = "queued" <=> Listed(x))
            /\ ~Listed(h)
            /\ \A i, j \in 1..Len(t) : t[i] = t[j] => i = j
        BY <1>2, FirstJob
      <3>2. qJobs' = t
        BY <2>1
      <3>3. ASSUME NEW x \in QClients PROVE qPc'[x] = "queued" <=> Listed(x)
        <4> HIDE DEF Listed, h
        <4>1. CASE x = h
          BY <4>1, <2>2, <3>1
        <4>2. CASE x = c
          BY <4>2, <2>1, <2>2, <3>1
        <4> QED
          BY <4>1, <4>2, <2>2, <3>1
      <3> HIDE DEF t
      <3> QED
        BY <3>1, <3>2, <3>3 DEF QuotaJobsOnce
    <2>5. /\ QCount' = (QCount \ {c}) \cup {h} /\ c \in QCount /\ h \notin QCount
          /\ QHolders' = (QHolders \ {c}) \cup {h} /\ c \in QHolders /\ h \notin QHolders
      BY <2>1, <2>2, Zenon DEF QCount, QCounted, QHolders, QHolding
    <2>6. ASSUME NEW W
          PROVE  /\ QInside(W)' = (QInside(W) \ {c}) \cup {h}
                 /\ c \in QInside(W) /\ h \notin QInside(W)
      BY <2>1, <2>2, Zenon DEF QInside, QHolding
    <2>7. /\ Cardinality(QCount') = Cardinality(QCount)
          /\ Cardinality(QHolders') = Cardinality(QHolders)
      BY <2>5, QuotaFinite, HandedOver
    <2>8. QuotaAccounting'
      BY <2>1, <2>7 DEF QuotaAccounting, QCount
    <2>9. QuotaRoom'
      <3>1. ASSUME NEW W \in Nat
            PROVE  /\ Cardinality(QInside(W)') <= Cardinality(QInside(W))
                   /\ Cardinality(QInside(W)') \in Nat
        <4> DEFINE S == QInside(W)
        <4>1. IsFiniteSet(S) /\ Cardinality(S) \in Nat /\ c \in S /\ h \notin S
          BY <2>6, QuotaFinite
        <4> HIDE DEF S, h
        <4>2. Cardinality((S \ {c}) \cup {h}) = Cardinality(S)
          BY <4>1, HandedOver
        <4>3. Cardinality((S \ {c}) \cup {h}) <= Cardinality(S)
              /\ Cardinality((S \ {c}) \cup {h}) \in Nat
          BY <4>1, <4>2
        <4> USE DEF S
        <4> QED
          BY <2>6, <4>3
      <3>2. \A x \in QClients : qPc'[x] = "added" => qPc[x] = "added"
        BY <2>2
      <3> QED
        BY <2>1, <3>1, <3>2, RoomKept
    <2> QED
      BY <2>3, <2>4, <2>7, <2>8, <2>9
  <1> QED
    BY <1>1, <1>2

-----------------------------------------------------------------------------
\* A step whose holders grow in number ends within the widest limit of the attempt
\* that made the new one.
QuotaBounded ==
  \A c \in QHolders' \ QHolders :
    qTop[c] # 0 /\ Cardinality(QHolders') > Cardinality(QHolders)
      => Cardinality(QHolders') <= qTop[c]

\* Every step keeps the invariant, and none that makes a new holder exceeds what its
\* attempt was allowed.
LEMMA QuotaStepInv ==
  ASSUME QuotaInv, [QuotaNext]_qvars
  PROVE  QuotaInv' /\ QuotaBounded
  <1>1. CASE UNCHANGED qvars
    <2>1. QHolders' = QHolders
      BY <1>1 DEF qvars, QHolders
    <2>2. QuotaInv'
      BY <1>1 DEF qvars, QuotaInv, QuotaTypeOK, QuotaAccounting, QuotaJobsOnce, QuotaRoom,
                  QInside
    <2> QED
      BY <2>1, <2>2, QuotaFinite DEF QuotaBounded
  <1>2. CASE QuotaSetMax
    BY <1>2, SetMaxInv, QuotaFinite DEF QuotaBounded
  <1>3. ASSUME NEW c \in QClients, QuotaStep(c)
        PROVE  QuotaInv' /\ QuotaBounded
    <2>1. CASE QuotaAdd(c)
      BY <2>1, AddInv, QuotaFinite DEF QuotaBounded
    <2>2. CASE QuotaCheck(c)
      <3>1. /\ QuotaInv' /\ QHolders' \in SUBSET (QHolders \cup {c})
            /\ c \in QHolders' /\ qTop[c] # 0 => Cardinality(QHolders') <= qTop[c]
        BY <2>2, CheckInv
      <3> QED
        BY <3>1, Zenon DEF QuotaBounded
    <2>3. CASE QuotaUndo(c)
      BY <2>3, UndoInv, QuotaFinite DEF QuotaBounded
    <2>4. CASE QuotaEnqueue(c)
      BY <2>4, EnqueueInv, QuotaFinite DEF QuotaBounded
    <2>5. CASE QuotaRelease(c)
      BY <2>5, ReleaseInv, QuotaFinite DEF QuotaBounded
    <2>6. CASE QuotaSub(c)
      <3>1. QuotaInv' /\ QHolders' \in SUBSET QHolders
        BY <2>6, SubInv
      <3>2. Cardinality(QHolders') <= Cardinality(QHolders) /\ Cardinality(QHolders') \in Nat
        BY <3>1, QuotaFinite, FS_Subset, FS_CardinalityType
      <3> QED
        BY <3>1, <3>2, QuotaFinite DEF QuotaBounded
    <2> QED
      BY <1>3, <2>1, <2>2, <2>3, <2>4, <2>5, <2>6 DEF QuotaStep
  <1> QED
    BY <1>1, <1>2, <1>3 DEF QuotaNext

\* isc_quota: for any finite set of callers and any limits, the counter is at
\* every moment the units that are held plus the attempts not yet undone, and
\* the queue holds the job of each waiting caller once and no other.
THEOREM QuotaBooksExact == QuotaSpec => []QuotaExact
  <1>1. QuotaInv => QuotaExact
    BY DEF QuotaInv, QuotaExact
  <1> QED
    BY <1>1, QuotaInitInv, QuotaStepInv, PTL DEF QuotaSpec

\* isc_quota_acquire_cb and isc_quota_release: for any finite set of callers and
\* any limits, changed at any moment, no step brings the number of holders above every
\* limit that was in force since the new holder's attempt began.
THEOREM QuotaWithinLimit == QuotaSpec => QuotaBound
  <1>1. QuotaInv /\ [QuotaNext]_qvars => [QuotaBounded]_qvars
    BY QuotaStepInv
  <1>2. QuotaSpec => [][QuotaBounded]_qvars
    BY <1>1, QuotaInitInv, QuotaStepInv, PTL DEF QuotaSpec
  <1> QED
    BY <1>2 DEF QuotaBound, QuotaBounded
=============================================================================
