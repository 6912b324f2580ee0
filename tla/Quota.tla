------------------------------- MODULE Quota -------------------------------
(***************************************************************************)
(* The counting quota of lib/isc/quota.c, as its callers use it.           *)
(*                                                                         *)
(* A client is one caller: a TCP connection being accepted (tcp.c), which  *)
(* leaves a job to be called back when it is refused, or a caller that     *)
(* passes no job (recursion, updates, outgoing transfers).  Every atomic   *)
(* operation of a call is a step of its own: the counter, the limit and    *)
(* the queue of jobs are three objects, and no lock covers two of them.    *)
(***************************************************************************)
EXTENDS Integers, Sequences, FiniteSets

CONSTANTS QClients,      \* the callers
          QWithJob,      \* those of them that pass a job
          QMaxima,       \* the limits a configuration may set; 0 is no limit
          QSoft          \* the soft limit; 0 is none

ASSUME QuotaAssumption ==
    /\ IsFiniteSet(QClients)
    /\ QWithJob \subseteq QClients
    /\ QMaxima \subseteq Nat
    /\ QSoft \in Nat

VARIABLES qUsed,         \* quota->used
          qMax,          \* quota->max
          qJobs,         \* quota->jobs
          qPc,           \* where each client is
          qSaw,          \* the value of used that its attempt replaced
          qTop           \* not in the code: the widest limit since its attempt began

qvars == <<qUsed, qMax, qJobs, qPc, qSaw, qTop>>

(***************************************************************************)
(* "added": the attempt has raised the counter; "refused": it has found it *)
(* at the limit; "undone": it has lowered it again; "queued": its job      *)
(* waits; "held", "soft": it has a unit; "leaving": it has found no job to *)
(* hand its unit to.                                                       *)
(***************************************************************************)
QPcs == {"idle", "added", "refused", "undone", "queued", "held", "soft", "leaving"}

QHolding == {"held", "soft", "leaving"}
QCounted == QHolding \cup {"added", "refused"}
QHolders == {c \in QClients : qPc[c] \in QHolding}
QInCall  == {"added", "refused", "undone", "leaving"}

QuotaInit ==
    /\ qUsed = 0
    /\ qMax \in QMaxima
    /\ qJobs = <<>>
    /\ qPc = [c \in QClients |-> "idle"]
    /\ qSaw = [c \in QClients |-> 0]
    /\ qTop = [c \in QClients |-> 0]

\* isc_quota_acquire_cb: used = atomic_fetch_add(&quota->used, 1).
QuotaAdd(c) ==
    /\ qPc[c] = "idle"
    /\ qUsed' = qUsed + 1
    /\ qSaw' = [qSaw EXCEPT ![c] = qUsed]
    /\ qTop' = [qTop EXCEPT ![c] = qMax]
    /\ qPc' = [qPc EXCEPT ![c] = "added"]
    /\ UNCHANGED <<qMax, qJobs>>

\* The mistake of a limit that is compared as if it were exceeded only above it.
QuotaFullOffByOne(saw, max) == max # 0 /\ saw > max

\* The attempt is over the limit when the value it replaced was not below it.
QuotaFull(saw, max) == max # 0 /\ saw >= max

\* isc_quota_acquire_cb: the comparison with the limits.
QuotaCheck(c) ==
    /\ qPc[c] = "added"
    /\ qPc' = [qPc EXCEPT ![c] =
                 IF QuotaFull(qSaw[c], qMax) THEN "refused"
                 ELSE IF QuotaFull(qSaw[c], QSoft) THEN "soft" ELSE "held"]
    /\ qTop' = [qTop EXCEPT ![c] = 0]
    /\ UNCHANGED <<qUsed, qMax, qJobs, qSaw>>

\* The mistake of a refused attempt that leaves the counter raised.
QuotaUndoForgotten(c) ==
    /\ qPc[c] = "refused"
    /\ qPc' = [qPc EXCEPT ![c] = "undone"]
    /\ UNCHANGED <<qUsed, qMax, qJobs, qSaw, qTop>>

\* isc_quota_acquire_cb: the refused attempt takes its unit back.
QuotaUndo(c) ==
    /\ qPc[c] = "refused"
    /\ qUsed' = qUsed - 1
    /\ qPc' = [qPc EXCEPT ![c] = "undone"]
    /\ UNCHANGED <<qMax, qJobs, qSaw, qTop>>

\* isc_quota_acquire_cb: the job of a refused caller is queued; a caller
\* without one has its answer.
QuotaEnqueue(c) ==
    /\ qPc[c] = "undone"
    /\ qPc' = [qPc EXCEPT ![c] = IF c \in QWithJob THEN "queued" ELSE "idle"]
    /\ qJobs' = IF c \in QWithJob THEN Append(qJobs, c) ELSE qJobs
    /\ UNCHANGED <<qUsed, qMax, qSaw, qTop>>

\* isc_quota_release: the first waiting job is called and has the unit; the
\* counter does not move.
QuotaRelease(c) ==
    /\ qPc[c] \in {"held", "soft"}
    /\ IF qJobs = <<>>
         THEN /\ qPc' = [qPc EXCEPT ![c] = "leaving"]
              /\ UNCHANGED qJobs
         ELSE /\ qPc' = [qPc EXCEPT ![c] = "idle", ![Head(qJobs)] = "held"]
              /\ qJobs' = Tail(qJobs)
    /\ UNCHANGED <<qUsed, qMax, qSaw, qTop>>

\* isc_quota_release: no job was waiting, so the unit goes back.
QuotaSub(c) ==
    /\ qPc[c] = "leaving"
    /\ qUsed' = qUsed - 1
    /\ qPc' = [qPc EXCEPT ![c] = "idle"]
    /\ UNCHANGED <<qMax, qJobs, qSaw, qTop>>

\* The wider of two limits, 0 being none.
QWider(a, b) == IF a = 0 \/ b = 0 THEN 0 ELSE IF a < b THEN b ELSE a

\* isc_quota_max: load_configuration sets most limits while the loops are paused,
\* but the interface scan (update_http_settings) also runs with the loops running,
\* so that the limit may move at any point of a call.
QuotaSetMax ==
    /\ \E m \in QMaxima :
          /\ qMax' = m
          /\ qTop' = [c \in QClients |->
                        IF qPc[c] = "added" THEN QWider(qTop[c], m) ELSE qTop[c]]
    /\ UNCHANGED <<qUsed, qJobs, qPc, qSaw>>

QuotaStep(c) ==
    \/ QuotaAdd(c) \/ QuotaCheck(c) \/ QuotaUndo(c) \/ QuotaEnqueue(c)
    \/ QuotaRelease(c) \/ QuotaSub(c)

QuotaNext == QuotaSetMax \/ \E c \in QClients : QuotaStep(c)

QuotaSpec == QuotaInit /\ [][QuotaNext]_qvars

-----------------------------------------------------------------------------
QuotaTypeOK ==
    /\ qUsed \in Int
    /\ qMax \in QMaxima
    /\ qJobs \in Seq(QWithJob)
    /\ qPc \in [QClients -> QPcs]
    /\ qSaw \in [QClients -> Int]
    /\ qTop \in [QClients -> Nat]

\* The counter is the number of units that are held plus the attempts that
\* have raised it and not yet undone it, whatever order the three objects are
\* touched in: it never drifts, and the INSIST of isc_quota_release cannot fail.
QuotaAccounting ==
    qUsed = Cardinality({c \in QClients : qPc[c] \in QCounted})

\* The queue holds the job of each waiting caller once and no other: a job is
\* run once for every time it was queued, and its caller is waiting for it.
QuotaJobsOnce ==
    /\ \A c \in QClients : qPc[c] = "queued" <=> \E i \in 1..Len(qJobs) : qJobs[i] = c
    /\ \A i, j \in 1..Len(qJobs) : qJobs[i] = qJobs[j] => i = j

\* The counter and the queue of isc_quota_acquire_cb and isc_quota_release, which
\* no lock holds together, both tell exactly who has a unit and who waits for one.
QuotaExact == QuotaAccounting /\ QuotaJobsOnce

\* isc_quota_acquire_cb reads the counter and the limit one after the other, and
\* the limit may move in between.  Yet a new holder never brings the holders above
\* every limit that was in force during its attempt: the unit a job is handed was
\* counted, and the attempts in progress only make the comparison stricter.
QuotaBound ==
    [][\A c \in QHolders' \ QHolders :
          qTop[c] # 0 /\ Cardinality(QHolders') > Cardinality(QHolders)
            => Cardinality(QHolders') <= qTop[c]]_qvars

\* Does not hold: two callers raise the counter from 0 and from 1 under a limit of
\* two; the second is let in, the limit comes down to one, and the first, which saw
\* 0, is let in as well.
\* A new holder never brings the holders above the limit that is in force now.
QuotaBoundNow ==
    [][qMax' # 0 /\ Cardinality(QHolders') > Cardinality(QHolders)
         => Cardinality(QHolders') <= qMax']_qvars

\* Does not hold: a unit given back between the refusal and the queueing of the
\* job finds no job to hand the unit to.
\* quota.h: the callback "will be called when there's quota again".  A job that
\* waits with no call in progress waits for a holder: nobody else will look at
\* the queue.
QuotaJobHasHolder ==
    qJobs # <<>> /\ (\A c \in QClients : qPc[c] \notin QInCall) => QHolders # {}
=============================================================================
