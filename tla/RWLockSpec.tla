----------------------------- MODULE RWLockSpec -----------------------------
(***************************************************************************)
(* What a readers-writer lock promises its callers: every thread holds the *)
(* lock in one mode, a writer is alone, an upgrade and a downgrade are     *)
(* single steps.  RWLock (lib/isc/rwlock.c) is shown to implement it.      *)
(***************************************************************************)
CONSTANT Threads

VARIABLE mode

Modes == {"none", "read", "write"}

Init == mode = [t \in Threads |-> "none"]

Alone(t) == \A u \in Threads \ {t} : mode[u] = "none"
NoWriter(t) == \A u \in Threads \ {t} : mode[u] # "write"

AcquireRead(t) ==
  /\ mode[t] = "none" /\ NoWriter(t)
  /\ mode' = [mode EXCEPT ![t] = "read"]

AcquireWrite(t) ==
  /\ mode[t] \in {"none", "read"} /\ Alone(t)
  /\ mode' = [mode EXCEPT ![t] = "write"]

Downgrade(t) ==
  /\ mode[t] = "write"
  /\ mode' = [mode EXCEPT ![t] = "read"]

Release(t) ==
  /\ mode[t] # "none"
  /\ mode' = [mode EXCEPT ![t] = "none"]

Next ==
  \E t \in Threads :
    AcquireRead(t) \/ AcquireWrite(t) \/ Downgrade(t) \/ Release(t)

Spec == Init /\ [][Next]_mode
=============================================================================
