---------------------------- MODULE DurableZone ----------------------------
(***************************************************************************)
(* What the master file and the journal of a dynamic zone promise          *)
(* together: a zone stopped at any moment comes back with the last version *)
(* it answered for, or with the one update that was on its way to the disk.*)
(* Versions are numbered in the order in which they are made; the numbers  *)
(* of updates that never reached the disk are skipped.                     *)
(***************************************************************************)
EXTENDS Naturals

CONSTANTS MaxVersion    \* versions are 1..MaxVersion

Version == 1..MaxVersion
NotServed == 0

VARIABLES db,       \* the version the server answers with, or NotServed
          disk      \* the version a load would produce now

dvars == <<db, disk>>

DInit == disk \in Version /\ db = disk

\* An update becomes durable before it is served...
DJournal(v) ==
    /\ db = disk
    /\ v > disk
    /\ disk' = v
    /\ UNCHANGED db

\* ... and is then committed to the database.
DCommit ==
    /\ db # NotServed
    /\ db # disk
    /\ db' = disk
    /\ UNCHANGED disk

DStop == db # NotServed /\ db' = NotServed /\ UNCHANGED disk

DLoad == db = NotServed /\ db' = disk /\ UNCHANGED disk

DNext == (\E v \in Version : DJournal(v)) \/ DCommit \/ DStop \/ DLoad

DSpec == DInit /\ [][DNext]_dvars
============================================================================
