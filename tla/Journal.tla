------------------------------ MODULE Journal ------------------------------
(***************************************************************************)
(* The journal file of lib/dns/journal.c: a header with the positions of   *)
(* the first transaction and of the end, an index of a few transaction     *)
(* positions, and the transactions, each from one SOA serial to the next.  *)
(* Offsets count units; the header and the index take unit 0, a            *)
(* transaction one or more units.  The diff of a transaction is the pair   *)
(* of zone versions it leads from and to.  Format version 1 is left out.   *)
(***************************************************************************)
EXTENDS Integers, Sequences, FiniteSets, SequencesExt

CONSTANTS Modulus,      \* SOA serials are 0..Modulus-1 (2^32 in the code)
          IndexSize,    \* header.index_size (56 in the code)
          MaxOffset,    \* bound on the size of a journal file
          TargetSize    \* max-journal-size, in units

ASSUME JournalAssumption ==
    /\ Modulus \in Nat /\ Modulus >= 4 /\ Modulus % 2 = 0
    /\ IndexSize \in Nat /\ IndexSize >= 2
    /\ MaxOffset \in Nat /\ MaxOffset > 1
    /\ TargetSize \in Nat /\ TargetSize >= 2

Serial == 0..(Modulus - 1)

\* DNS_SERIAL_GT, DNS_SERIAL_GE: the sign of a 32-bit difference.
SerialGT(a, b) == LET d == (a - b) % Modulus IN 0 < d /\ d < Modulus \div 2
SerialGE(a, b) == (a - b) % Modulus < Modulus \div 2

\* isc_serial_le: serials half the ring apart are not ordered.
SerialLE(a, b) ==
    LET d == (a - b) % Modulus IN d = 0 \/ d > Modulus \div 2

IndexEnd == 1
NoPos == [serial |-> 0, offset |-> 0]
Pos == [serial : Serial, offset : 0..MaxOffset]
AnyPos == [serial : Serial, offset : Nat]
PosValid(p) == p.offset # 0

NoXact == [size |-> 0, serial0 |-> 0, serial1 |-> 0, from |-> 0, to |-> 0]

\* journal_file_create: an empty journal with an empty index.
NewJournal ==
    [begin |-> NoPos, end |-> NoPos,
     index |-> [i \in 1..IndexSize |-> NoPos],
     x |-> [o \in IndexEnd..MaxOffset |-> NoXact]]

JournalEmpty(j) == j.begin.offset = j.end.offset

\* The units from offset o on are overwritten by a transaction's data under
\* the header x (NoXact: the dummy header of dns_journal_begin_transaction).
WriteAt(j, o, size, x) ==
    [j EXCEPT !.x = [i \in DOMAIN j.x |->
        IF i = o THEN x ELSE IF i \in o..(o + size - 1) THEN NoXact ELSE j.x[i]]]

\* journal_read_xhdr.  What was never written reads as no transaction.
XactAt(j, p) == IF p.offset \in DOMAIN j.x THEN j.x[p.offset] ELSE NoXact

\* journal_next: the position after the transaction at p.
JournalNext(j, p) ==
    LET x == XactAt(j, p)
    IN  IF p.serial = j.end.serial
        THEN [res |-> "nomore", pos |-> p]
        ELSE IF x.serial0 # p.serial \/ SerialLE(x.serial1, x.serial0)
        THEN [res |-> "corrupt", pos |-> p]
        ELSE [res |-> "success",
              pos |-> [serial |-> x.serial1, offset |-> p.offset + x.size]]

\* index_find: the index entry closest to, but not after, serial.
IndexFind(j, serial, p) ==
    FoldLeft(LAMBDA best, e :
                IF PosValid(e) /\ SerialGE(serial, e.serial)
                               /\ SerialGT(e.serial, best.serial)
                THEN e ELSE best,
             p, j.index)

\* index_add: when there is no vacant entry every second one is dropped.
IndexAdd(index, p) ==
    LET vacant == {i \in 1..IndexSize : ~PosValid(index[i])}
        half   == (IndexSize + 1) \div 2
        first  == CHOOSE i \in vacant : \A k \in vacant : i <= k
    IN  IF vacant # {}
        THEN [index EXCEPT ![first] = p]
        ELSE [i \in 1..IndexSize |->
                 IF i <= half THEN index[2 * i - 1]
                 ELSE IF i = half + 1 THEN p ELSE NoPos]

IndexInvalidate_none(index, serial) == index

\* index_invalidate: entries that the serial makes ambiguous are dropped.
IndexInvalidate(index, serial) ==
    [i \in 1..IndexSize |->
        IF SerialGT(serial, index[i].serial) THEN index[i] ELSE NoPos]

----------------------------------------------------------------------------
\* journal_find: the position of the transaction that starts at serial.
FindFrom(j, serial, start) ==
    LET Find[p \in AnyPos] ==
          IF p.serial = serial THEN [res |-> "success", pos |-> p]
          ELSE IF SerialGT(p.serial, serial)
          THEN [res |-> "notfound", pos |-> p]
          ELSE LET n == JournalNext(j, p)
               IN  IF n.res = "success" THEN Find[n.pos] ELSE n
    IN  Find[start]

JournalFind(j, serial) ==
    IF SerialGT(j.begin.serial, serial) \/ SerialGT(serial, j.end.serial)
    THEN [res |-> "range", pos |-> NoPos]
    ELSE IF serial = j.end.serial THEN [res |-> "success", pos |-> j.end]
    ELSE FindFrom(j, serial, IndexFind(j, serial, j.begin))

\* dns_journal_iter_init, dns_journal_first_rr and read_one_rr up to the
\* end: the transactions from p on, applied to version v of the zone.  A
\* transaction that does not start from v leaves no version of the zone.
ReplayFrom(j, start, version) ==
    LET Replay[p \in AnyPos, v \in Nat] ==
          LET x == XactAt(j, p)
          IN  IF p.offset = j.end.offset
              THEN [res |-> "success", version |-> v]
              ELSE IF \/ p.offset > j.end.offset
                      \/ x.size = 0
                      \/ x.serial0 # p.serial
                      \/ SerialLE(x.serial1, x.serial0)
              THEN [res |-> "corrupt", version |-> 0]
              ELSE Replay[[serial |-> x.serial1, offset |-> p.offset + x.size],
                          IF x.from = v THEN x.to ELSE 0]
    IN  Replay[start, version]

\* dns_journal_rollforward of a database with version v and its SOA serial.
Rollforward(j, v, serial) ==
    LET f == JournalFind(j, serial)
    IN  IF f.res # "success" THEN [res |-> f.res, version |-> 0]
        ELSE IF serial = j.end.serial THEN [res |-> "uptodate", version |-> v]
        ELSE ReplayFrom(j, f.pos, v)

----------------------------------------------------------------------------
\* dns_journal_commit up to its first write: the checks, the steps of
\* header.begin over transactions that the new serial makes unaddressable,
\* and the header and the index that will be written.
StepBegin(j, serial) ==
    LET Step[p \in AnyPos] ==
          IF SerialGT(serial, p.serial) THEN [res |-> "success", pos |-> p]
          ELSE LET n == JournalNext(j, p)
               IN  IF n.res = "success" THEN Step[n.pos] ELSE n
    IN  Step[j.begin]

TransactionOffset(j) == IF JournalEmpty(j) THEN IndexEnd ELSE j.end.offset

PrepareCommit(j, x) ==
    LET pos0  == [serial |-> x.serial0, offset |-> TransactionOffset(j)]
        pos1  == [serial |-> x.serial1, offset |-> pos0.offset + x.size]
        first == IF JournalEmpty(j) THEN [res |-> "success", pos |-> pos0]
                 ELSE StepBegin(j, x.serial1)
        old   == IF JournalEmpty(j) THEN j.index
                 ELSE IndexInvalidate(j.index, x.serial1)
        ok    == /\ SerialGT(x.serial1, x.serial0)
                 /\ JournalEmpty(j) \/ x.serial0 = j.end.serial
                 /\ first.res = "success"
    IN  [ok |-> ok, begin |-> first.pos, end |-> pos1,
         index |-> IndexAdd(old, pos0)]

----------------------------------------------------------------------------
\* dns_journal_compact: where the part that is kept starts.  The index gives
\* a first guess that leaves half of the target size, then transactions are
\* skipped while that much is left.  The INSIST of the code is the result
\* "insist".
EnoughLeft(j, p) == j.end.offset - p.offset >= (TargetSize - IndexEnd) \div 2

GuessFromIndex(j, serial) ==
    FoldLeft(LAMBDA best, e :
                IF PosValid(e) /\ SerialGE(serial, e.serial)
                               /\ EnoughLeft(j, e) /\ e.offset > best.offset
                THEN e ELSE best,
             j.begin, j.index)

SkipWhileEnough(j, serial, start) ==
    LET Skip[best \in AnyPos] ==
          LET n == JournalNext(j, best)
          IN  IF best.serial = serial THEN [res |-> "success", pos |-> best]
              ELSE IF n.res # "success" THEN n
              ELSE IF /\ n.pos.serial # j.end.serial
                      /\ SerialGE(serial, n.pos.serial)
                      /\ EnoughLeft(j, n.pos)
                      /\ n.pos.offset > best.offset
              THEN Skip[n.pos]
              ELSE [res |-> "success", pos |-> best]
    IN  Skip[start]

KeepFrom_stay(j, serial) ==
    SkipWhileEnough(j, serial, GuessFromIndex(j, serial))

KeepFrom(j, serial) ==
    LET best == SkipWhileEnough(j, serial, GuessFromIndex(j, serial))
    IN  IF best.res # "success" THEN best
        ELSE IF best.pos.serial = j.end.serial
        THEN [res |-> "insist", pos |-> best.pos]
        ELSE IF best.pos.serial # serial THEN JournalNext(j, best.pos)
        ELSE best

\* The early returns of dns_journal_compact.
NothingToCompact(j, serial) ==
    \/ JournalEmpty(j)
    \/ SerialGT(j.begin.serial, serial)
    \/ SerialGT(serial, j.end.serial)
    \/ j.end.offset < TargetSize

\* The transactions of j from p on, copied into the new file behind its index.
CopyFrom(new, j, p) ==
    [new EXCEPT !.x = [o \in DOMAIN new.x |->
        IF o < IndexEnd + (j.end.offset - p.offset)
        THEN j.x[o - IndexEnd + p.offset] ELSE new.x[o]]]

\* The end of the new file, once it holds the transactions of j from p on.
CompactedEnd(j, p) ==
    [serial |-> j.end.serial, offset |-> IndexEnd + j.end.offset - p.offset]

\* The index of the new file is built on top of the one the file has.
BuildIndex(j) ==
    LET Build[p \in AnyPos, index \in Seq(Pos)] ==
          LET n == JournalNext(j, p)
          IN  IF p.serial = j.end.serial
              THEN [res |-> "success", index |-> index]
              ELSE IF n.res # "success" THEN [res |-> n.res, index |-> index]
              ELSE Build[n.pos, IndexAdd(index, p)]
    IN  Build[j.begin, j.index]
============================================================================
