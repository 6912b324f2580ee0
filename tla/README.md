# A TLA+ verification of parts of BIND 9

This directory holds TLA+ models of parts of BIND 9, the TLC instances that check
them, and machine-checked proofs. The models are written from the C code in
`src/lib` and `src/bin/named`; `PROJECT.json` maps each definition to the lines it
stands for. Paths below leave out `src/`.

| Part | Code | Modules | Checked by |
|---|---|---|---|
| Readers-writer lock | `lib/isc/rwlock.c` | `RWLockSpec`, `RWLock`, `RWLockProofs` | TLC and proofs |
| Quotas | `lib/isc/quota.c` | `Quota`, `QuotaProofs` | TLC and proofs |
| Journal and zone storage, primary and secondary | `lib/dns/journal.c`, `zone.c`, `xfrin.c` | `DurableZone`, `Journal`, `ZoneStore`, `Secondary` | TLC |
| Fetch contexts of the resolver | `lib/dns/resolver.c` | `Fetch`; `FetchLaws`, `FetchAccounts`, `FetchCreation`, `FetchEnding`, `FetchProofs` | TLC and proofs |
| Requests and dispatch | `lib/dns/request.c`, `dispatch.c` | `Request` | TLC |
| DNSSEC key manager | `lib/dns/keymgr.c`, `zone_rekey`, `rndc dnssec` | `KeyRules`, `KeyMgr` | TLC |
| Zone database | `lib/dns/qpzone.c` | `QpZone` | TLC |
| Rate limiters and outgoing NOTIFY | `lib/isc/ratelimiter.c`, `zone.c` | `RateLimiter`, `Notify` | TLC |
| Refresh of secondary zones, transfer quota | `lib/dns/zone.c` | `Refresh`; `RefreshZones`, `RefreshProofs` | TLC and proofs |
| Response policy zones | `lib/dns/rpz.c`, `lib/ns/query.c` | `RpzCidr`, `UpdateQueue`, `Rpz` | TLC |
| Catalog zones | `lib/dns/catz.c`, `bin/named/server.c` | `UpdateQueue`, `Catz` | TLC |

`MCServer`, `MCMaintenance` and `MCKeyMgr` instantiate these for TLC. To run an
instance: `tlc -workers 2 -config MCServer_safety.cfg MCServer`. To check proofs:
`tlapm FetchCreation.tla` (each of the eight modules takes between one and seven
minutes).

## 1. The system

BIND 9 is an authoritative server and a recursive resolver. It runs a fixed set
of event loops (libuv, one thread each). Almost every object belongs to one loop;
other loops reach it by queueing a job (`isc_async_run`). Long work (dumping,
applying an IXFR, reading a policy zone) runs on worker threads and reports back
to the loop. Shared tables are protected by locks or read under RCU.

The models use a loop as what it gives its users: callbacks of one loop run one at
a time, in the order they were posted; a timer fires some time later. A handler
that holds its locks all along is one step. A handler that drops a lock, or that
works without one, is cut there, and other threads come in between. The lock and
the quota are cut at every atomic access.

The parts interact like this. A zone is served from the database (`QpZone`) and
kept on disk as a master file and a journal (`ZoneStore`). A dynamic update, or a
transfer into a secondary (`Secondary`), makes a new version. The new version is
announced to the secondaries (`Notify`, through the rate limiters), taken up by the
policy summary (`Rpz`) or by the catalog (`Catz`). A secondary that hears of it,
or whose timer fires, asks for the SOA and queues for a transfer (`Refresh`). SOA
queries and NOTIFYs are requests (`Request`). Recursive queries share fetch contexts
(`Fetch`). The key manager (`KeyMgr`) changes the keys of a signed zone. Locks and
quotas are below all of it.

Each component has its own module and its own state. `Notify` extends `RateLimiter`
and applies its operators to the shared limiters. `Secondary` extends `ZoneStore`
and shares journal, master file, flags and loop with it. `Catz` and `Rpz` share the
operators of `UpdateQueue`.

**Runs with a subject.** The components of `MCServer` share no state, nor do those
of `MCMaintenance`. A run of these takes several: each initial state picks one
component, the *subject*, and only it takes steps. A property of another component
is then a property of its initial states. This checks each component as a run of
its own would, with one set of constants for each run.

## 2. The runs

| Run | Subjects and what happens | Properties |
|---|---|---|
| `server_safety` | lock with all eight calls; quota whose limit changes at any moment; secondary zone with overlapping transfers, dumps, compactions, stops; fetches with a shutdown; requests over TCP and UDP | `ImplementsRWLock`, `ReleaseAndDestroyRequires`, `QuotaExact`, `QuotaBound`, `SecondaryDurable`, `FcOneCallback`, `FcBooks`, `RqOneCallback`, `RqBooks` |
| `server_live` | lock with wrapping counters; dynamic primary zone with stops and restarts; fetches; requests; all with fairness | `MutualExclusion`, `LockProgress`, `JournalUsable`, `ImplementsDurableZone`, `CompactionKeepsAndFrees`, `DumpedInTheEnd`, `FcCalledBack`, `RqCalledBack` |
| `maintenance_safety` | database with a writer, two readers and its destruction; NOTIFYs with reconfigured rates and shutdown; two secondary zones on one quota; two policy zones | `QzReadersSafe`, `QzTidy`, `RlOneWakeup`, `NfOwned`, `NfAnnounced`, `TransferQuota`, `NoZoneForgotten`, `RpzSummaryRight`, `RpzLookupsRight` |
| `maintenance_live` | NOTIFY, refresh and policy zones with faults that end; catalogs between which a member moves, with a reconfiguration or a job that fails | `CatzSound`, `CatzSettles`, `NfEventuallyTold`, `NoRegress`, `CatchesUp`, `RpzCatchesUp` |
| `keys_manual` | one combined key, manual rollovers at any moment, late runs, slow parent | `NoBogus`, `KeysInUseOnDisk` |
| `keys_policy` | KSK and ZSK with a lifetime, reconfigured to another algorithm or to insecure | `NoBogus`, `StatesTrue`, `NothingMissed`, `InsecureInTheEnd` |
| `keys_faults` | change of algorithm with parental agents, races of rndc and `zone_rekey`, failures | `RulesKept`, `RetiredKeysLeave` |
| `keys_zskfirst`, `keys_stale`, `store_leftover`, `fetch_unstarted`, `request_rcu` | violations, see section 9 | `NothingMissed`, `StatesTrue`, `ImplementsDurableZone`, `FcWillRun`, `RqShutdownTold` |

Deadlock is off in `MCServer` and `MCMaintenance`: the named bounds (arrivals,
versions, faults, calls) end every behaviour. That nothing stops too early is what
the liveness properties say. The key manager never stops, and deadlock is checked.

A property that joins several (`RqBooks`, `QzTidy`, `RpzSummaryRight`, ...) names its
parts; each part has its own definition and comment. The type invariant of a
module is a part of one of these properties, or is proved (`TypeCorrect`,
`QuotaTypeOK` as a part of `QuotaInv`, `FetchTypeOK` as a part of `FcInv`,
`RefreshTypeCorrect`).

## 3. Locks and quotas

**The lock.** `RWLock` models the internal lock (C-RW-WP) of `lib/isc/rwlock.c`. Each
thread walks through program points; each atomic access is one step. The variables
are the fields of `isc_rwlock_t` (`writers_lock`, `writers_barrier`,
`readers_ingress`, `readers_egress`) and the locals of a call (`cnt`,
`barrier_raised`, and `seen`, the first load of `read_indicator_isempty`). The
eight functions are named by the constant `Calls`. `RWLockSpec` is the lock as its
callers see it: each thread has a mode, and upgrade and downgrade are single
steps. A thread whose upgrade fails never stops being a reader in that view.

Assumptions:
- Memory is sequentially consistent. The code uses acquire and release orders;
  weaker behaviours are not explored.
- The two loads of `read_indicator_isempty` are made left to right. C does not
  fix the order of evaluation of the operands of `==`. With the other order
  mutual exclusion fails, which is one of the mutants.
- The weak compare-and-swap may fail for no reason. The code loops over it only
  in `isc_rwlock_wrlock`.
- The build with `USE_PTHREAD_RWLOCK` is not modelled.

Bounds: three threads are the least with a writer, a reader and an upgrader;
`Patience` 1, and no new call after `MaxArrivals` = 3 readers have arrived. The
proofs cover any number. In `server_live` the counters wrap at `CounterLimit` = 6.
The real ones have at least 32 bits; their difference is at most the number of
threads, so a wrap value above that number is enough.

Fairness: a thread inside a call is run by the scheduler (`WF(Step(t))`), and a
holder gives the lock back (`WF(Unlock(t))`), which every caller in the code does.
`LockProgress` claims progress for a reader that has raised the barrier, and for a
writer that waits for readers to leave. Before that a reader can be overtaken for
ever, because a retry that finds the lock free again costs no patience. A writer
waiting for the barrier can be starved by impatient readers.

**The quota.** `Quota` has one step for each atomic access of
`isc_quota_acquire_cb` and `isc_quota_release`: the counter, the limit (changed by
`isc_quota_max` meanwhile) and the queue of jobs are three objects, and no lock
covers two of them. `isc_quota_max` may come at any step: the interface scan calls it
while the loops run. A caller with a job (a TCP connection being accepted) is queued
when it is refused; one without is sent away. `QuotaExact` says that counter and
queue tell exactly who has a unit and who waits. `QuotaBound` says that a caller is let
in only up to the largest limit that was in force during its own attempt; a release
that hands its place on adds no holder. The history variable `qTop` keeps that
largest limit (0 when there was none at some moment). It is not possible to say more:
see `QuotaBoundNow` in section 9. Three callers, two with jobs, limits 0 (none), 1, 2.

## 4. The journal and zone storage

`Journal` has the file and its algorithms as operators: serial arithmetic modulo
`Modulus`, `journal_next`, the index (find, add with decimation, invalidate),
`journal_find`, iteration and roll-forward, the computations of
`dns_journal_commit` and `dns_journal_compact`. A file is a record with the
positions of its header, the index, and the transaction at each offset.

`ZoneStore` has the steps. An update writes the data (`Update`), the transaction
header, the file header and the index, and then commits the version
(`CommitUpdate`). These run on the loop of the zone, as do the end of a dump
(`DumpDone`) and the compaction (`CompactHeader`, `CompactIndex`, `CompactRename`).
The dump runs on a worker (`DumpWritten`, `DumpFailed`); `Flush` comes from another
loop at any moment. `Stop` may fall between any two writes; `Load` is
`zone_postload` with the roll-forward. `DurableZone` is the promise: a version is on
disk before it is served, and a restart brings back what was served or the update
that was being journaled. The refinement maps `disk` to what `Recover` would find.

`Secondary` adds the transfers: deltas of an IXFR are queued (`IxfrDelta`), applied
and journaled by a worker (`ApplyOne`, `ApplyXhdr`, ...), and committed by
`ApplyDone`; `AxfrDone` replaces the database and removes the journal; `XfrFails`
leaves its worker behind; `CompactDeferred` is the compaction put off during a
transfer. `SecondaryDurable`: a stop never sets the zone back behind what it
answered for, except after an AXFR until the dump that is then due.

Abstractions: offsets count units, not bytes; a version is a number; writes reach
the disk in the order they are made. A worker of a given-up transfer ends before
the next IXFR starts. Left out are `ixfr-from-differences`, inline signing (source
serials) and version 1 files.

Bounds: `Modulus` 8, an index of two entries. The primary (`MCScenarios`) has
`MaxOffset` 9, a target of 5 units, transactions of 1 or 2 units, and three
environments: serial steps of 2 and five versions, with stops everywhere but
between the header of a compacted file and its rename; steps of 3 (almost half the
ring) and five versions; steps of 1 or 3 and four versions. The last two have no
stop between header and index (see section 9). With these the index fills and is
decimated, the serial wraps, `begin` steps over transactions, and a compaction keeps
some older changes. The secondary has `MaxOffset` 6, a target of 3, four versions,
and stops at rest and after the copy of a compaction.

Fairness: what is queued on the loop and the timer of a zone that needs a dump run
in the end (weak). A dump that is tried again and again is written in the end:
strong fairness of `DumpWritten`, since `DumpFailed` may come in between. Without it
a full disk keeps the zone from being dumped.

## 5. Fetches and requests

**Fetches.** `Fetch` models how `dns_resolver_createfetch` finds, creates and joins a
context that clients share, how a context ends, and shutdown. A loop is at a place
(`fcLoop[l].at`): `createfetch` is cut at "find" (lookup under `fctxs_lock`),
"unshared", "add" (insertion after the lock upgrade) and "lock" (the join under the
context's lock); `fctx__done` at "finish", "send" and "spill"; the spill timer at
"tick" and "tock". `fcJobs[l]` holds the jobs posted to a loop: a start, a shutdown
or a callback. `fcCtx` holds the contexts in memory, `fcTable` the hash table,
`fcCount` the counters per zone. A context is named by the fetch that created it.
What the servers answer is left to chance. Responses that go to the same loop are
posted in one fixed order (`FcPosts`); their callbacks do not interact.

`FcOneCallback`: an accepted fetch is called back exactly once, on its own loop.
`FcBooks`: no assertion fails; reference counts, table and zone counters are exactly
what the fetches and handlers under way make them; a key has at most one context
that can be joined. `FcCalledBack`: all are called back in the end. Bounds: two loops;
three fetches (two share a key, one is unshared in the same zone) or two with a
shutdown; `clients-per-query` grows from 1 to 2, `fetches-per-zone` is 2. The proofs
cover any number. Fairness: each loop runs what is posted to it, and a started
context gets an answer or gives up.

**Requests.** `Request` has requests to one server on one loop, over dispatch entries:
create, connect, send, read, time out and retry, cancel, shut down, destroy. TCP
requests share a connection. Every function tests that it is on the request's
loop, so a handler is one step. `RqOneCallback`, `RqBooks` (reference counts,
assertions, and a connection with waiting entries is being read), `RqCalledBack`.
Bounds: up to three TCP requests with two message IDs, or one UDP request; one
retry, one port rebind, up to two faults of the network. Fairness: the loop
runs posted callbacks, and the network reports on all it was asked for, if only by
a timer. `RqFairness` writes out when `RqRuns` is enabled (`RqBusy`), because TLC
would otherwise evaluate all handlers to find out.

## 6. The key manager

`KeyRules` has the rules of `keymgr.c`: equations (1) to (3i) of the comments in that
file, `keymgr_policy_approval` and the relation of predecessor and successor. `KeyMgr`
has the rest: `dns_keymgr_run` as one operator (`keymgr_key_init`, the walk over the
keyring, rollover and creation, `keymgr_update`, purge), the two halves of
`zone_rekey` (`RekeyKeys` runs the manager and saves the files, `RekeyZone` changes
the zone, `RekeyFails` is the error path), `CheckdsDone` (an answer of a parental
agent), `RndcRead` and `RndcWrite` (the two locked sections of `rndc dnssec -checkds`
and `-rollover`), `Loadkeys`, `Keygen` (`dnssec-keygen -k -G`), `Reconfigure`. The
parent and the caches of the world are external: `caches` holds every RRset a
validator may still have, with the time it has left.

Abstractions:
- Time is relative. `Tick` moves every recorded time one step into the past, and
  saturates at `Now - Horizon`. `Horizon` is at least every delay of `Timing`,
  so no comparison can tell.
- Key ids are `1..MaxKeys` and are used again after a purge. Behaviours that need
  more keys at once are not explored. Ids are unique, as
  `keymgr_keyid_conflict` makes them.
- The keys are listed in two orders, ids ascending and descending.
- Signatures are remade within the sign delay, and at once when an algorithm
  comes or goes.
- Key sizes are left out; two keys of one algorithm and role are alike.
- The operator is honest: `-checkds` is only used once the DS is visible or gone.
  `-rollover` is only used on a key that has no inactive time yet.
- There is one parental agent, and it answers with the present DS RRset.
- A run of `zone_rekey` and an rndc command take no time compared with `Tick`.
  Reconfiguration happens while the loops are paused.

Properties: `NoBogus` (any mix of current and cached RRsets validates), `StatesTrue`
(OMNIPRESENT means that all have it, HIDDEN that none has), `KeysInUseOnDisk`,
`NothingMissed` (before the next key event a run would change nothing),
`RulesKept` (no step breaks the DNSKEY or the RRSIG rule where it held), `RetiredKeysLeave`,
`InsecureInTheEnd`. All delays are 0 or 1, so that each can be missed by one step;
two keys, as a rollover needs, or three for a KSK with a ZSK that rolls. With saves
or zone updates that fail only `RulesKept` and `RetiredKeysLeave` hold.

Fairness: time passes (`SF(Tick)`); the zone is rekeyed when its timer is due
(`[]<>(refreshkeytime > Now)`), which the zone's timer ensures; a run that is
started again and again finishes its update of the zone (`SF(RekeyZone)`), so
failures do not last for ever; the parent follows the CDS records
(`WF(ParentSync)`); the agent or the operator confirms a DS that waits for it
(`SF(CheckdsDone)`, `SF(RndcRead)`, `WF(RndcWrite)`). The last two are about
people and servers outside the code: without them a rollover waits, as it should.

## 7. Maintaining zones

**Zone database.** `QpZone` has the versions of `qpzone.c`. A node keeps a chain of
headers for each type; a header belongs to the version that added it. One writer
adds, subtracts, commits or rolls back; readers open the current version, look up,
keep rdatasets and close; the database may be given up while nodes are in use. What
runs under `qpdb->lock` or a node lock held for writing is one step. Closing a
version is several steps, with other threads in between. `QzReadersSafe`: an open
version never changes, and a header in use is not freed. `QzTidy`: least serial, dirty
nodes, record counts and the heap of signatures fit the data. One node with one
type of signature, serials up to 3, two changes in the first version and one after.
The type is one that is also in the heap; types do not interact.

**NOTIFY.** `RateLimiter` has the limiters as records; `Notify` the way from a commit
through NEEDNOTIFY, `zone->notifies`, the address lookups, the two limiters and the
request (UDP, then TCP) to the answer. The limiters run on the manager's loop, the
zone's callbacks on its own, and commits come from any thread. `RlOneWakeup`: no
wakeup of a limiter is lost or doubled. `NfOwned`: a notify and what drives it are
never without each other. `NfAnnounced`: a change that an address has not acknowledged
is always on its way, although a queued notify stands for later changes.
`NfEventuallyTold`: all are told in the end, unless an attempt failed for good: no
request could be made, no answer came over TCP, or the address lookup of a name server
could not be made. One address that is both in `also-notify` and the address of an NS
name, so that duplicates happen; two serials, one failure in `maintenance_live`.

**Refresh.** `Refresh` has a record for each secondary zone (its flags, the current
primary, the stage of its refresh), the manager's two lists and the primaries found
unreachable. A NOTIFY, with a serial or without, rndc and other zones come in from
other loops. A server may have a limit of its own (`transfers` of its `server`
statement); limits do not change. `TransferQuota`: `transfers-in` and
`transfers-per-ns` are kept. `NoZoneForgotten`: a zone that waits has someone to wake
it, an idle one has its timer. `NoRegress`: no refresh brings an older serial unless
it is forced or a full transfer. `CatchesUp`: without NOTIFY and once faults are over,
a zone follows the newest of its primaries. Two zones, two primaries, no faults in
`maintenance_safety`; one zone, two serials, one fault in `maintenance_live`. The
proofs cover any number of each.

**Policy zones.** `RpzCidr` has the radix tree of addresses (`search`, `add_cidr`,
`del_cidr`, `dns_rpz_find_ip`); `Rpz` the updates, cut after each quantum, the counters,
the names, and `rpz_rewrite_ip` of `query.c`. `RpzSummaryRight`: a trigger that the old
and the new version both have never disappears during an update; after it the
summary has exactly the triggers of the zones; tree and counters are exact.
`RpzLookupsRight` compares lookups with the definition: the first zone with a match,
and in it the longest prefix. `RpzCatchesUp`: the last version is taken up.
Addresses have three bits. Two policy zones with two contents each, chosen so that
prefixes nest and nodes are shared.

**Catalog zones.** `Catz` has the update timer, the worker that reads and merges, the
jobs of the main loop that add, modify and delete members, and reconfiguration, which
pauses loops but not workers. A catalog that is removed and put back is a new
object. The merge is cut where it lets go of the catalog's lock to ask another catalog for
a member (`CzVisit`, `CzOwner`, `CzBack`) and while it has no table of entries (`CzDeletes`,
`CzMerged`). The reconfiguration is cut between the catalogs it adds, and between the merge
with an empty catalog and the assertion after it (`CzPostreconfig`, `CzRemoved`); it
reads entries without the catalog's lock (`CzFound`). Where it meets a merge an
assertion can fail or freed memory be used: `czAborted` is then set and nothing
happens any more. The properties are about the program up to there; section 9 has
the cases. A job that adds or modifies a member may fail (`CzJobFails`); its name is
then in `czUnserved` until the next job for it.

`CatzSound`: no version is forgotten; at rest what the view serves is what the
catalogs list. `CatzSettles`: it comes to rest with the last good version merged. Two
catalogs, of which one or both are configured at first; a member that moves by a change
of ownership, another whose options change, a broken version, and one reconfiguration or
one failed job (`CzMaxReconf` bounds their sum).

Fairness: each loop runs what is posted to it, a pool runs its workers, timers that
are set fire, and the network reports on what was sent, if only that it timed
out (weak fairness throughout; `RpzFairness` writes out when a zone has a step).
Faults, new versions, NOTIFYs received and reconfigurations need not happen. An entry of
the list of unreachable primaries expires.

## 8. The proofs

Every theorem holds for all values of the constants that satisfy the named
assumptions of the module (`ThreadsAssumption`, `QuotaAssumption`, `RefreshAssumption`,
`FetchAssumption`, ...). These say that sets are finite, that limits are natural
numbers and that every zone has a primary. TLC evaluates them on each run.

| Module | Theorems | For every |
|---|---|---|
| `RWLockProofs` | `TypeCorrect`, `MutualExclusionHolds`, `RequiresHold`, `Refinement` | finite set of threads, set of calls, patience; counters that do not wrap |
| `QuotaProofs` | `QuotaBooksExact`, `QuotaWithinLimit` | finite set of callers, any limits |
| `RefreshProofs` | `NoZoneIsForgotten`, `TransferQuotaKept`, `RefreshAssertsHold`, `NoZoneRegresses`, `RefreshTypeCorrect` | zones, primaries, quotas, faults |
| `FetchProofs` | `EachFetchCalledBackOnce`, `FetchBooksKept` | fetches, loops, keys, zones, limits |

**The lock.** `IInv == TypeOK /\ OwnerInv /\ CountInv /\ SeenInv /\ FlagInv /\
MutualExclusion`. Mutual exclusion is not inductive alone. `OwnerInv` says that
`writers_lock` is set exactly while one thread is between acquiring and releasing it.
`CountInv` says that arrivals exceed departures by the number of threads inside, and
that the barrier counts the readers that raised it. `SeenInv` says that the first
load of a writer is at most the current departures; with `CountInv`, equal loads mean
that nobody is inside. `FlagInv` ties the local flag to the two barrier steps.
`OneMover` and `MoveLemma` are the facts about cardinalities; then there is one lemma
for each action. `Refinement` follows from `ModeChanges` (how each step moves the
mode) and `Simulation`.

**The quota.** `QuotaInv == QuotaTypeOK /\ QuotaAccounting /\ QuotaJobsOnce /\
QuotaRoom`. `QuotaBound` is an action property and needs `QuotaRoom`: the holders and
the attempts that saw the counter below W are together at most W, for every attempt
under way and every W from its `qTop` on. The limit may move between the addition and
the test, so one limit is not enough: the statement for all larger W is what a
change of the limit preserves. An attempt raises the counter over all of them, so it is
among those below W only if there is room.

**Refresh.** `RInv` has a part for each zone (`RZoneInv`: the type of its record; that
a refresh under way has REFRESH set and an address left; that a transfer did not
start from an older version than the zone has; that an idle zone has its timer)
and a part for the manager (`RLists`: a zone is on the list its stage says and on
no other, and the quota is kept). Most steps replace one zone's record by one that the
lists cannot tell from it (`RMoves`); the proof of such a step looks at that record
only. The others move a zone between the lists; the hard one is
`zmgr_resume_xfrs`, where the zones started must stay within the quotas
(`ResumeKeeps`). `NoRegress` follows from the same lemmas, since each of them also shows
what happens to the serial (`RForward`). `RefreshZones` has the lemmas on one zone's
record, `RefreshProofs` those on the lists and the theorems. The next primary to ask
exists because a set of numbers has a least member: the lemmas of `RefreshZones` assume
that (`HasLeast`), and `RefreshProofs` proves it. An earlier form of `NoRegress` held on
small instances only; the proof showed why (section 9).

**Fetches.** `FcInv` keeps an account for every name that a context can bear. What
refers to it (`FcOwed`: the fetches that wait on it or were called back from it, the
handlers on their way to its lock, the handler that ends it, starts and shutdowns
posted for it) and one more while it is not done are its reference count
(`FcAccounts`). A name that no context bears counts 0, so nothing points to freed
memory; `Referenced` draws that conclusion and most steps start from it. `FcHandler`
says what the handler of a loop relies on across the places where it holds no
lock, `FcTidy` how a context, the table and the handler of its loop belong together,
`FcLists` that a context's list has exactly who waits on it, `FcCallbacks` that a
fetch has one callback posted exactly while it is called. Most steps change one
context, one handler and one fetch: `ChangeStep` shows once what such a step keeps,
from the balance of the one account, and `DetachStep` does so for steps that drop
references. The exceptions are `FcTellAll`, which refers to every context in the
table, and the creator that finds another context in its place (`GivenUp`).

The proof is in four parts, so that each can be checked by itself. `FetchLaws` has the
invariant, and as definitions the facts that the parts share: `FcCounting` (how the
size of a set and the number of jobs in a queue change) and `FcLaws` (what a step
keeps). `FetchAccounts` shows the laws from `FcCounting`. `FetchCreation` and
`FetchEnding` have a lemma for each action, from `FcLaws`. `FetchProofs` proves
`FcCounting`, concludes `FcLaws`, and has the theorems, which assume neither. The
finding `fetch_unstarted` is no contradiction: that context is well kept, it is
only never started.

**What is only model-checked, and why.**
- Liveness under fairness: `LockProgress`, `FcCalledBack`, `RqCalledBack`,
  `DumpedInTheEnd`, `CatchesUp`, `NfEventuallyTold`, `RpzCatchesUp`, `CatzSettles`,
  `RetiredKeysLeave`, `InsecureInTheEnd`. The prover has no fairness.
- What recursive definitions compute: the roll-forward and the index of `Journal`, on
  which `ZoneStore` and `Secondary` rest; the walk over the keyring (`KeyMgr`); the
  radix tree and the lookups (`RpzCidr`, `Rpz`). They need induction over data.
- `Request` and `Notify` fold handlers over lists of entries and notifies, which needs
  induction too.
- `QpZone` and `Catz` have no proofs yet. The wrapping counters of the lock are
  checked with three threads.

## 9. Where the code and its documentation disagree

Five runs expect a violation; `PROJECT.json` quotes the lines.

- `keys_zskfirst`: a key of the policy that needs no rollover wipes out the next
  event of an earlier one (`keymgr.c:1738`).
- `keys_stale`: an answer about the DS is saved together with states that are older
  than the last run (`zone.c:20631`).
- `store_leftover`: a stop just before the rename of a compacted file leaves a `.jnw`
  file that the next compaction opens with its old content (`journal.c:2555`).
- `fetch_unstarted`: a fetch joins a context before its creator does; the creator is
  then refused and never starts it (`resolver.c:10264`).
- `request_rcu`: `dns_dispatch_add` returns with its read-side section open when the
  ID is taken, and `dns_requestmgr_shutdown` waits for ever (`dispatch.c:1490`).

The following were seen on temporary instances of the models, or follow from the
code. They have no run; the runs above exclude them as said.

Journal and storage:
- Two updates that advance the serial by half its space between two dumps make a
  restart fail. The code has `force_dump` as "notyet" at `journal.c:1360`. The runs
  exclude it (`far = FALSE`).
- A stop between the header and the index of a journal leaves an old index. With
  large later steps of the serial, `journal_find` and a walk disagree
  (`journal.c:1358`).
- The transaction header and the file header are written between the same two syncs
  (`journal.c:1376`). A power loss that keeps only the second is not modelled.
- `dns_zone_flush` sets NEEDCOMPACT without a serial to compact to (`zone.c:11544`).
- `zone_xfrdone` compacts although the dump is not yet written (`zone.c:17811`).
- A transfer with too many records does not set NOIXFR.

Key manager:
- When an update of the zone fails after the key files were saved, the states are
  ahead of the zone, and `StatesTrue`, `NoBogus`, `KeysInUseOnDisk` and
  `InsecureInTheEnd` fail. With manual rollovers and parental agents as well,
  `RulesKept` fails too; `keys_faults` leaves manual rollovers out.
- A request by `dns_zone_rekey` in the middle of `zone_rekey` is overwritten
  (`zone.c:22391`). The event waits for the next regular run.
- The sign delay is not added for a key without predecessor and successor
  (`keymgr.c:1343`). When a KSK and a ZSK are replaced by one combined key of the
  same algorithm, `NoBogus` fails if signatures take that long to be remade.
- A retired ZSK that is the only key left is given the states of a KSK too
  (`keymgr.c:2062`). It then waits for ever for a DS that it never had.
- Manual rollovers of a KSK and a ZSK together with a change of algorithm violate
  `StatesTrue`; the cause was not pursued. `keys_policy` leaves them out.

Quota and rate limiter:
- Two callers raise the counter from 0 and from 1 under a limit of two. The second is
  let in, the limit comes down to one, and the first, which saw 0, is let in as well:
  the limit of the moment does not bound the holders (`QuotaBoundNow` does not hold).
- A release between the decrement (`quota.c:95`) and the enqueue (`quota.c:105`) of a
  refused caller finds no job; the job waits for the next release, if there is one
  (`QuotaJobHasHolder` does not hold).
- A dequeue while a tick has the event in its local list fails an INSIST
  (`rlAborted`); properties are about the program up to there.
- A rate of more than one per tick does not limit events enqueued one at a time.

Fetches and requests:
- A shutdown misses a context inserted after its walk, or unshared
  (`resolver.c:10323`); it ends by its answer or its timer.
- The timer's `INSIST(!exiting)` (`resolver.c:9827`) can meet a shutdown.
- Queries cancelled, or timed out after the last retry, are not counted in
  `disp->timedout`.
- The retry of a fixed ID over a new TCP connection meets the same table.
- Rebinding a UDP port changes the hash key of an entry that is in the table.
- A late answer may match a new entry that uses its ID again.

NOTIFY:
- A retry over TCP loses the TSIG key (`NfSigned`; `doc/arm/reference.rst:7070`).
- A notify found by name does not inherit the startup flag of the one it came from.
- A notify is left behind when its limiter shuts down before it is enqueued.
- After a refusal by its limiter `notify_send` does not go on to the other addresses of the
  name.

Refresh:
- A refresh during loading sets REFRESH, and nothing clears it (`RefreshInProgress`;
  `zone.c:15157`).
- A primary that refuses the SOA query is asked for an AXFR without a serial to
  compare. After a failed IXFR, a bad answer of the same primary and a refusal of the next, an
  AXFR can bring an older serial even where IXFR is configured: this refuted the first
  form of `NoRegress`, with three faults.
- A TLS primary that has nothing new ends the round (`RTls` is empty where `CatchesUp`
  is checked).
- NEEDREFRESH is not consumed when a transfer fails.
- `rndc retransfer` during a transfer has no effect.

Policy and catalog zones:
- A zone with `policy disabled` hides later zones for address triggers
  (`RpzDisabledOnlyLogs`; `query.c:3652`, `doc/arm/reference.rst:5127`).
- An update that fails leaves triggers that are no longer in the zone.
- When a catalog uses the label of a member again for another name, the merge takes
  the old entry out without a job to delete it (`catz.c:652` to `680`): the old zone stays,
  and `CatzListed` would not hold. The contents of the run keep a label to one name.
- Options of two versions merged in a row: the zone keeps the first (`CatzOptions`).
- A worker may merge into a catalog that a reconfiguration has dropped
  (`CatzNoOrphan`).
- A worker and a reconfiguration can meet so that the process aborts (`CatzNoAbort`).
  The worker that passed the test of `active` merges between the merge with an empty
  catalog and the `INSIST` that it is empty (`catz.c:2577`, `2581`). A merge that asks
  another catalog for a member comes back to an iterator over a table that the
  reconfiguration destroyed (`catz.c:589` to `621`). `dns_catz_zone_for_each_entry2` reads the
  entries under the lock of the table only, while a merge frees them or has none
  (`catz.c:2601`, `708` to `742`). A zone has no reference on the catalog it remembers, which
  may be gone when a merge asks it (`catz.c:587`).

Database:
- `detachnode` holds the node lock for reading over the decrement and the test
  (`qpzone.c:3960`): a bucket can be counted as inactive twice, and the database be
  freed with nodes in use (`QzFreedLast`).
- A version closed with a least serial that is stale leaves older headers to the
  next decref. A rolled-back header stays in the heap of signatures.

## 10. What is not modelled

`PROJECT.json` lists every part with its status and reason, and the hazards of each,
at the line where they bite. In short:
- Parsing and rendering (messages, names, rdata, master files), cryptography,
  configuration, control channel and tools: sequential, functions of their input,
  covered by unit tests, fuzzing and system tests.
- Query processing, the resolver's iteration, the validator and dynamic update rules:
  they depend on the contents of answers and zones, and would need an abstract name
  tree first.
- The qp-trie with its memory reclamation, the cache, the address database, the
  network manager, incremental signing and NSEC3 chains.
- Of the modelled parts: in `QpZone` loading, iterators, glue, `deleterdataset` and
  the NSEC trees; in `Refresh` stub zones, dialup, changes of the primaries and of the
  limits; in `Request` dispatch sets and `getnext`; in `Rpz` IPv6, NSDNAME, NSIP and
  client triggers; in `Catz` several views and shutdown; in `KeyMgr` several agents,
  key stores and offline keys; keys saved only in part (`keymgr.c:2238`).
