# Verification of the concurrent cuckoo hash table

The repository is a fork of libcuckoo: a header-only concurrent hash table
(`src/libcuckoo/cuckoohash_map.hh`, with `bucket_container.hh`,
`cuckoohash_util.hh` and `cuckoohash_config.hh`) and a set of benchmark drivers
that call it. The fork replaces libcuckoo's exclusive spinlock by a
reader/writer lock, lets `find` and the first half of an insertion share locks,
and upgrades them to write. This directory holds TLA+ models of the table, the
TLC configurations that check them, and TLAPS proofs.

Line numbers below are those of `src/libcuckoo/cuckoohash_map.hh` unless a file
is named.

## 1. Inventory

| part | state | operations | interacts through |
|---|---|---|---|
| `spinlock` (882-985) | the word `rwlock` (bit 0: a writer; the rest: twice the number of readers), `write_unlock`, `elem_counter_`, `is_migrated_` | `lock()`, `lock(bool)`, `try_upgradeLock`, `degradeLock`, `unlock` | atomic instructions on the word; volatile, non-atomic accesses to the flag |
| bucket locking (989-1371) | `all_locks_`, a list of lock arrays of which the last is current | `snapshot_and_lock_two`, `lock_one/two/three`, `lock_all`, `TwoBuckets::try_upgrade`, `check_hashpower`, `rehash_lock` | hashpower and lock list, read without a lock; then the locks |
| contents (484-765, 1373-2060, 2236-2275) | `buckets_`, `old_buckets_`, the element counter of each lock | `find*`, `update*`, `erase*`, `uprase_fn`, `upsert`, `insert*`, `clear`; inside: displacement along a path, doubling, lazy migration | the buckets, under the locks; exceptions (`hashpower_changed`) that send a caller back |
| path search (1805-1929) | `b_queue` of fixed size, 16-bit `pathcode` | `slot_search`, first half of `cuckoopath_search` | local to the thread, but reads buckets others change |
| explicit resizing (734-751, 2113-2234, 2258-2275) | the same, and a second table while elements are transferred | `rehash`, `reserve`, `cuckoo_expand_simple`, `rehash_with_workers` | all locks; worker threads |
| `locked_table` (2400-2960) | ownership of all locks | iteration, single-threaded variants of the operations, (de)serialisation | all locks for as long as it lives |
| settings and statistics (300-470) | `minimum_load_factor_`, `maximum_hashpower_`, worker threads, `run_cuckoo` counts | getters and setters, `size`, `load_factor` | atomics without locks |
| `bucket_container` | memory, `hashpower_` | `setKV`, `eraseKV`, `swap`, `clear_and_deallocate`, copy, move | called with the locks held; `hashpower()` without |
| programs that measure the table (`src/*.cpp`), traces and generators (`tracer*.h`, `generator.h`) | the keys to load, the requests, counters per thread, a stop flag | load, run and join worker threads | the table, the stop flag, `exit` |

The hard behaviours, and the properties that make each part correct:

* **One lock.** A reader announces itself before it knows whether it may come
  in, a writer claims the lock over present readers, `unlock()` guesses from two
  fields what its caller has. *Correct*: writers are alone, the word counts
  exactly what is held, `unlock()` guesses right, a claimant gets in.
* **Many locks.** A thread computes its buckets from one read of the hashpower
  and finds its locks by another read of the list; both may change before it
  has the first lock. It may upgrade one of two locks, migrate old buckets on
  the way, and wait while holding others. *Correct*: exclusive access to
  buckets, under the current array and the current hashpower, after migration;
  no cycle of waiting threads; every operation ends, as far as upgrades are granted.
* **Contents.** A path is searched, read, and executed in separate critical
  sections, between which the table changes or doubles. *Correct*: a key is in
  the table at most once, where a lookup finds it, and the table is at every
  moment a map whose operations are atomic; each call returns.
* **Arithmetic limits.** Path codes and the queue have sizes computed from two
  constants, and only asserts check them. *Correct*: a code unpacks to the path
  searched, the queue is never overrun, a search that gives up was complete.

* **Resizing and locked tables.** A thread that has all the locks splits the work
  among threads that take none, moves every element into a second table that may
  itself grow or throw, or keeps the locks for as long as its caller likes, while
  others are in the middle of an insertion. *Correct*: a resize is invisible, the
  owner sees the map as a list, those who waited go on with nothing stale, what
  the owner begins comes to its end.
* **Programs.** Requests are divided among threads, and phases, rounds and a timer
  order them. *Correct*: a request finds what an earlier one has stored, and the
  program ends.

`PROJECT.json` lists every hazard with its line and the properties about it.

## 2. Modules

| module | models | extends / instantiates |
|---|---|---|
| `RWLock` | what one lock promises (abstract) | |
| `SpinLock` | class `spinlock`, instruction by instruction | instantiates `RWLock` |
| `SpinLockProofs` | theorems about `SpinLock` | extends `SpinLock` |
| `BucketLocks` | taking locks, lock arrays, doubling, rehash, clear, migration bookkeeping | uses locks as `RWLock` specifies them |
| `KeyValueMap` | what the table promises (abstract): a map with atomic operations | |
| `CuckooTable` | what the buckets hold, displacement, doubling, lazy migration, counters | instantiates `KeyValueMap` |
| `PathCode` | path codes and the queue of the search | |
| `LockedMap` | the map with resizes, and with a locked table as a list with an iterator (abstract) | extends `KeyValueMap` |
| `LockedTable` | rehash, reserve, worker threads, `locked_table`, iterators, stream | extends `CuckooTable`, instantiates `LockedMap` |
| `Drivers` | the programs that measure the table | uses the table as `KeyValueMap` specifies it |
| `MC*` | constants for TLC | extend the module of that name |
| `NumberFacts` | theorems: least elements, quotients, remainders | |
| `CuckooFacts` | theorems about the operators of `CuckooTable`: buckets, `alt_index`, migration, counters | extends `CuckooTable`, `NumberFacts` |
| `BucketLocksProofs`, `PathCodeProofs`, `DriversProofs` | theorems about the module of that name | extend it and `NumberFacts` |
| `CuckooTableProofs` | theorems about `CuckooTable` | extends `CuckooFacts` |
| `LockedTableProofs` | theorems about `LockedTable` | extends `LockedTable`, `CuckooTableProofs` |

The constants are assumed to be what the code makes of them: `kMaxNumLocks` a
power of 2 (stated as what is used of it, `LocksAssumption`), hashpowers bounded, calls
those of the interface, keys that fit a table of the largest hashpower (`RoomAssumption`).
`ExponentAssumption` states the law of exponents, of which the provers know nothing, `ThreadsAssumption`
that there are finitely many threads, which the shares in a word count,
`NoneAssumption`, `OwnerAssumption`, `PositionAssumption` and `StreamAssumption` that `None`
is nothing else, and `EndAssumption` that `"end"`, the key of `cend()`, is none. TLC evaluates each.

Four levels stand on one another. `SpinLock` is shown to implement `RWLock`,
and `BucketLocks` to use each of its locks as `RWLock` allows (`UsedAsRWLocks`), so
`BucketLocks` may take one step per lock operation, not a dozen.
`BucketLocks` shows that a thread that has its locks has its buckets to itself,
at the hashpower it believes in and after their migration (`BucketExclusion`,
`SnapshotHolds`, `MovedBeforeUse`), so `CuckooTable` may take one step per
critical section. `CuckooTable` is shown to implement `KeyValueMap`, and with the
actions of `LockedTable` to implement `LockedMap`. `Drivers` calls that map, one step
per call.

### SpinLock and RWLock

Each access to `rwlock` or `write_unlock` is an action; `pc` says which comes
next and `v` is the local copy. `held` is a history variable: what the caller
has been given. Both fields are `volatile`; the word is changed by `__sync` builtins,
which are full barriers, and the flag is one byte, which is read and written whole.
Their accesses are therefore single steps in program order (but see
section 5). A thread may call any operation its mode allows: a reader
may upgrade, a writer degrade, both unlock.

`RWLock` has the modes *none, read, claim, upgrade, write*. A claim is made over
present readers and keeps newcomers out. A refused upgrade is a stutter, as
nothing changes for the lock.

### BucketLocks

`hp`, `oldHp`, `oldAlloc`, `unmoved` and `remaining` are the hashpower and memory
of the two containers and the count of unmigrated locks; `arrays`, `mode` and
`migrated` the locks. Every step that reads shared state without a lock is an
action: `ReadHashpower`, `ReadArray`, `CompareHashpower`. `Claim`/`Enter` is
`lock()`, `Share` is `lock(bool)`; `check_hashpower` after the first lock,
upgrades, migration by a reader (upgrade, move, degrade) or by a writer,
unlocking in the code's order, are actions too. `try_upgradeLock` is refused not only when
somebody has claimed the lock: it loads the word (`LoadWord`) and swaps it if it is still the
same (`Changed`), so any reader that comes or goes in between refuses it. The readers that count are
those with a share and those that have added one over a writer's bit and will take it back
(`AddTentatively`, `TakeBack`). `seen` and `tentative` are there for this alone. In `lock()` the compare-and-swap of line 915 is
part of `Claim`: a failed one changes nothing, and is repeated at once. What the contents decide is
nondeterministic: which of its two buckets an insertion writes to, whether it
must displace, along which buckets, and when it finds the table full.
`DoubleLocks`, `SwapBuckets` and `GrowBuckets` are the three moments of
`cuckoo_fast_double` at which another thread sees a different hashpower or array.

### CuckooTable and KeyValueMap

The variables carry the code's names. A hash is what `index_hash` and
`alt_index` see of it; two keys may share a hash. A call is a sequence of steps,
each all the thread does under one set of locks: the migration its locks need,
then the work. `Find`, `Update`, `Erase`, `Clear` take one. An insertion without
a free slot takes `Insert`, then `SearchBucket` per bucket searched, `FillPath`
per path element, `MoveElement` per displacement, `MoveLast` or `MoveNothing`,
which also insert, and starts again whenever a step finds another hashpower or
a stale path. `Double` is `cuckoo_fast_double`, at once in a table smaller than the lock
array and lazily in a larger one.

Asserts do not stop the program: the models follow an `NDEBUG` build (see
"Other observations"). `KeyValueMap` has the store, the call each thread is in and its
last result. The refinement mapping takes as store what both containers hold
together; calls and results map to themselves, so the run shows that each call
takes effect once, between its call and its return, with the result it
returned. That is linearizability. The exception is `size()`, which without the
locks reads one counter per step (`ReadCounter`, `ReturnSize`); `KeyValueMap`
allows it any result, and finding 3 says what it may be.

### PathCode

The item a search is at carries the way it came besides its code, and each
visited bucket is full or has its first empty slot anywhere, since other threads
change the buckets meanwhile. Unpacking is the loop of `cuckoopath_search`.

### LockedTable and LockedMap

`LockedTable` adds to `CuckooTable` an `owner`, who has all the locks for more than
one step, and whose every step the others must wait for (`PlainStep`), except
`size()`, which asks no lock (`SizeStep`). A resize takes `CompareHashpower` without a
lock, `ExpandSimple`, one `MigrateLock` per lock for whatever is lazily unmigrated, `EndMigration`, one
`SkipSlot` or `MoveOut` per slot of the old table, in the order of each worker, and `SwapBuckets`
or, when an insertion into the new table threw (`FailTransfer`), `RethrowTransfer`.
The new table is another `cuckoohash_map`, so to model its buckets would be to model
the module inside itself. It is seen through its hashpower and its elements: an insertion may succeed if
some placement of all elements exists, may grow the table (`GrowNewMap`) if some placement
leaves no free slot for it, and in the end any placement becomes the new contents.
That has more behaviours than the code, none fewer.

An iterator is a bucket and a slot; `ScanForward` and `ScanBackward` are the bodies of
its loops. `Save` and `Load` are `operator<<` and `operator>>`. What the caller
owes by the documentation (an iterator that is valid and not at the end, an element before
it to step back to) is in `MayCall`.

In `LockedMap` the owner has the keys of the map as a sequence and its iterator as an
index. The order is any when the session begins or the table is resized, and changes
only by what is erased. So the refinement says that an iteration meets every
element exactly once, also while it erases; that the constructor leaves nothing in
`old_buckets_`; that a rehash loses and doubles nothing; and that an insertion
interrupted by any of this goes on correctly with the snapshot, the path and the
position it remembers.

### Drivers

A program loads keys, alone (`LoadAlone`) or with threads, starts workers, which have
a share of the requests each (`Cut`, `Rounded`), and joins them. In the two programs with a timer a
worker looks at `stopMeasure` between rounds. `CH_HybridTest` has its keys from a distribution (`Generated`)
or, if there is one, from the `./testfile.dat` that any earlier run has written (`Reread`); it inserts keys of
its own in even rounds and erases them in odd ones; `NewKey` is the expression of
line 126. `Get` has the four ways the programs treat a missing key: `exit(-1)`, an
exception that ends the worker, a silent miss, and none.

## 3. Runs

Runs that pass:

| run | instance | shows |
|---|---|---|
| `spinlock` | 3 threads, unbounded calls | type, exclusion, `unlock()`'s guess, exact word, refinement of `RWLock`, a pending writer is admitted |
| `locks_growing` | 6 kinds of calls in all pairs and four triples, tables 1→2 and 2→4 buckets, 2 locks | exclusion, snapshots, migration before use, memory of `old_buckets_`, indexes in range, no cycle of waiting threads, each lock used as a `RWLock`, every operation returns unless two upgrades refuse each other for ever |
| `table` | 2 threads, 5 calls, 5 keys, one slot per bucket, 2 then 4 buckets (lazy), paths of 3, two of which can take the free slot from each other | contents and counters consistent at every step, refinement of `KeyValueMap`, a call returns unless another one displaces for ever |
| `table_pairs` | 2 threads, 4 calls, one of them `size()`, 4 keys of which two have the same hash, two slots, 1 then 2 buckets (at once) | refinement |
| `pathcode` | the constants of `CH_HybridTest`: 8 slots, paths of 5, 16 bits, which the codes fill to the last one | codes unpack to their path, the queue suffices, a failed search was complete |
| `locked` | 2 threads, 3 keys, one slot per bucket, 2 or 4 buckets, an insertion that displaces, `rehash`, `reserve`, locked tables, 1 or 2 extra workers | elements are where lookups find them, workers share nothing, refinement of `LockedMap`, what the owner of all locks begins ends |
| `iterate` | every sequence of calls of one locked table, 2 buckets of 2 slots, 3 keys, a stream | iterators stay in range, counters, refinement of `LockedMap` |
| `drivers` | 6 programs, 1 or 2 threads, 3 or 4 requests, up to 4 rounds, keys generated or from a file | when a request finds no key, keys of workers and rounds never meet, programs end |

Each property has a mutant, a changed definition listed in `PROJECT.json` that
makes TLC report that property violated.

Runs in which TLC shows the code to differ from what its comments or asserts
say (findings):

1. `spinlock_uninit`: the copy constructor of `spinlock` (886) leaves
   `write_unlock` uninitialised, and every lock in a table is made by it. With a
   leftover `true`, a reader that unlocks while the first writer waits releases
   the writer's bit and not its own share.
2. `locks_upgrade`: `try_upgrade` (1035) waits for the readers of the lower lock
   while it holds a share of the higher one. With a writer that has claimed the
   higher lock and a reader that holds the lower and wants the higher, three
   threads wait for ever, the order of the lock indexes notwithstanding.
3. `table_size`: `size()` (371) adds up the counters while they change. An insertion
   counted under a lock it has passed, then a displacement, and an erasure
   counted under a lock it has not, make the sum negative, against
   `assert(s >= 0)` (373); as an unsigned number it is nearly 2^64.
4. `locked_throw`: a resize to a smaller table inserts into a new table that
   has the default minimum load factor. When more keys agree in all low bits than their buckets have slots, that
   table must grow at a load under 1/20 and throws `load_factor_too_low`, which
   the documentation excludes for an explicit resize (397). What was moved is
   lost with the new table: values for which a move leaves something else (strings)
   stay behind emptied, and are still counted. So `cuckoo_expand_simple` does not have
   the strong exception guarantee that 1931-1934 relies on. For trivially copied values
   nothing is lost (`ImplementsLockedMap` holds with `MoveEmpties` false, where
   the transfer throws too).

`locks_growing` leaves out on purpose an upgrading insertion beside both a reader
and a writer of its locks (finding 2), two doublings and a table that shrinks (below),
because its properties do not hold there. One insertion beside two readers, and one
beside two writers, it has.

### Other observations

Met while modelling, reproduced on the models or by reading, and not kept as runs:

* Inside `cuckoo_fast_double`, `old_buckets_.swap(buckets_)` (1980) makes
  `hashpower()` that of `old_buckets_`, two doublings back, until the next line has assigned the new
  container. A thread with a snapshot of that value that waits under a lock of an
  array superseded meanwhile passes `check_hashpower`, so `SnapshotHolds` fails. This needs a lock array
  that has grown: a table constructed with fewer than `kMaxNumLocks` buckets.
* `rehash` to a larger and back to the former hashpower makes an old snapshot valid
  again while the lock array has moved on: `SnapshotHolds` fails, too. With a lock
  array that does not change the contents stay right (run `locked`).
* Two insertions of keys that share a lock can refuse each other's upgrade for ever: each loads the word with both
  shares in it, one gives its share back, the compare-and-swap of the other fails, both lock again, and so on.
  Nobody has claimed the lock meanwhile. The same goes for an insertion and a find that both find a lock unmigrated. The comment
  "other thread try migrating now" (1179, 1233, 1249) is not what a refusal means. `OperationsReturn` without its second
  half fails like this in `locks_growing`.
* Two insertions can displace for ever. In the table of `MCCuckooTable` with four buckets of one slot, all taken but one,
  one insertion moves two elements towards the free slot, the other one an element into the slot
  that was freed, which makes the path of the first stale, and back. Each new search finds the free slot
  where it is. `run_cuckoo` (1636) has no limit. `CallsReturn` without its second half fails like this in `table`.
* With asserts on, the first insertion that displaces an element reaches
  `assert(false)` (586), right after `cuckoo_insert` asserted the opposite (1540).
* A displacement moves an element under another lock and adjusts neither
  counter, so `elem_counter` is not "how many elements in the table are under this
  lock" (872). The sum is right (`SizeIsExact`).
* The `static_assert` (1820) asks for `slot_per_bucket()^MAX_BFS_PATH_LEN` codes,
  but a path from the second bucket begins with the digit 1 and needs twice as many.
  With `SLOT_PER_BUCKET` 9 the code compiles and codes wrap (up to 118097). Up to 8
  slots all codes fit.
* `rehash` returns true when a smaller table that did not fit grew back to the
  hashpower there was, although 741 says "true if the table changed size".
* The new table of a resize does not get `maximum_hashpower` (2135-2137), so a
  resize that has to grow may exceed it. `maximum_hashpower(n)` itself compares and
  stores in two steps (436, 440).
* `insert` and `operator[]` of `locked_table` do not compile: `cuckoopath_search`
  calls `lock_one` with a fourth argument, for which `locked_table_mode` has no overload.
* `ycsb.cpp` and `ycsb_char.cpp` divide the requests by the number of threads and
  drop the rest (133). With the traces of the repository and three threads the load
  phase leaves a key out, and the run phase of `ycsb.cpp` prints "key not found in
  table" and exits. `ExitsOnlyByRest` is what the run `drivers` shows of it.
* In `CH_HybridTest.cpp` the uniform distribution includes `key_range` itself
  (`tracer.h:143`), which thread 0 inserts and erases as well; a `find` of it then throws and
  ends a worker silently. If `./testfile.dat` is there, its keys are used (`tracer.h:134`), though they are of another
  range or another program: with any key from `key_range` on the same happens, and insertions and erasures fail as well
  (`AbortsOnlyBeyondRange`, `ModificationsSucceed`). When the threads insert more than `key_range` keys a
  round, the keys of rounds overlap, and modifications fail.
* `con_database` of `main.cpp` begins at an index that is not initialised (78). `measureWorker` and `insertWorker`
  of the `CH_` programs return no value from a function that must.

### Bounds, and why they are enough

* *Threads.* Three for one lock: an owner, a claimant and a reader, or an
  upgrader and two readers, cover every pair of transitions with a third party in
  between; the proofs then cover any number. Two in the table: a displacing
  insertion and one that disturbs it.
* *Locks* (`MaxNumLocks` = 2) and *buckets* (up to 4): keys with both buckets under
  one lock and under two exist, and tables with fewer and with more buckets than
  locks, which is what chooses between doubling at once and lazily.
* *Hashpowers*: one doubling each, after which a thread may hold a snapshot from
  before it. `MaxHp` is also `maximum_hashpower`, so the exception occurs.
* *Paths*: `MaxPathLen` = 3 gives paths that end, begin and have a middle; the
  real length is checked in `PathCode`. `ChainHash` is chosen such that a path of
  three elements exists, and another one that ends in the same free slot.
* *Path codes*: with eight slots, as in `CH_HybridTest`, the largest code is 65535, the last of 16 bits.
* `MaxHops` (`BucketLocks`) bounds the bucket locks one `run_cuckoo` takes before
  its last ones: 1, a search or a displacement.
* `MaxCalls` bounds the calls: five suffice to fill the table, expand it, and
  have two insertions disturb each other's paths.
* `CuckooTable` starts with an empty table: any contents it could start with
  come from such calls. `LockedTable` starts with a table constructed from a range,
  its elements in every placement.
* *Resizes.* `ExtraWorkers` {1, 2} with 2 locks and 2 or 4 buckets gives shares with and
  without a remainder, and workers without any work. `MaxHp` also bounds the new table
  of a resize, which in the code has no maximum. `NewMapLoad` is the reciprocal of the
  default minimum load factor, 20 in the code, in `iterate` and in `locked_throw`. In `locked`
  it is 1: there a new table that is not completely full counts as too empty to grow,
  so that the exception occurs with few keys; in `locked_throw` it takes 64 buckets.
* *Streams and moves.* At most one table is in the stream. `MoveEmpties` is false, as
  the stream requires trivial types, except in `locked_throw`.
* *Programs.* Two threads; `CH_HybridTest` with keys 0, `key_range` - 1 and `key_range`,
  the ends of the distribution, where `NewKey` may meet them, or with 0 and 5 from a file: 5 is
  beyond both ranges, 1 and 4, and among the keys of the workers; four rounds, two in which
  keys are inserted and two in which they are erased; `UpdateEvery` 4 and `EraseEvery` 2,
  so that updates, modifications and reads all occur; 3 requests that two threads cannot
  divide, 4 that they can. The requests of the run traces name only loaded keys, as
  in the traces of the repository.

### Fairness

Weak fairness for each thread (`ThreadStep` of `BucketLocks`, the steps inside an
operation of `SpinLock`): the operating system runs every thread that is in an operation.
Nothing is assumed of calls, which need not come, and no strong fairness of the
locks, which favour nobody.

A thread that has loaded the word need not find it unchanged, so an upgrade may be refused again and again.
In `BucketLocks` that is part of the model. `OperationsReturn` therefore says: all operations return, or upgrades
are refused infinitely often while another thread that upgrades is in an operation, too. Everything else that sends a thread
round a loop (stale snapshots, hashpower changes, waiting writers and readers) is shown to end, and so are refusals by a thread
that writes without an upgrade or has returned. In `CuckooTable` an upgrade is
inside a step. `FairSpec` asks nothing of a step that needs one (`NeedsUpgrade`: it meets a lock that is not migrated with a
share of it, or `uprase_fn` writes), and `CallsReturn` says that a call returns or arrives at such a step, or that another
thread displaces elements for ever. What remains is that a search, a path and an expansion end, whatever expansions, erasures
and single displacements of others do to them. Of the locks a step takes for writing `CuckooTable` supposes that they are granted:
`OperationsReturn` and `NoWaitCycle` of the module below are about that.

`PendingWriterAdmitted`, `OperationsReturn` and `CallsReturn` hold under that. The latter two speak of finitely many calls; the code
promises no more, since a thread can be overtaken again and again.
`FairLockedSpec` asks it of the owner's steps inside a call, of `size()` and of
the worker threads, not of the owner's calls: nobody need unlock a table, and those
who wait then wait for ever. `Drivers` asks it of the main thread, whose timer
runs out, and of each worker.

Deadlock is checked in every run. `BucketLocks`, `CuckooTable`, `LockedTable`, `PathCode` and `Drivers`
say by a stuttering disjunct of `Next` when all calls are done and no table is
locked, or the program has ended.

## 4. Proofs

Every theorem holds for all values of the constants that the assumptions of its module
allow: any number of threads, keys, slots, locks, buckets and calls. What else it needs is
in the column "if". All are about the same definitions that the runs check.

| module | theorem | shows | if |
|---|---|---|---|
| `SpinLockProofs` | `TypeCorrect`, `Exclusion`, `UnlockIsRight`, `WordIsExact` | `TypeOK`, `MutualExclusion`, `UnlockInfersMode`, `CountsExact` | `FlagStartsFalse` |
| | `Refinement` | `SpinLock` implements `RWLock` | `FlagStartsFalse` |
| `BucketLocksProofs` | `TypeCorrect`, `OldBucketsAreCounted` | `TypeOK`, `OldBucketsCounted` | |
| | `LocksUsedAsRWLocks` | every step uses each lock as `RWLock` allows (`UsedAsRWLocks`) | |
| | `CurrentArrayHolds` | for threads with locks of the current array: valid snapshots, exclusion, migration before use; locks asked for exist in any array | |
| | `SnapshotsHold`, `IndexesInRange`, `BucketsExclusive`, `BucketsMovedBeforeUse` | the same of every thread: `SnapshotHolds`, `LockInRange`, `BucketExclusion`, `MovedBeforeUse` | `SteadyArrays` |
| | `WaitCyclesUpgrade` | in every cycle of waiting threads an insertion upgrades the lower of two locks | |
| | `NoTwoWait` | no two threads wait for each other | `SteadyArrays` |
| | `NoDeadlockWithoutReaders` | `NoWaitCycle` | `NoReaderBeside` |
| | `NoDeadlock` | `NoWaitCycle` | `SteadyArrays`, `NoThreeKinds` |
| `PathCodeProofs` | `TypeCorrect`, `QueueNeverOverruns`, `FailedSearchesComplete` | `TypeOK`, `QueueSuffices`, `FailedSearchIsComplete` | |
| | `PathsUnpacked` | `PathIsUnpacked` | `CodesFit` |
| `CuckooTableProofs` | `TypeCorrect`, `NoKeyTwice`, `InPlace`, `NothingOverwritten`, `SizeExact`, `PathsFollowHashes` | `TypeOK`, `KeysUnique`, `ElementsInPlace`, `UnmovedBucketsEmpty`, `SizeIsExact`, `PathFollowsHashes` | |
| | `Refinement` | `CuckooTable` implements `KeyValueMap` | `MapCalls` |
| `LockedTableProofs` | `NothingShared` | `WorkersApart` | |
| | `LockedTypes`, `NoKeyTwiceLocked`, `InPlaceLocked`, `SizeExactLocked` | `LockedTypeOK`, `KeysUnique`, `ElementsInPlace`, `SizeIsExact` | `~MoveEmpties` |
| | `ResizeKeepsContent` | a resize that throws keeps the map (`StrongGuarantee`), and so does one that ends | `~MoveEmpties` |
| | `LockedRefinement` | `LockedTable` implements `LockedMap` (`ImplementsLockedMap`) | `~MoveEmpties` |
| `DriversProofs` | `ExitOnlyByRest`, `AbortOnlyBeyondRange`, `ModificationSucceeds` | `ExitsOnlyByRest`, `AbortsOnlyBeyondRange`, `ModificationsSucceed` | |
| `CuckooFacts` | `OtherBucket` | `alt_index` leads from each bucket of a key to the other | |
| | `Migration` | `rehash_lock` neither loses nor adds an element | |

The hypotheses are each one line of the code, and each is needed:

* `FlagStartsFalse`: `write_unlock` is false at first. The default constructor says so;
  finding 1 is that copies do not, and that without it the theorems fail.
* `SteadyArrays`: a table is constructed with at least `kMaxNumLocks` buckets, as the default
  constructor does (2^18 buckets, 2^16 locks), so that the array of locks never grows; or it can
  double only once, which may give it a second array, and no `rehash` changes its hashpower.
  For two doublings, and for a `rehash` there and back, "Other observations" has behaviours in which
  `SnapshotHolds` fails. What is left of the properties then is `CurrentArrayHolds`.
* `NoThreeKinds`: no workload has an insertion, a second thread that holds shares (`find`,
  `find_KV`, another insertion) and a third that takes locks for writing. With all three,
  finding 2 is a deadlock. `NoReaderBeside` leaves out the second.
* `CodesFit`: twice `slot_per_bucket()^MAX_BFS_PATH_LEN` codes fit their width. The `static_assert`
  asks for half of that, and codes do wrap between the two (see "Other observations").
* `MapCalls`: the calls are those of `KeyValueMap`. (`CuckooTable` leaves room for those of
  `LockedTable`.)
* `~MoveEmpties`: an element that is moved from stays what it was, as with trivial
  types. Finding 4 is that otherwise a transfer that throws loses elements.

### The inductive invariants

*`SpinLock`: `IInv`.* Mutual exclusion alone is not inductive. A writer is let in because a *copy* of
the word showed no readers, an arbitrary time after it was read, so the
invariant must say what that copy still means: `DrainSound`, once a
claimant has seen no shares no other thread reads. To keep that, the word must
mean what it says, `CountsExact`: it is twice the number of counted readers, the
tentative ones included, plus the owner's bit, and there is at most one owner.
`unlock()` goes by the flag, hence `FlagExact`: it is set exactly while a writer
is between the two stores. `HeldFitsPlace` ties the history variable to the
program counter. The proof has one lemma for each way a step can change the
word (not at all, the bit in, a share in, a share out, the bit out) and
`StepIInv` puts them together.

*`BucketLocks`: `IInv`, `CInv` and `SInv`.* What a thread has of every lock of every array follows from
where it is (`ModeFits`; a share that will be taken back is one of a thread that asks for the lock, `TypeOK`), and the locks it wants exist in the array it has read, although it
read the hashpower before (`NeedsFit`). For this a lock array must always have as many locks as the
hashpower asks for (`ArraysFit`), also between the steps of `cuckoo_fast_double`.
`Compatible` is the rule of reader/writer locks; `Counted` says what the number of unmigrated locks, the
unmoved buckets and the memory of the old ones say of each other. `CInv` adds, of a thread that takes its
locks from the current array, that the snapshot is the current hashpower once it is checked
(`Snap`), and that a lock is migrated when its bucket is used (`Mig`). From a snapshot that holds it
follows that two threads that use a bucket have the same lock, hence the exclusion. That the array
*is* the current one (`Latest`) needs `SteadyArrays`. `SInv` then has either the one array of the
constructor (`Full`) or the three stages of the one doubling (`Before`, `During`, `After`). While
it goes on, whoever doubles has every lock of the first array, and afterwards the check of the hashpower
refuses each thread that still waits there.

*Deadlock: `Ordered` and `Unmoved`.* `Ordered` says that a thread has or has had only locks below those it
still needs. Of the locks that the threads of a cycle wait for, take the highest, arrays first:
whoever has it waits for no lock above it, hence for the same one, and by the modes of the lock that
is impossible. Only an insertion in `try_upgrade` waits for a lock below one it has, so it is in every
cycle (`WaitCyclesUpgrade`). It waits for a thread with a share. That one is another insertion or a find,
which gives `NoDeadlockWithoutReaders`. Two threads alone are no cycle
(`NoTwoWait`): a find waits for shares only when it migrates a lock, and what it migrates is not
migrated yet (`Unmoved`), while an insertion that upgrades has migrated all its locks. The same keeps
any number of finds from closing a cycle with one insertion (`AmongFinds`), hence `NoDeadlock`.

*`PathCode`: `CountInv` and `WayInv`.* The queue is one level of the tree of paths followed by the part of the
next level that was opened, whose length is a sum of powers (`LevelFits`). `WayInv` gives each item the
codes of the prefixes of its way: each code is less than twice a power of the slots, so
that nothing wraps, and a quotient and a remainder undo the packing.

*`CuckooTable`: `TInv`.* `Good` says of a table with what is left of the old one that all elements are in a bucket of their
key, the old ones under a lock not yet migrated and at the hashpower before, that nothing
is in a bucket to which they may still move, and that no key is there twice.
`Counts` is that the counters of the locks add up to the keys that have a value. Neither
is kept without the local variables: `LocalOK` has what a thread remembers across critical
sections, and says of a path only what nobody can change, that it follows hashes.
Everything else about a path is stale and so the code must look again; the proof shows that
what it looks at suffices. `Represents` ties a table to a map, and for every step of
the code there is a lemma how it changes the map that is represented: nothing by `Migration`, a
displacement and an expansion, one value by `Insert`, `Update` and `Erase`. `Refinement` follows from these.

*`LockedTable`: `TableInv`* is `CInv`, `TInv` and `Data`. `CInv` is control: who has the locks, which call he is in,
and that the shares of the workers follow each other (`InOrder`). It is proved alone,
without any hypothesis, and gives `WorkersApart`. `Data` says that each lock not yet migrated and each element not yet moved is
left to some worker (`JobData`), so that nothing is when all are joined; that a valid iterator is at
an element, at the end, or where one has just been erased, and that one that scans backwards
has an element before it, so that the loop of `operator--` ends inside the table (`SessionOK`); and that a stream holds a consistent
table with its size (`FileOK`). The constructor of a `locked_table` and a resize leave nothing
late (`Settled`), which the iterators rely on.

`ViewInv`, for `LockedRefinement`, is `TableInv` and `Walks`: an iterator that scans has passed no
element since it left its place (`Walking`), so that it will reach the next one of the list or the one before; and
`size()` of the owner has added up what the counters it has read hold (`Summing`). The list of `LockedMap` is the
taken places in the order of the scan. Places are ordered (`Before`), `Ordinal` numbers those
that are taken from 1 without gaps (`OrdinalFacts`), so the list names each key once (`OrderOnce`), and erasing
one removes it from the list and moves the cursor as `LockedMap` says (`OrderWithout`, `CursorWithout`).

*`Drivers`: `DInv`.* A worker stays in its share, what the loaders have passed is in the table, and a
worker of `CH_HybridTest` has in the table exactly the keys of its round that its counter says, of the rounds before none
(`Modifying`). That the keys of different threads and rounds differ (`Fresh`) is arithmetic.

`IInv` of `SpinLock` and of `BucketLocks`, `CInv` of `BucketLocks` and of `LockedTable`, `Latest`, `Ordered`,
`Unmoved`, `Data` and `Walks` were checked by TLC on the instances of the runs before they were proved; the
others quantify over infinite sets. `CInv` and `Ordered`, which have no hypothesis, were checked on tables
that double twice and on calls of `rehash` there and back, too.

### How the proofs go

A module's invariant is proved by a lemma per action, which are put together
at `Next`; the theorems then follow from the invariant alone.
Several proofs rest on facts that an induction would give, and the provers cannot use the
library's induction, which takes an operator as parameter. They take the least counterexample instead: the set of
numbers at which a fact fails has a least element (`LeastElement`), the fact holds one
before, and so it holds there. A sum of counters (`Sum` of `CuckooFacts`) is treated like this in the size of the
set. `alt_index` is an involution by its `Xor`, which is shown to exist bit by bit.

Checked by TLC only:

* liveness (`PendingWriterAdmitted`, `OperationsReturn`, `CallsReturn`, `LockedCallsReturn`,
  `ProgramsEnd`), which the prover does not reach;
* the findings, which are counterexamples.

## 5. Not modelled

* Weak memory orders: the models are sequentially consistent. `hashpower_` and the
  migration count use acquire and release, the changes of the lock word are full
  barriers; plain volatile loads of the word and stores of the flag are ordered
  as on x86. Formally the flag, and the list of lock arrays that is read while
  another thread appends to it, are data races.
* `try_lock` and the queries of `spinlock` that only asserts use.
* `insert` and `operator[]` of `locked_table`, which do not compile; moving a
  `locked_table`, comparing two, `equal_range`.
* Copying, moving and swapping whole tables; allocators. (`swap` of the map exits the
  program, copying a table whose `old_buckets_` was freed reads through a null
  pointer.)
* Exceptions thrown by keys, values or allocation, and the expansion of tables whose elements
  cannot be moved without exceptions, which calls `cuckoo_expand_simple` from an insertion.
* Settings changed while insertions run.
* Clocks, statistics, output and command lines of the programs; parsing of traces; the
  shape of the Zipf distribution; branches of their code that the build leaves out. `cpptest.cpp` has nothing
  to do with the table.

## 6. Plan

Done, in this order: `RWLock`, `SpinLock` and its proofs; `BucketLocks`;
`KeyValueMap`, `CuckooTable`; `PathCode`; `size()` without locks; `LockedMap`,
`LockedTable`; `Drivers`; the locks of `BucketLocks` as instances of `RWLock`; the
proofs about `BucketLocks`, `PathCode`, `CuckooTable` with its refinement, `Drivers`,
the invariants of `LockedTable` and its refinement of `LockedMap`; tables whose lock array
grows, and which calls can deadlock.

Next: **settings**, a maximum hashpower that changes, its check and its store apart.

## 7. Running

    tlc -workers 2 -config table.cfg MCCuckooTable
    tlapm SpinLockProofs.tla

and so for the other modules of section 4, each of which tlapm checks in less than ten minutes,
except `LockedTableProofs`, which takes a quarter of an hour.

The largest run, `drivers`, has 700,801 states and takes a minute; the longest, `locks_growing` with 561,561,
`table` with 136,428, and `locked` and `iterate` with 200,000 each, take two or three, for their refinement
and liveness.
