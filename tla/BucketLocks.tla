---------------------------- MODULE BucketLocks ----------------------------
(***************************************************************************)
(* How the operations of cuckoohash_map take the striped locks, move from  *)
(* one array of locks to the next and from one bucket array to the next:   *)
(* snapshot_and_lock_two, lock_one, lock_two, lock_three, lock_all,        *)
(* TwoBuckets::try_upgrade, rehash_lock, cuckoo_fast_double,               *)
(* cuckoo_expand_simple and cuckoo_clear.                                  *)
(*                                                                         *)
(* A lock is the reader/writer lock of RWLock.tla.  hashpower() and the    *)
(* list of lock arrays are read without a lock, in steps of their own.     *)
(* What the buckets hold is abstracted: whether a key is found, whether a  *)
(* bucket is full, where a cuckoo path leads is any of what it can be.     *)
(* CuckooTable.tla is about the contents.                                  *)
(***************************************************************************)
EXTENDS Integers, Sequences, FiniteSets

CONSTANTS
  Threads,
  Keys,
  Hash1, Hash2,     \* the two buckets of a key in a table of 2^MaxHp buckets
  MaxNumLocks,      \* kMaxNumLocks
  MaxHp,            \* bound: the largest hashpower of the model
  Tables,           \* pairs: the hashpower a table begins with and its maximum
  MaxHops,          \* bound: locks one run_cuckoo takes before its last ones
  Workloads         \* what the threads call: a set of functions on Threads

\* kMaxNumLocks is a power of two: it divides every larger one.
ASSUME LocksAssumption ==
  /\ MaxNumLocks \in Nat \ {0}
  /\ \A p \in 0 .. MaxHp : 2 ^ p >= MaxNumLocks => 2 ^ p % MaxNumLocks = 0
ASSUME PowersAssumption == MaxHp \in Nat /\ Tables \subseteq (0 .. MaxHp) \X (0 .. MaxHp)
\* The law of exponents, of which the provers know nothing.
ASSUME ExponentAssumption == \A p \in 0 .. MaxHp : 2 ^ (p + 1) = 2 * 2 ^ p
ASSUME HashAssumption ==
  Hash1 \in [Keys -> 0 .. 2 ^ MaxHp - 1] /\ Hash2 \in [Keys -> 0 .. 2 ^ MaxHp - 1]

Jobs ==
  {"find", "write", "upsert"} \X Keys
    \cup {"rehash"} \X (0 .. MaxHp) \cup {<<"clear", 0>>, <<"none", 0>>}

ASSUME WorkAssumption == Workloads \subseteq [Threads -> Jobs]

ASSUME ThreadsAssumption == IsFiniteSet(Threads)

VARIABLES
  maxHp,       \* maximum_hashpower_
  hp,          \* hashpower of buckets_
  oldHp,       \* hashpower of old_buckets_
  oldAlloc,    \* whether old_buckets_ has memory
  unmoved,     \* the buckets of old_buckets_ that still hold their data
  remaining,   \* num_remaining_lazy_rehash_locks_
  arrays,      \* all_locks_: the sizes of the arrays of locks, oldest first
  mode,        \* what each thread has of each lock, as in RWLock
  migrated,    \* is_migrated of each lock
  pc,
  my,          \* the local variables of each thread
  seen,        \* v of try_upgradeLock(): the shares in the word as loaded
  tentative    \* the readers that have added a share over the bit of a writer

tableVars == <<maxHp, hp, oldHp, oldAlloc, unmoved, remaining>>
lockVars  == <<arrays, mode, migrated>>
vars == <<maxHp, hp, oldHp, oldAlloc, unmoved, remaining, arrays, mode, migrated, pc, my,
          seen, tentative>>

MinOf(a, b) == IF a < b THEN a ELSE b
HashSize(p) == 2 ^ p
LockInd(b)  == b % MaxNumLocks
LockCount(p) == MinOf(HashSize(p), MaxNumLocks)

\* The lock of index l in the array of number a.
LockIds == (1 .. MaxHp + 1) \X (0 .. MaxNumLocks - 1)
Current == Len(arrays)
ArrayLocks(a) == {<<a, l>> : l \in 0 .. arrays[a] - 1}

\* index_hash and alt_index: both keep the low bits of the hash, so that each
\* doubling adds one bit at the top.
Buckets(k, p) == {Hash1[k] % HashSize(p), Hash2[k] % HashSize(p)}

Job(t) == my[t].job[1]
Key(t) == my[t].job[2]
Own(t) == Buckets(Key(t), my[t].hp)

-----------------------------------------------------------------------------
(* The lock, as RWLock.tla specifies it.                                   *)

Unclaimed(x) == \A u \in Threads : mode[x][u] \notin {"claim", "upgrade", "write"}
NoReader(x)  == \A u \in Threads : mode[x][u] # "read"
Becomes(x, t, m) == mode' = [mode EXCEPT ![x][t] = m]
Has(t) == {x \in LockIds : mode[x][t] # "none"}

\* Mutant: the overloads for readers take the later index first.
WantedReadersDown(t) ==
  <<my[t].array, CHOOSE l \in my[t].todo : \A m \in my[t].todo :
                   IF my[t].kind = "read" THEN m <= l ELSE l <= m>>

\* The lock a thread asks for next: the lowest index it still needs.
Wanted(t) == <<my[t].array, CHOOSE l \in my[t].todo : \A m \in my[t].todo : l <= m>>

\* The word of a lock counts the shares that are held and those that will be
\* taken back, not whose they are.
NotLoaded == -1
Shares(x) ==
  Cardinality({u \in Threads : mode[x][u] = "read"} \cup {u \in tentative : Wanted(u) = x})

Goto(t, to) == pc' = [pc EXCEPT ![t] = to]
Set(t, new) == my' = [my EXCEPT ![t] = new]

\* The thread has all it wanted of a lock: on to the next index, or done.
Advance(t) ==
  LET left == my[t].todo \ {Wanted(t)[2]}
  IN  /\ Set(t, [my[t] EXCEPT !.todo = left])
      /\ Goto(t, IF left # {} THEN "lock"
                 ELSE IF my[t].goal # "all" /\ my[t].kind = "write" THEN "migrate"
                 ELSE "hold")

\* Leaves the critical section: release everything, then go on at "to".
Leave(t, to) ==
  /\ Goto(t, "release")
  /\ Set(t, [my[t] EXCEPT !.then = to])

\* Mutant: without "if (lock.is_migrated()) return".
RehashLocksAgain(inds) ==
  /\ unmoved' = {b \in unmoved : LockInd(b) \notin inds}
  /\ remaining' = remaining - Cardinality(inds)
  /\ oldAlloc' = (oldAlloc /\ remaining' # 0)
  /\ migrated' = [x \in LockIds |-> migrated[x] \/ (x[1] = Current /\ x[2] \in inds)]

\* rehash_lock<kIsLazy> for a set of lock indexes of the current array: moves
\* the old buckets under them; whoever brings the count to 0 frees the memory.
RehashLocks(inds) ==
  LET late == {l \in inds : ~migrated[<<Current, l>>]}
  IN  /\ unmoved' = {b \in unmoved : LockInd(b) \notin late}
      /\ remaining' = remaining - Cardinality(late)
      /\ oldAlloc' = (oldAlloc /\ ~(late # {} /\ remaining' = 0))
      /\ migrated' = [x \in LockIds |-> migrated[x] \/ (x[1] = Current /\ x[2] \in late)]

-----------------------------------------------------------------------------
\* find and find_KV lock for reading, find_fn, update_fn and erase_fn for
\* writing; uprase_fn begins with reading locks; clear and rehash take all.
Fresh(job) ==
  [job |-> job, hp |-> 0, array |-> 1, todo |-> {}, uses |-> {}, target |-> 0,
   hops |-> 0, then |-> "done",
   goal |-> IF job[1] \in {"rehash", "clear"} THEN "all" ELSE "op",
   kind |-> IF job[1] \in {"find", "upsert"} THEN "read" ELSE "write"]

Entry(job) ==
  CASE job[1] \in {"find", "write", "upsert"} -> "snapshot"
    [] job[1] = "rehash" -> "compare"
    [] job[1] = "clear" -> "array"
    [] job[1] = "none" -> "done"

Init ==
  /\ \E size \in Tables : hp = size[1] /\ maxHp = size[2]
  /\ oldHp = 0 /\ oldAlloc = TRUE
  /\ unmoved = {} /\ remaining = 0
  /\ arrays = <<LockCount(hp)>>
  /\ mode = [x \in LockIds |-> [t \in Threads |-> "none"]]
  /\ migrated = [x \in LockIds |-> TRUE]
  /\ \E w \in Workloads : /\ my = [t \in Threads |-> Fresh(w[t])]
                          /\ pc = [t \in Threads |-> Entry(w[t])]
  /\ seen = [t \in Threads |-> NotLoaded]
  /\ tentative = {}

\* cuckoo_rehash looks at the hashpower before it takes any lock.
CompareHashpower(t) ==
  /\ pc[t] = "compare"
  /\ Goto(t, IF my[t].job[2] = hp THEN "done" ELSE "array")
  /\ UNCHANGED <<tableVars, lockVars, my>>

\* snapshot_and_lock_two, first read: the hashpower, and from it the buckets.
ReadHashpower(t) ==
  /\ pc[t] = "snapshot"
  /\ Set(t, [Fresh(my[t].job) EXCEPT !.hp = hp, !.uses = Buckets(Key(t), hp)])
  /\ Goto(t, "array")
  /\ UNCHANGED <<tableVars, lockVars>>

\* lock_one, lock_two, lock_three and lock_all, first read: the locks.
ReadArray(t) ==
  /\ pc[t] = "array"
  /\ Set(t, [my[t] EXCEPT
       !.array = Current,
       !.todo = IF my[t].goal = "all" THEN 0 .. arrays[Current] - 1
                ELSE {LockInd(b) : b \in my[t].uses}])
  /\ Goto(t, "lock")
  /\ UNCHANGED <<tableVars, lockVars>>

\* spinlock::lock(): claim, then wait for the readers to leave.
Claim(t) ==
  /\ pc[t] = "lock" /\ my[t].kind = "write"
  /\ Unclaimed(Wanted(t))
  /\ Becomes(Wanted(t), t, "claim")
  /\ Goto(t, "enter")
  /\ UNCHANGED <<tableVars, arrays, migrated, my>>

\* The hashpower is compared once, after the first lock of the lowest index.
HasNone(t) == \A x \in Has(t) : x = Wanted(t)

Enter(t) ==
  /\ pc[t] = "enter"
  /\ NoReader(Wanted(t))
  /\ Becomes(Wanted(t), t, "write")
  /\ IF my[t].goal # "all" /\ HasNone(t)
       THEN Goto(t, "check") /\ UNCHANGED my
       ELSE Advance(t)
  /\ UNCHANGED <<tableVars, arrays, migrated>>

\* lock_all moves on to the arrays that were appended while it waited.
NextArray(t) ==
  /\ pc[t] = "hold" /\ my[t].goal = "all" /\ my[t].array < Current
  /\ Set(t, [my[t] EXCEPT !.array = @ + 1, !.todo = 0 .. arrays[my[t].array + 1] - 1])
  /\ Goto(t, "lock")
  /\ UNCHANGED <<tableVars, lockVars>>

\* Mutant: readers leave the migration to the writers.
AfterShareUnmoved(t) == Advance(t)

\* is_migrated is read, and written, under the lock alone.
AfterShare(t) ==
  IF migrated[Wanted(t)] THEN Advance(t) ELSE Goto(t, "upgrade") /\ UNCHANGED my

\* spinlock::lock(bool), when the word it adds 2 to has no writer's bit.
Share(t) ==
  /\ pc[t] = "lock" /\ my[t].kind = "read" /\ t \notin tentative
  /\ Unclaimed(Wanted(t))
  /\ Becomes(Wanted(t), t, "read")
  /\ IF HasNone(t) THEN Goto(t, "check") /\ UNCHANGED my ELSE AfterShare(t)
  /\ UNCHANGED <<tableVars, arrays, migrated>>

\* Mutant: the hashpower is not compared again once the lock is taken.
CheckHashpowerTrusted(t) ==
  /\ pc[t] = "check"
  /\ IF my[t].kind = "write" THEN Advance(t) ELSE AfterShare(t)
  /\ UNCHANGED <<tableVars, arrays, mode, migrated>>

\* check_hashpower.  hashpower_changed sends snapshot_and_lock_two round its
\* loop; from a cuckoo path it is failure_under_expansion, which ends there too.
CheckHashpower(t) ==
  /\ pc[t] = "check"
  /\ \/ /\ hp = my[t].hp
        /\ IF my[t].kind = "write" THEN Advance(t) ELSE AfterShare(t)
        /\ UNCHANGED mode
     \/ /\ hp # my[t].hp
        /\ Becomes(Wanted(t), t, "none")
        /\ Goto(t, "snapshot")
        /\ UNCHANGED my
  /\ UNCHANGED <<tableVars, arrays, migrated>>

\* The compare-and-swap of try_upgradeLock() fails when the bit is set, and also
\* when the shares are not as many as there were when the word was loaded.
Changed(t, x) == seen[t] # NotLoaded /\ ~(Unclaimed(x) /\ seen[t] = Shares(x))

\* A reader that finds the lock unmigrated upgrades, migrates and degrades, or
\* is refused, lets go and locks again.
UpgradeToMigrate(t) ==
  /\ pc[t] = "upgrade"
  /\ \/ /\ Unclaimed(Wanted(t)) /\ seen[t] = Shares(Wanted(t))
        /\ Becomes(Wanted(t), t, "upgrade")
        /\ Goto(t, "upgraded")
     \/ /\ Changed(t, Wanted(t))
        /\ Becomes(Wanted(t), t, "none")
        /\ Goto(t, "lock")
  /\ UNCHANGED <<tableVars, arrays, migrated, my>>

\* Mutant: does not wait for the readers.
EnterToMigrateAtOnce(t) ==
  /\ pc[t] = "upgraded"
  /\ Becomes(Wanted(t), t, "write")
  /\ Goto(t, "migrating")
  /\ UNCHANGED <<tableVars, arrays, migrated, my>>

EnterToMigrate(t) ==
  /\ pc[t] = "upgraded"
  /\ NoReader(Wanted(t))
  /\ Becomes(Wanted(t), t, "write")
  /\ Goto(t, "migrating")
  /\ UNCHANGED <<tableVars, arrays, migrated, my>>

MigrateAsReader(t) ==
  /\ pc[t] = "migrating"
  /\ RehashLocks({Wanted(t)[2]})
  /\ Becomes(Wanted(t), t, "read")      \* degradeLock
  /\ Advance(t)
  /\ UNCHANGED <<maxHp, hp, oldHp, arrays>>

\* A writer migrates once it has all its locks.
MigrateAsWriter(t) ==
  /\ pc[t] = "migrate"
  /\ RehashLocks({LockInd(b) : b \in my[t].uses})
  /\ Goto(t, "hold")
  /\ UNCHANGED <<maxHp, hp, oldHp, arrays, mode, my>>

\* The order in which locks are given back: TwoBuckets::unlock(), which only
\* run_cuckoo calls for two locks, and AllUnlocker go upwards, destructors
\* downwards; the extra lock of lock_three goes by itself.
Below(x, y) == x[1] < y[1] \/ (x[1] = y[1] /\ x[2] < y[2])
ReleasedNext(t) ==
  {x \in Has(t) :
     \/ my[t].goal = "last"
     \/ IF my[t].goal = "all" \/ (my[t].goal = "op" /\ my[t].then = "cuckoo")
          THEN \A y \in Has(t) : ~Below(y, x)
          ELSE \A y \in Has(t) : ~Below(x, y)}

Release(t) ==
  /\ pc[t] = "release"
  /\ \E x \in ReleasedNext(t) :
       /\ Becomes(x, t, "none")
       /\ IF Has(t) = {x}
            THEN /\ Goto(t, my[t].then)
                 /\ IF my[t].then = "done" THEN Set(t, Fresh(my[t].job)) ELSE UNCHANGED my
            ELSE UNCHANGED <<pc, my>>
  /\ UNCHANGED <<tableVars, arrays, migrated>>

-----------------------------------------------------------------------------
(* The critical sections of an operation on one key.                       *)

FinishOperation(t) ==
  /\ pc[t] = "hold" /\ my[t].goal = "op" /\ Job(t) \in {"find", "write"}
  /\ Leave(t, "done")
  /\ UNCHANGED <<tableVars, lockVars>>

\* uprase_fn has found the key, or a free slot, in one of its two buckets and
\* needs to write there: TwoBuckets::try_upgrade.
ChooseTarget(t) ==
  /\ pc[t] = "hold" /\ my[t].goal = "op" /\ Job(t) = "upsert"
  /\ \E b \in Own(t) : Set(t, [my[t] EXCEPT !.target = b])
  /\ Goto(t, "up1")
  /\ UNCHANGED <<tableVars, lockVars>>

LowLock(t)  == <<my[t].array, CHOOSE l \in {LockInd(b) : b \in Own(t)} :
                                \A b \in Own(t) : l <= LockInd(b)>>
HighLock(t) == <<my[t].array, CHOOSE l \in {LockInd(b) : b \in Own(t)} :
                                \A b \in Own(t) : l >= LockInd(b)>>

\* Mutant: a refused upgrade is tried again without giving the shares back.
TryUpgradeStubborn(t, at, entered, lock, next) ==
  /\ pc[t] \in {at, entered}
  /\ \/ /\ pc[t] = at /\ Unclaimed(lock) /\ seen[t] = Shares(lock)
        /\ Becomes(lock, t, "upgrade")
        /\ Goto(t, entered)
     \/ /\ pc[t] = at /\ Changed(t, lock)
        /\ UNCHANGED <<mode, pc>>
     \/ /\ pc[t] = entered /\ NoReader(lock)
        /\ Becomes(lock, t, "write")
        /\ Goto(t, next)
  /\ UNCHANGED <<tableVars, arrays, migrated, my>>

\* One try_upgradeLock: claim and wait for the readers, or be refused, after
\* which uprase_fn lets both locks go and starts over.
TryUpgrade(t, at, entered, lock, next) ==
  /\ pc[t] \in {at, entered}
  /\ \/ /\ pc[t] = at /\ Unclaimed(lock) /\ seen[t] = Shares(lock)
        /\ Becomes(lock, t, "upgrade")
        /\ Goto(t, entered)
        /\ UNCHANGED my
     \/ /\ pc[t] = at /\ Changed(t, lock)
        /\ Leave(t, "snapshot")
        /\ UNCHANGED mode
     \/ /\ pc[t] = entered /\ NoReader(lock)
        /\ Becomes(lock, t, "write")
        /\ Goto(t, next)
        /\ UNCHANGED my
  /\ UNCHANGED <<tableVars, arrays, migrated>>

\* Mutant: the slot is under the other lock, and only the first is upgraded.
UpgradeLowOnly(t) == TryUpgrade(t, "up1", "up1_wait", LowLock(t), "writing")

\* The lock of the lower index is upgraded always, the other one as well when
\* the slot is under it.
UpgradeLow(t) ==
  TryUpgrade(t, "up1", "up1_wait", LowLock(t),
             IF LockInd(my[t].target) = LowLock(t)[2] THEN "writing" ELSE "up2")

UpgradeHigh(t) == TryUpgrade(t, "up2", "up2_wait", HighLock(t), "writing")

FinishWriting(t) ==
  /\ pc[t] = "writing"
  /\ Leave(t, "done")
  /\ UNCHANGED <<tableVars, lockVars>>

\* Both buckets are full: run_cuckoo lets the locks go.
RunCuckoo(t) ==
  /\ pc[t] = "hold" /\ my[t].goal = "op" /\ Job(t) = "upsert"
  /\ Goto(t, "release")
  /\ Set(t, [my[t] EXCEPT !.then = "cuckoo", !.hops = 0])
  /\ UNCHANGED <<tableVars, lockVars>>

\* cuckoopath_search looks into one bucket at a time, cuckoopath_move locks the
\* two buckets of a displacement, the last one together with the two buckets
\* of the key.  The order of these calls depends on the contents.
AskFor(t, goal, kind, buckets) ==
  /\ pc[t] = "cuckoo"
  /\ Set(t, [my[t] EXCEPT !.goal = goal, !.kind = kind, !.uses = buckets,
                          !.hops = @ + 1])
  /\ Goto(t, "array")
  /\ UNCHANGED <<tableVars, lockVars>>

AllBuckets(t) == 0 .. HashSize(my[t].hp) - 1

SearchBucket(t) ==
  /\ my[t].hops < MaxHops
  /\ \E b \in AllBuckets(t) : AskFor(t, "path", "read", {b})

Displace(t) ==
  /\ my[t].hops < MaxHops
  /\ \E from, to \in AllBuckets(t) : AskFor(t, "path", "write", {from, to})

DisplaceLast(t) ==
  \/ AskFor(t, "last", "write", Own(t))
  \/ \E to \in AllBuckets(t) : AskFor(t, "last", "write", Own(t) \cup {to})

\* No path: failure_table_full, cuckoo_fast_double.
TableFull(t) == AskFor(t, "all", "write", {})

LeavePath(t) ==
  /\ pc[t] = "hold" /\ my[t].goal = "path"
  /\ Leave(t, "cuckoo")
  /\ UNCHANGED <<tableVars, lockVars>>

\* The last displacement worked and the key is stored, or the path was stale.
LeaveLast(t) ==
  /\ pc[t] = "hold" /\ my[t].goal = "last"
  /\ \E to \in {"done"} \cup (IF my[t].hops < MaxHops THEN {"cuckoo"} ELSE {}) : Leave(t, to)
  /\ UNCHANGED <<tableVars, lockVars>>

-----------------------------------------------------------------------------
(* With all the locks.                                                     *)

OwnsTable(t) == pc[t] = "hold" /\ my[t].goal = "all" /\ my[t].array = Current

\* check_resize_validity: the exceptions maximum_hashpower_exceeded and, for an
\* automatic expansion, load_factor_too_low leave the operation; a hashpower
\* that has changed sends uprase_fn back to its snapshot.
ResizeRejected(t) ==
  /\ OwnsTable(t)
  /\ \/ /\ Job(t) = "rehash" /\ my[t].job[2] > maxHp
        /\ Leave(t, "done")
     \/ /\ Job(t) = "upsert"
        /\ Leave(t, "done")
     \/ /\ Job(t) = "upsert" /\ my[t].hp + 1 <= maxHp /\ hp # my[t].hp
        /\ Leave(t, "snapshot")
  /\ UNCHANGED <<tableVars, lockVars>>

\* Mutant: leaves the count as it was.
FinishRehashUncounted ==
  /\ unmoved' = {}
  /\ oldAlloc' = FALSE
  /\ migrated' = [x \in LockIds |-> migrated[x] \/ x[1] = Current]
  /\ UNCHANGED remaining

\* num_remaining_lazy_rehash_locks(0) after rehash_lock<kIsNotLazy> on all.
FinishRehash ==
  /\ unmoved' = {}
  /\ remaining' = 0
  /\ oldAlloc' = FALSE
  /\ migrated' = [x \in LockIds |-> migrated[x] \/ x[1] = Current]

\* Mutant: makes room for the buckets there were, not those to come.
AppendLocksLate(t, p) ==
  IF arrays[Current] < LockCount(p - 1)
  THEN /\ arrays' = Append(arrays, LockCount(p - 1))
       /\ mode' = [x \in LockIds |->
                     IF x[1] = Current + 1 /\ x[2] < LockCount(p - 1)
                     THEN [mode[x] EXCEPT ![t] = "write"] ELSE mode[x]]
  ELSE UNCHANGED <<arrays, mode>>

\* maybe_resize_locks: the new array is published with all its locks taken.
AppendLocks(t, p) ==
  IF arrays[Current] < LockCount(p)
  THEN /\ arrays' = Append(arrays, LockCount(p))
       /\ mode' = [x \in LockIds |->
                     IF x[1] = Current + 1 /\ x[2] < LockCount(p)
                     THEN [mode[x] EXCEPT ![t] = "write"] ELSE mode[x]]
  ELSE UNCHANGED <<arrays, mode>>

DoubleLocks(t) ==
  /\ OwnsTable(t) /\ Job(t) = "upsert"
  /\ my[t].hp + 1 <= maxHp /\ hp = my[t].hp
  /\ FinishRehash
  /\ AppendLocks(t, hp + 1)
  /\ Goto(t, "swap")
  /\ UNCHANGED <<maxHp, hp, oldHp, my>>

\* old_buckets_.swap(buckets_): for a moment hashpower() is the old one.
SwapBuckets(t) ==
  /\ pc[t] = "swap"
  /\ hp' = oldHp /\ oldHp' = hp
  /\ oldAlloc' = TRUE
  /\ Goto(t, "grow")
  /\ UNCHANGED <<maxHp, unmoved, remaining, lockVars, my>>

\* A small table is moved at once, a large one as its locks are taken.
GrowBuckets(t) ==
  /\ pc[t] = "grow"
  /\ hp' = oldHp + 1
  /\ IF HashSize(oldHp) < MaxNumLocks
     THEN /\ oldAlloc' = FALSE
          /\ UNCHANGED <<unmoved, remaining, migrated>>
     ELSE /\ unmoved' = 0 .. HashSize(oldHp) - 1
          /\ remaining' = arrays[Current]
          /\ migrated' = [x \in LockIds |-> migrated[x] /\ x[1] # Current]
          /\ UNCHANGED oldAlloc
  /\ Leave(t, "snapshot")
  /\ UNCHANGED <<maxHp, oldHp, arrays, mode>>

\* rehash(n): the elements go through a new table of hashpower n, which grows
\* if they do not fit, and its buckets replace the present ones.
RehashLocksStep(t) ==
  /\ OwnsTable(t) /\ Job(t) = "rehash" /\ my[t].job[2] <= maxHp
  /\ FinishRehash
  /\ \E p \in my[t].job[2] .. MaxHp :
       /\ AppendLocks(t, p)
       /\ Set(t, [my[t] EXCEPT !.hp = p])
  /\ Goto(t, "replace")
  /\ UNCHANGED <<maxHp, hp, oldHp>>

ReplaceBuckets(t) ==
  /\ pc[t] = "replace"
  /\ hp' = my[t].hp
  /\ Leave(t, "done")
  /\ UNCHANGED <<maxHp, oldHp, oldAlloc, unmoved, remaining, lockVars>>

\* cuckoo_clear, and as far as locks go also lock_table and its unlock().
ClearTable(t) ==
  /\ OwnsTable(t) /\ Job(t) = "clear"
  /\ FinishRehash
  /\ Leave(t, "done")
  /\ UNCHANGED <<maxHp, hp, oldHp, arrays, mode>>

-----------------------------------------------------------------------------
(* What a thread does to, or sees of, the word of a lock without a change  *)
(* of what it has of it.                                                   *)

\* The first access of try_upgradeLock().
LoadWord(t) ==
  /\ pc[t] \in {"upgrade", "up1", "up2"} /\ seen[t] = NotLoaded
  /\ seen' = [seen EXCEPT ![t] =
       Shares(CASE pc[t] = "upgrade" -> Wanted(t)
                [] pc[t] = "up1"     -> LowLock(t)
                [] pc[t] = "up2"     -> HighLock(t))]
  /\ UNCHANGED <<tableVars, lockVars, pc, my, tentative>>

\* lock(bool) has added its 2 when a writer's bit is set, and takes it back.  It
\* has seen the word without the bit before, so the code does this once for
\* every writer; here it may do it again.  No other thread waits for these
\* shares to go: SpinLock.tla is about the wait for the word, which they cannot
\* keep from ending.
AddTentatively(t) ==
  /\ pc[t] = "lock" /\ my[t].kind = "read" /\ t \notin tentative
  /\ ~Unclaimed(Wanted(t))
  /\ tentative' = tentative \cup {t}
  /\ UNCHANGED <<tableVars, lockVars, pc, my, seen>>

TakeBack(t) ==
  /\ t \in tentative
  /\ tentative' = tentative \ {t}
  /\ UNCHANGED <<tableVars, lockVars, pc, my, seen>>

OnWord(t) == LoadWord(t) \/ AddTentatively(t) \/ TakeBack(t)

-----------------------------------------------------------------------------
Step(t) ==
  \/ CompareHashpower(t) \/ ReadHashpower(t) \/ ReadArray(t)
  \/ Claim(t) \/ Enter(t) \/ NextArray(t) \/ Share(t) \/ CheckHashpower(t)
  \/ UpgradeToMigrate(t) \/ EnterToMigrate(t) \/ MigrateAsReader(t) \/ MigrateAsWriter(t)
  \/ Release(t) \/ FinishOperation(t) \/ ChooseTarget(t) \/ UpgradeLow(t) \/ UpgradeHigh(t)
  \/ FinishWriting(t) \/ RunCuckoo(t) \/ SearchBucket(t) \/ Displace(t)
  \/ DisplaceLast(t) \/ TableFull(t) \/ LeavePath(t) \/ LeaveLast(t)
  \/ ResizeRejected(t) \/ DoubleLocks(t) \/ SwapBuckets(t) \/ GrowBuckets(t)
  \/ RehashLocksStep(t) \/ ReplaceBuckets(t) \/ ClearTable(t)

AllDone == \A t \in Threads : pc[t] = "done"

\* The value loaded is of use in the next step alone.
Forgetting(t) ==
  /\ Step(t)
  /\ seen' = [seen EXCEPT ![t] = NotLoaded]
  /\ UNCHANGED tentative

ThreadStep(t) == Forgetting(t) \/ OnWord(t)

Next == (\E t \in Threads : ThreadStep(t)) \/ (AllDone /\ UNCHANGED vars)

Spec == Init /\ [][Next]_vars

\* A thread that has begun an operation runs it.
FairSpec == Spec /\ \A t \in Threads : WF_vars(ThreadStep(t))

-----------------------------------------------------------------------------
Places ==
  {"compare", "snapshot", "array", "lock", "enter", "check", "upgrade", "upgraded",
   "migrating", "migrate", "hold", "up1", "up1_wait", "up2", "up2_wait", "writing",
   "cuckoo", "swap", "grow", "replace", "release", "done"}

StateTyped ==
  /\ maxHp \in 0 .. MaxHp /\ hp \in 0 .. MaxHp /\ oldHp \in 0 .. MaxHp
  /\ oldAlloc \in BOOLEAN
  /\ unmoved \subseteq 0 .. HashSize(MaxHp) - 1
  /\ remaining \in 0 .. MaxNumLocks
  /\ arrays \in Seq(1 .. MaxNumLocks) /\ Len(arrays) \in 1 .. MaxHp + 1
  /\ mode \in [LockIds -> [Threads -> {"none", "read", "claim", "upgrade", "write"}]]
  /\ migrated \in [LockIds -> BOOLEAN]
  /\ pc \in [Threads -> Places]

\* Every variable keeps its type; in particular the count of locks that remain
\* to be migrated never goes below zero, and a share that will be taken back is
\* that of a reader which asks for a lock.
TypeOK ==
  /\ StateTyped
  /\ seen \in [Threads -> {NotLoaded} \cup Nat]
  /\ tentative \subseteq {t \in Threads : pc[t] = "lock" /\ my[t].kind = "read"}

\* The locks are used as RWLock allows, so that what SpinLock implements is all
\* that is relied on here.  Those of a new array are taken before it is published.
OneLock(x) == INSTANCE RWLock WITH mode <- mode[x]

UsedAsRWLocks ==
  [][\A x \in LockIds : x[1] <= Len(arrays) => OneLock(x)!Next \/ UNCHANGED mode[x]]_vars

\* The buckets of buckets_ a thread is reading or writing just now.
Under(l) == {b \in 0 .. HashSize(hp) - 1 : LockInd(b) = l}

Access(t) ==
  CASE pc[t] = "hold" /\ my[t].goal # "all" -> my[t].uses \X {my[t].kind}
    [] pc[t] \in {"up1", "up1_wait", "up2", "up2_wait"} -> Own(t) \X {"read"}
    [] pc[t] = "writing" -> (Own(t) \X {"read"}) \cup {<<my[t].target, "write">>}
    [] pc[t] = "migrating" -> Under(Wanted(t)[2]) \X {"write"}
    [] pc[t] = "migrate" ->
         (UNION {Under(LockInd(b)) : b \in my[t].uses}) \X {"write"}
    [] OwnsTable(t) \/ pc[t] \in {"swap", "grow", "replace"} ->
         (0 .. HashSize(hp) - 1) \X {"write"}
    [] OTHER -> {}

\* Nobody reads or writes a bucket while another thread writes to it, across
\* upgrades, lazy migration and changes of the lock array.
BucketExclusion ==
  \A t, u \in Threads : t # u =>
    \A x \in Access(t), y \in Access(u) : x[1] = y[1] => x[2] = "read" /\ y[2] = "read"

\* A thread that has its locks has them in the current array, for the buckets
\* of the current hashpower, as long as it holds them.
SnapshotHolds ==
  \A t \in Threads :
    \/ pc[t] = "hold" /\ my[t].goal # "all"
    \/ pc[t] \in {"up1", "up1_wait", "up2", "up2_wait", "writing", "migrate", "migrating"}
    => my[t].hp = hp /\ my[t].array = Current

\* No thread uses a bucket whose elements are still in old_buckets_.
MovedBeforeUse ==
  \A t \in Threads :
    pc[t] \in {"hold", "up1", "up1_wait", "up2", "up2_wait", "writing"}
        /\ my[t].goal # "all" =>
      \A x \in Access(t) : x[1] % HashSize(oldHp) \notin unmoved

\* remaining counts the unmigrated locks, every bucket that was not moved is
\* under one of them, and old_buckets_ has its memory until the last has gone;
\* the asserts of rehash_lock about the sizes hold.
OldBucketsCounted ==
  (\A t \in Threads : pc[t] \notin {"swap", "grow"}) =>
    LET late == {l \in 0 .. arrays[Current] - 1 : ~migrated[<<Current, l>>]}
    IN  /\ remaining = Cardinality(late)
        /\ unmoved = {b \in 0 .. HashSize(oldHp) - 1 : LockInd(b) \in late}
        /\ late # {} => /\ oldAlloc
                        /\ oldHp + 1 = hp
                        /\ arrays[Current] = MaxNumLocks
                        /\ HashSize(oldHp) >= MaxNumLocks

\* An index into an array of locks is inside that array, although hashpower
\* and array are read at different times.
LockInRange ==
  \A t \in Threads :
    /\ pc[t] \in {"lock", "enter", "check", "upgrade", "upgraded", "migrating"} =>
         Wanted(t)[2] < arrays[my[t].array]
    /\ pc[t] = "hold" /\ my[t].goal # "all" =>
         \A b \in my[t].uses : b < HashSize(hp)

\* The threads that keep t from going on.
Blockers(t) ==
  CASE pc[t] = "lock" ->
         {u \in Threads \ {t} : mode[Wanted(t)][u] \in {"claim", "upgrade", "write"}}
    [] pc[t] \in {"enter", "upgraded"} ->
         {u \in Threads \ {t} : mode[Wanted(t)][u] = "read"}
    [] pc[t] = "up1_wait" -> {u \in Threads \ {t} : mode[LowLock(t)][u] = "read"}
    [] pc[t] = "up2_wait" -> {u \in Threads \ {t} : mode[HighLock(t)][u] = "read"}
    [] OTHER -> {}

\* There are no threads each of which waits for another of them: locking in
\* the order of the indexes avoids deadlock.
NoWaitCycle ==
  \A S \in (SUBSET Threads) \ {{}} : \E t \in S : Blockers(t) \cap S = {}

\* A try_upgradeLock() that fails.
Refused(t) ==
  \/ pc[t] = "upgrade" /\ pc'[t] = "lock"
  \/ pc[t] \in {"up1", "up2"} /\ pc'[t] = "release"

\* Every operation comes to its end: waiting writers, refused upgrades, stale
\* snapshots and expansions of other threads included.  The one exception is
\* that two operations that upgrade their shares, neither of which ends, refuse
\* each other for ever.
OperationsReturn ==
  \/ <>AllDone
  \/ []<><<\E t, u \in Threads :
             /\ t # u /\ Refused(t)
             /\ pc[u] # "done" /\ Job(u) \in {"find", "upsert"}>>_vars
=============================================================================
