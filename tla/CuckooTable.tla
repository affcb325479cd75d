---------------------------- MODULE CuckooTable ----------------------------
(***************************************************************************)
(* The contents of cuckoohash_map: buckets of slots, two buckets for every *)
(* hash, insertion by displacement along a path found earlier, expansion   *)
(* by cuckoo_fast_double, and old buckets that are moved as their locks    *)
(* are taken.                                                              *)
(*                                                                         *)
(* A step of a thread is all it does under one set of bucket locks;        *)
(* BucketLocks.tla is about how the locks make it one step.  An insertion  *)
(* that has to displace elements takes many such steps, one per bucket     *)
(* searched, path element read and element moved, and everything else may  *)
(* happen in between.  Asserts do not stop the program (NDEBUG).           *)
(***************************************************************************)
EXTENDS Integers, Sequences, FiniteSets, FiniteSetsExt, SequencesExt

CONSTANTS
  Threads, Keys, Vals, None,
  Hash,             \* hash_value of a key: what index_hash and alt_index need
  SlotPerBucket,    \* SLOT_PER_BUCKET
  MaxPathLen,       \* MAX_BFS_PATH_LEN
  MaxNumLocks,      \* kMaxNumLocks
  FirstHp,          \* the hashpower the table is constructed with
  MaxHp,            \* maximum_hashpower
  Workload,         \* the calls the threads make
  MaxCalls          \* bound: the number of calls

VARIABLES
  hp,        \* hashpower of buckets_
  buckets,   \* buckets_
  old,       \* old_buckets_: what of it has not been moved
  late,      \* the locks that are not is_migrated
  counter,   \* elem_counter of each lock
  call, ret, \* the call a thread is in; what its last one returned, until the next
  my,        \* the local variables of each thread
  left       \* the calls that may still be made

table == <<hp, buckets, old, late, counter>>
vars  == <<hp, buckets, old, late, counter, call, ret, my, left>>

BucketInds == 0 .. 2 ^ MaxHp - 1
SlotInds   == 0 .. SlotPerBucket - 1
Locks      == 0 .. MaxNumLocks - 1
Size(p)    == 2 ^ p
LockInd(b) == b % MaxNumLocks

\* A hash is seen through its low bits and the number its partial key is
\* multiplied to, in which alt_index differs from index_hash.
HashValues == [low : BucketInds, mult : BucketInds, rest : Nat]

Insertions == {"insert", "insert_or_assign", "uprase"}
Entries    == [key : Keys, val : Vals]

ASSUME HashAssumption == Hash \in [Keys -> HashValues]
ASSUME SizeAssumption ==
  /\ SlotPerBucket \in Nat \ {0} /\ MaxNumLocks \in Nat \ {0}
  /\ MaxPathLen \in Nat \ {0}
  /\ MaxHp \in Nat /\ FirstHp \in 0 .. MaxHp /\ MaxCalls \in Nat
\* kMaxNumLocks is a power of 2.
ASSUME LocksAssumption ==
  \A p \in 0 .. MaxHp : Size(p) >= MaxNumLocks => Size(p) % MaxNumLocks = 0

ASSUME NoneAssumption ==
  None \notin Vals /\ None \notin Entries /\ None \notin HashValues /\ None \notin Workload
ASSUME WorkloadAssumption ==
  \A c \in Workload :
    /\ c.op \in Insertions \cup {"update"} => c.key \in Keys /\ c.val \in Vals
    /\ c.op \in {"find", "erase"} => c.key \in Keys

\* The laws of exponents, of which the provers know nothing.
ASSUME ExponentAssumption ==
  2 ^ 0 = 1 /\ \A p \in 0 .. MaxHp : 2 ^ (p + 1) = 2 * 2 ^ p

Bit(x, n) == (x \div 2 ^ n) % 2
Xor == [x \in BucketInds |-> [y \in BucketInds |->
  CHOOSE z \in BucketInds : \A n \in 0 .. MaxHp - 1 : Bit(z, n) = (Bit(x, n) + Bit(y, n)) % 2]]

index_hash(p, h)   == h.low % Size(p)
alt_index(p, h, i) == Xor[i][h.mult] % Size(p)

First(p, k)  == index_hash(p, Hash[k])
Second(p, k) == alt_index(p, Hash[k], First(p, k))
Two(p, k)    == {First(p, k), Second(p, k)}
Own(k)       == Two(hp, k)

NoEntry == [s \in SlotInds |-> None]
Empty   == [b \in BucketInds |-> NoEntry]

Occupied(tb, b, s) == tb[b][s] # None
Put(tb, b, s, e)   == [tb EXCEPT ![b][s] = e]

\* Where a key is, as cuckoo_find and try_find_insert_bucket look for it.
Positions(tb, k) ==
  {x \in Own(k) \X SlotInds : Occupied(tb, x[1], x[2]) /\ tb[x[1]][x[2]].key = k}

\* try_find_insert_bucket ends with the last empty slot; the first bucket goes
\* before the second.
FreeSlots(tb, b) == {s \in SlotInds : ~Occupied(tb, b, s)}
Insertable(tb, k) ==
  LET b == IF FreeSlots(tb, First(hp, k)) # {} THEN First(hp, k) ELSE Second(hp, k)
  IN  {<<b, s>> : s \in {r \in FreeSlots(tb, b) : \A q \in FreeSlots(tb, b) : q <= r}}

-----------------------------------------------------------------------------
(* Moving old buckets.                                                     *)

\* Mutant: looks at index_hash only.
MovesUpFirstOnly(k, b, p) == b = First(p, k) /\ First(p + 1, k) = b + Size(p)

\* The hash got one more bit, and the bit at the place this element is at is 1.
MovesUp(k, b, p) ==
  \/ b = First(p, k)  /\ First(p + 1, k)  = b + Size(p)
  \/ b = Second(p, k) /\ Second(p + 1, k) = b + Size(p)

UpSlots(from, b, p) ==
  {s \in SlotInds : Occupied(from, b, s) /\ MovesUp(from[b][s].key, b, p)}

\* move_bucket of all buckets in bs: an element that stays keeps its slot, one
\* that moves goes to the next free slot of its new bucket.
MoveBuckets(from, into, p, bs) ==
  [b \in BucketInds |->
     IF b \in bs
     THEN [s \in SlotInds |->
             IF Occupied(from, b, s) /\ s \notin UpSlots(from, b, p)
             THEN from[b][s] ELSE into[b][s]]
     ELSE IF b - Size(p) \in bs
     THEN LET up == UpSlots(from, b - Size(p), p)
          IN  [s \in SlotInds |->
                 IF s < Cardinality(up)
                 THEN from[b - Size(p)][CHOOSE r \in up :
                        Cardinality({q \in up : q < r}) = s]
                 ELSE into[b][s]]
     ELSE into[b]]

\* rehash_lock of the locks in ls: the old buckets it moves, and what buckets_
\* holds then.
OldUnder(ls) == {b \in 0 .. Size(hp - 1) - 1 : LockInd(b) \in ls \cap late}
AfterMove(ls) == IF ls \cap late = {} THEN buckets
                 ELSE MoveBuckets(old, buckets, hp - 1, OldUnder(ls))

\* Mutant: rehash_lock for the lower of the locks alone.
LocksOfLowest(bs) == {LockInd(b) : b \in {c \in bs : \A d \in bs : LockInd(c) <= LockInd(d)}}

LocksOf(bs) == {LockInd(b) : b \in bs}

\* The step runs under the locks ls, which it migrates before anything else,
\* and leaves the contents tb.
Under(ls, tb) ==
  /\ buckets' = tb
  /\ late' = late \ ls
  /\ old' = IF ls \cap late = {} THEN old
            ELSE [b \in BucketInds |-> IF b \in OldUnder(ls) THEN NoEntry ELSE old[b]]
  /\ UNCHANGED hp

-----------------------------------------------------------------------------
Idle == [pc |-> "idle", hp |-> 0, queue |-> <<>>, root |-> 0, slots |-> <<>>,
         path |-> <<>>, sum |-> 0]

Init ==
  /\ hp = FirstHp
  /\ buckets = Empty /\ old = Empty
  /\ late = {}
  /\ counter = [l \in Locks |-> 0]
  /\ call = [t \in Threads |-> None] /\ ret = [t \in Threads |-> None]
  /\ my = [t \in Threads |-> Idle]
  /\ left = MaxCalls

At(t, where) == my[t].pc = where
Go(t, new) == my' = [my EXCEPT ![t] = new]
Stay == UNCHANGED <<call, ret, left>>

\* Mutant: nobody looks whether the table was expanded.
CurrentAssumed(t) == TRUE

\* A table of another hashpower: hashpower_changed, back to the snapshot.
Restart == [Idle EXCEPT !.pc = "start"]
Current(t) == my[t].hp = hp

Call(t) ==
  /\ At(t, "idle") /\ left > 0
  /\ left' = left - 1
  /\ \E c \in Workload : call' = [call EXCEPT ![t] = c]
  /\ ret' = [ret EXCEPT ![t] = None]
  /\ Go(t, Restart)
  /\ UNCHANGED table

Return(t, result) ==
  /\ call' = [call EXCEPT ![t] = None]
  /\ ret' = [ret EXCEPT ![t] = result]
  /\ Go(t, Idle)
  /\ UNCHANGED left

Op(t)  == call[t].op
Key(t) == call[t].key

Count(b, d) == counter' = [counter EXCEPT ![LockInd(b)] = @ + d]

\* find_fn, find and find_KV.
Find(t) ==
  /\ At(t, "start") /\ Op(t) = "find"
  /\ LET ls == LocksOf(Own(Key(t)))
         tb == AfterMove(ls)
     IN  /\ Under(ls, tb)
         /\ \/ /\ Positions(tb, Key(t)) = {}
               /\ Return(t, None)
            \/ \E x \in Positions(tb, Key(t)) : Return(t, tb[x[1]][x[2]].val)
  /\ UNCHANGED counter

\* update_fn.
Update(t) ==
  /\ At(t, "start") /\ Op(t) = "update"
  /\ LET ls == LocksOf(Own(Key(t)))
         tb == AfterMove(ls)
     IN  \/ /\ Positions(tb, Key(t)) = {}
            /\ Under(ls, tb)
            /\ Return(t, "no")
         \/ \E x \in Positions(tb, Key(t)) :
              /\ Under(ls, [tb EXCEPT ![x[1]][x[2]].val = call[t].val])
              /\ Return(t, "yes")
  /\ UNCHANGED counter

\* Mutant: del_from_bucket without its counter.
DeleteUncounted(ls, tb, x) ==
  /\ Under(ls, Put(tb, x[1], x[2], None))
  /\ UNCHANGED counter

\* del_from_bucket.
Delete(ls, tb, x) ==
  /\ Under(ls, Put(tb, x[1], x[2], None))
  /\ Count(x[1], -1)

\* erase_fn with a function that returns true.
Erase(t) ==
  /\ At(t, "start") /\ Op(t) = "erase"
  /\ LET ls == LocksOf(Own(Key(t)))
         tb == AfterMove(ls)
     IN  \/ /\ Positions(tb, Key(t)) = {}
            /\ Under(ls, tb)
            /\ Return(t, "no")
            /\ UNCHANGED counter
         \/ \E x \in Positions(tb, Key(t)) :
              /\ Delete(ls, tb, x)
              /\ Return(t, "yes")

\* cuckoo_clear.
Clear(t) ==
  /\ At(t, "start") /\ Op(t) = "clear"
  /\ buckets' = Empty /\ old' = Empty
  /\ late' = {}
  /\ counter' = [l \in Locks |-> 0]
  /\ Return(t, "yes")
  /\ UNCHANGED hp

\* size(): the counters are read one after the other, without a lock; root is
\* the index of the next.
ReadCounter(t) ==
  /\ (At(t, "start") /\ Op(t) = "size") \/ At(t, "sum")
  /\ my[t].root < MaxNumLocks
  /\ Go(t, [my[t] EXCEPT !.pc = "sum", !.sum = @ + counter[my[t].root], !.root = @ + 1])
  /\ Stay /\ UNCHANGED table

ReturnSize(t) ==
  /\ At(t, "sum") /\ my[t].root = MaxNumLocks
  /\ Return(t, my[t].sum)
  /\ UNCHANGED table

-----------------------------------------------------------------------------
(* uprase_fn, and through it upsert, insert and insert_or_assign.          *)

\* The key is there: the function decides what becomes of it.
UseExisting(t, ls, tb, x) ==
  /\ CASE Op(t) = "insert" -> Under(ls, tb) /\ UNCHANGED counter
       [] Op(t) = "insert_or_assign" ->
            Under(ls, [tb EXCEPT ![x[1]][x[2]].val = call[t].val]) /\ UNCHANGED counter
       [] Op(t) = "uprase" -> Delete(ls, tb, x)
  /\ Return(t, "no")

\* add_to_bucket.
Add(t, ls, tb, x) ==
  /\ Under(ls, Put(tb, x[1], x[2], [key |-> Key(t), val |-> call[t].val]))
  /\ Count(x[1], 1)
  /\ Return(t, "yes")

\* slot_search begins with the two buckets of the key; the root 0 or 1 is what
\* is left of a pathcode when all its slots are taken off.
RootBucket(t, p, root) == IF root = 0 THEN First(p, Key(t)) ELSE Second(p, Key(t))

Search(t, p) ==
  [Idle EXCEPT !.pc = "search", !.hp = p, !.queue =
     [r \in 1 .. 2 |-> [bucket |-> RootBucket(t, p, r - 1), root |-> r - 1, slots |-> <<>>]]]

\* cuckoo_insert, up to run_cuckoo.
Insert(t) ==
  /\ At(t, "start") /\ Op(t) \in Insertions
  /\ LET ls == LocksOf(Own(Key(t)))
         tb == AfterMove(ls)
     IN  \/ \E x \in Positions(tb, Key(t)) : UseExisting(t, ls, tb, x)
         \/ /\ Positions(tb, Key(t)) = {}
            /\ \E x \in Insertable(tb, Key(t)) : Add(t, ls, tb, x)
         \/ /\ Positions(tb, Key(t)) = {} /\ Insertable(tb, Key(t)) = {}
            /\ Under(ls, tb)
            /\ Go(t, Search(t, hp))
            /\ Stay /\ UNCHANGED counter

\* The order in which slot_search looks at the slots of a bucket: it starts at
\* pathcode % slot_per_bucket().
Scan(x) ==
  LET from == IF x.slots = <<>> THEN x.root ELSE Last(x.slots)
  IN  [i \in 1 .. SlotPerBucket |-> (from + i - 1) % SlotPerBucket]

\* Mutant: one path component too many.
MayExtendTooFar(x) == Len(x.slots) < MaxPathLen

\* x.depth < MAX_BFS_PATH_LEN - 1.
MayExtend(x) == Len(x.slots) < MaxPathLen - 1

\* One round of slot_search, under lock_one.
SearchBucket(t) ==
  /\ At(t, "search") /\ my[t].queue # <<>> /\ Current(t)
  /\ LET x    == Head(my[t].queue)
         ls   == {LockInd(x.bucket)}
         tb   == AfterMove(ls)
         scan == Scan(x)
         free == {i \in DOMAIN scan : ~Occupied(tb, x.bucket, scan[i])}
         child(i) == [bucket |-> alt_index(hp, Hash[tb[x.bucket][scan[i]].key], x.bucket),
                      root |-> x.root, slots |-> Append(x.slots, scan[i])]
     IN  /\ Under(ls, tb)
         /\ \/ \E i \in free :
                 /\ \A j \in free : i <= j
                 /\ Go(t, [my[t] EXCEPT !.pc = "fill",
                                        !.slots = Append(x.slots, scan[i]),
                                        !.root = x.root, !.queue = <<>>])
            \/ /\ free = {}
               /\ Go(t, [my[t] EXCEPT !.queue = Tail(@) \o
                           (IF MayExtend(x)
                            THEN [i \in DOMAIN scan |-> child(i)] ELSE <<>>)])
  /\ Stay /\ UNCHANGED counter

\* The bucket of the path that is read next.
PathBucket(t) ==
  LET path == my[t].path
      n    == Len(path)
  IN  IF n = 0 THEN RootBucket(t, hp, my[t].root)
      ELSE alt_index(hp, path[n].hv, path[n].bucket)

\* The second half of cuckoopath_search: one bucket of the path, under
\* lock_one; the path ends at the first empty slot met.
FillPath(t) ==
  /\ At(t, "fill") /\ Current(t)
  /\ LET path == my[t].path
         n    == Len(path)
         b    == PathBucket(t)
         s    == my[t].slots[n + 1]
         ls   == {LockInd(b)}
         tb   == AfterMove(ls)
         here == [bucket |-> b, slot |-> s,
                  hv |-> IF Occupied(tb, b, s) THEN Hash[tb[b][s].key] ELSE None]
     IN  /\ Under(ls, tb)
         /\ Go(t, [my[t] EXCEPT
              !.path = Append(path, here),
              !.pc = IF ~Occupied(tb, b, s) \/ n + 1 = Len(my[t].slots)
                     THEN "move" ELSE "fill"])
  /\ Stay /\ UNCHANGED counter

\* Mutant: trusts the path.
StillValidUnchecked(tb, from, to) == Occupied(tb, from.bucket, from.slot)

\* cuckoopath_move looks again at what the path was made from.
StillValid(tb, from, to) ==
  /\ ~Occupied(tb, to.bucket, to.slot)
  /\ Occupied(tb, from.bucket, from.slot)
  /\ Hash[tb[from.bucket][from.slot].key] = from.hv

Displaced(tb, from, to) ==
  Put(Put(tb, to.bucket, to.slot, tb[from.bucket][from.slot]), from.bucket, from.slot, None)

\* A displacement that does not touch the buckets of the key: lock_two.
MoveElement(t) ==
  /\ At(t, "move") /\ Len(my[t].path) > 2 /\ Current(t)
  /\ LET n    == Len(my[t].path)
         from == my[t].path[n - 1]
         to   == my[t].path[n]
         ls   == LocksOf({from.bucket, to.bucket})
         tb   == AfterMove(ls)
     IN  \/ /\ StillValid(tb, from, to)
            /\ Under(ls, Displaced(tb, from, to))
            /\ Go(t, [my[t] EXCEPT !.path = Front(@)])
         \/ /\ ~StillValid(tb, from, to)
            /\ Under(ls, tb)
            /\ Go(t, Search(t, hp))
  /\ Stay /\ UNCHANGED counter

\* Mutant: does not look for the key again.
InsertAfterCuckooBlindly(t, ls, tb, first) ==
  Add(t, ls, tb, <<first.bucket, first.slot>>)

\* The slot at the head of the path is free and both buckets of the key are
\* locked: the key may have been inserted meanwhile.
InsertAfterCuckoo(t, ls, tb, first) ==
  \/ \E x \in Positions(tb, Key(t)) : UseExisting(t, ls, tb, x)
  \/ /\ Positions(tb, Key(t)) = {}
     /\ Add(t, ls, tb, <<first.bucket, first.slot>>)

\* The last displacement, lock_three, and with it the insertion.
MoveLast(t) ==
  /\ At(t, "move") /\ Len(my[t].path) = 2 /\ Current(t)
  /\ LET from == my[t].path[1]
         to   == my[t].path[2]
         ls   == LocksOf(Own(Key(t)) \cup {to.bucket})
         tb   == AfterMove(ls)
     IN  \/ /\ StillValid(tb, from, to)
            /\ InsertAfterCuckoo(t, ls, Displaced(tb, from, to), from)
         \/ /\ ~StillValid(tb, from, to)
            /\ Under(ls, tb)
            /\ Go(t, Search(t, hp))
            /\ Stay /\ UNCHANGED counter

\* Nothing to displace: one of the two buckets has a free slot by now.
MoveNothing(t) ==
  /\ At(t, "move") /\ Len(my[t].path) = 1 /\ Current(t)
  /\ LET first == my[t].path[1]
         ls    == LocksOf(Own(Key(t)))
         tb    == AfterMove(ls)
     IN  \/ /\ ~Occupied(tb, first.bucket, first.slot)
            /\ InsertAfterCuckoo(t, ls, tb, first)
         \/ /\ Occupied(tb, first.bucket, first.slot)
            /\ Under(ls, tb)
            /\ Go(t, Search(t, hp))
            /\ Stay /\ UNCHANGED counter

\* Mutant: looks for another path in the table as it was.
UnderExpansionSearches(t) ==
  /\ \/ At(t, "search") /\ my[t].queue # <<>>
     \/ At(t, "fill") \/ At(t, "move")
  /\ ~Current(t)
  /\ Go(t, Search(t, my[t].hp))
  /\ Stay /\ UNCHANGED table

\* hashpower_changed under lock_one, lock_two or lock_three: run_cuckoo returns
\* failure_under_expansion.
UnderExpansion(t) ==
  /\ \/ At(t, "search") /\ my[t].queue # <<>>
     \/ At(t, "fill") \/ At(t, "move")
  /\ ~Current(t)
  /\ Go(t, Restart)
  /\ Stay /\ UNCHANGED table

-----------------------------------------------------------------------------
(* No path: cuckoo_fast_double, under all the locks.                       *)

TableFull(t) == At(t, "search") /\ my[t].queue = <<>>
Elements == MapThenSumSet(LAMBDA l : counter[l], Locks)      \* size()

\* check_resize_validity, in the order of its tests.
MaximumExceeded(t) == my[t].hp + 1 > MaxHp
LoadTooLow == 20 * Elements < Size(hp) * SlotPerBucket

ExpandThrows(t) ==
  /\ TableFull(t)
  /\ MaximumExceeded(t) \/ LoadTooLow
  /\ Return(t, "exception")
  /\ UNCHANGED table

ExpandLate(t) ==
  /\ TableFull(t)
  /\ ~(MaximumExceeded(t) \/ LoadTooLow) /\ ~Current(t)
  /\ Go(t, Restart)
  /\ Stay /\ UNCHANGED table

\* What was left of the old buckets is moved first.  A table of fewer buckets
\* than locks is then moved at once, a larger one becomes the old one.
Double(t) ==
  /\ TableFull(t)
  /\ ~(MaximumExceeded(t) \/ LoadTooLow) /\ Current(t)
  /\ hp' = hp + 1
  /\ LET tb == AfterMove(Locks) IN
     IF Size(hp) < MaxNumLocks
     THEN /\ buckets' = MoveBuckets(tb, Empty, hp, 0 .. Size(hp) - 1)
          /\ old' = Empty
          /\ late' = {}
     ELSE /\ buckets' = Empty
          /\ old' = tb
          /\ late' = Locks
  /\ Go(t, Restart)
  /\ Stay /\ UNCHANGED counter

-----------------------------------------------------------------------------
\* What a thread that is in a call does next.
Step(t) ==
  \/ Find(t) \/ Update(t) \/ Erase(t) \/ Clear(t) \/ ReadCounter(t) \/ ReturnSize(t)
  \/ Insert(t) \/ SearchBucket(t) \/ FillPath(t)
  \/ MoveElement(t) \/ MoveLast(t) \/ MoveNothing(t) \/ UnderExpansion(t)
  \/ ExpandThrows(t) \/ ExpandLate(t) \/ Double(t)

AllDone == left = 0 /\ \A t \in Threads : At(t, "idle")

Next == (\E t \in Threads : Call(t) \/ Step(t)) \/ (AllDone /\ UNCHANGED vars)

Spec == Init /\ [][Next]_vars

\* What a thread is about to look at with shares of the locks alone.
ReadNext(t) ==
  CASE At(t, "start") /\ Op(t) \in Insertions \cup {"find"} -> Own(Key(t))
    [] At(t, "search") /\ my[t].queue # <<>> /\ Current(t) -> {Head(my[t].queue).bucket}
    [] At(t, "fill") /\ Current(t) -> {PathBucket(t)}
    [] OTHER -> {}

\* The next step takes a try_upgradeLock(): to migrate what it is to read, or to
\* write where uprase_fn has found the key or a free slot.
NeedsUpgrade(t) ==
  \/ LocksOf(ReadNext(t)) \cap late # {}
  \/ /\ At(t, "start") /\ Op(t) \in Insertions
     /\ LET tb == AfterMove(LocksOf(Own(Key(t))))
        IN  Positions(tb, Key(t)) # {} \/ Insertable(tb, Key(t)) # {}

\* A thread that is in a call goes on, except that nothing ensures an upgrade:
\* two threads may refuse theirs to each other for ever.
FairSpec == Spec /\ \A t \in Threads : WF_vars(~NeedsUpgrade(t) /\ Step(t))

-----------------------------------------------------------------------------
Table == [BucketInds -> [SlotInds -> Entries \cup {None}]]
PathElements == [bucket : BucketInds, slot : SlotInds, hv : HashValues \cup {None}]

\* Every variable keeps its type; a path is no longer than its bound.
TypeOK ==
  /\ hp \in 0 .. MaxHp
  /\ buckets \in Table /\ old \in Table
  /\ late \subseteq Locks
  /\ counter \in [Locks -> Int]
  /\ \A t \in Threads :
       /\ my[t].pc \in {"idle", "start", "sum", "search", "fill", "move"}
       /\ my[t].hp \in 0 .. MaxHp
       /\ Len(my[t].slots) <= MaxPathLen
       /\ my[t].path \in Seq(PathElements) /\ Len(my[t].path) <= Len(my[t].slots)
  /\ left \in 0 .. MaxCalls

\* The places that are taken in one of the two containers.
Taken(tb) == {x \in BucketInds \X SlotInds : Occupied(tb, x[1], x[2])}
KeyAt(tb, x) == tb[x[1]][x[2]].key

\* No key is stored twice: not by two insertions of the same key one of which
\* was displacing elements, and not in the old and the new buckets.
KeysUnique ==
  /\ \A tb \in {buckets, old} : \A x, y \in Taken(tb) :
       KeyAt(tb, x) = KeyAt(tb, y) => x = y
  /\ \A x \in Taken(buckets), y \in Taken(old) : KeyAt(buckets, x) # KeyAt(old, y)

\* Every element is in one of the two buckets of its key, and what has not been
\* moved is in one of the two it had, under a lock that is not migrated.
ElementsInPlace ==
  /\ \A x \in Taken(buckets) : x[1] \in Own(KeyAt(buckets, x))
  /\ \A x \in Taken(old) :
       /\ LockInd(x[1]) \in late
       /\ x[1] \in {First(hp - 1, KeyAt(old, x)), Second(hp - 1, KeyAt(old, x))}

\* Nothing was put into a bucket to which elements of the old table may yet
\* move: move_bucket overwrites nothing.
UnmovedBucketsEmpty ==
  \A b \in BucketInds : LockInd(b) \in late => buckets[b] = NoEntry

\* The counters, of which each may be off, add up to the number of elements.
SizeIsExact == Elements = Cardinality(Taken(buckets)) + Cardinality(Taken(old))

\* The asserts of cuckoopath_search, cuckoopath_move and run_cuckoo: a path
\* begins in a bucket of the key to be inserted and goes on, from each element
\* read, to the other bucket of that element.
PathFollowsHashes ==
  \A t \in Threads : At(t, "fill") \/ At(t, "move") =>
    LET path == my[t].path
        p    == my[t].hp
        Both(h) == {index_hash(p, h), alt_index(p, h, index_hash(p, h))}
    IN  /\ path # <<>> => path[1].bucket \in Both(Hash[Key(t)])
        /\ \A i \in 1 .. Len(path) - 1 :
             {path[i].bucket, path[i + 1].bucket} = Both(path[i].hv)

\* The displacements, expansions and migrations under way are invisible: the
\* table is a map whose operations happen at one moment each.
Content ==
  [k \in Keys |->
     LET ValuesIn(tb) == {tb[x[1]][x[2]].val : x \in {y \in Taken(tb) : KeyAt(tb, y) = k}}
         found == ValuesIn(buckets) \cup ValuesIn(old)
     IN  IF found = {} THEN None ELSE CHOOSE v \in found : TRUE]

KVM == INSTANCE KeyValueMap WITH store <- Content

ImplementsMap == KVM!Spec

\* A displacement that is not the last of its path.
Displaces(t) ==
  At(t, "move") /\ my'[t].pc = "move" /\ my'[t].path # my[t].path

\* Every call comes to its end, or to an upgrade, whatever expansions of other
\* threads do to its path.  The one exception is that another thread displaces
\* elements for ever, none of which makes room for its own key.
CallsReturn ==
  \A t \in Threads :
    \/ []<>(call[t] = None \/ NeedsUpgrade(t))
    \/ []<><<\E u \in Threads \ {t} : Displaces(u)>>_vars

\* The assert of size(): the sum is no negative number.
SizeNotNegative == \A t \in Threads :
  At(t, "sum") /\ my[t].root = MaxNumLocks => my[t].sum >= 0
=============================================================================
