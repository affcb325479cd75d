---------------------------- MODULE LockedTable ----------------------------
(***************************************************************************)
(* The operations that take all the locks of a table and keep them for     *)
(* many steps: rehash and reserve, that is cuckoo_expand_simple with its   *)
(* worker threads, and locked_table with its iterators, its erasures and   *)
(* its stream.  They interrupt the operations of CuckooTable.tla, which    *)
(* go on afterwards with what they remember.                               *)
(*                                                                         *)
(* The new table of cuckoo_expand_simple is seen through its hashpower and *)
(* its elements; where they are in it is chosen in the end among the       *)
(* places cuckoo hashing allows.  So whether an insertion finds a path in  *)
(* it is open when both is possible.                                       *)
(***************************************************************************)
EXTENDS CuckooTable

CONSTANTS
  FirstElements,   \* the elements the table is constructed with
  SessionWork,     \* the calls a thread makes to its locked_table
  ExtraWorkers,    \* the values of max_num_worker_threads
  NewMapLoad,      \* 1 / DEFAULT_MINIMUM_LOAD_FACTOR: 20 in the code
  MoveEmpties,     \* moving an element leaves something else: no trivial type
  MovedFrom        \* what it leaves then

VARIABLES
  owner,    \* the thread that has all the locks for more than a step
  locked,   \* whether it has them for a locked_table
  job,      \* the local variables of its operation, and of the workers
  it,       \* the iterator it has, a bucket and a slot; None: none is valid
  file      \* the stream: what was saved and not yet loaded

inside     == <<owner, locked, job, it, file>>
lockedVars == <<hp, buckets, old, late, counter, call, ret, my, left,
                owner, locked, job, it, file>>

ASSUME WorkersAssumption == ExtraWorkers \subseteq Nat /\ ExtraWorkers # {}
ASSUME MovedAssumption == MoveEmpties \in BOOLEAN /\ MovedFrom \in Entries
ASSUME LoadAssumption == NewMapLoad \in Nat
ASSUME FirstAssumption ==
  FirstElements \subseteq Entries /\ \A d, e \in FirstElements : d.key = e.key => d = e
ASSUME OwnerAssumption == None \notin Threads
\* "end" is what an iterator at the end returns.
ASSUME EndAssumption == "end" \notin Keys
\* None is no place, and nothing that a stream holds.
ASSUME PositionAssumption == None \notin Nat \X Nat
ASSUME StreamAssumption ==
  /\ None \notin [hp : Nat, buckets : Table, size : Nat]
  /\ None \notin [store : [Keys -> Vals \cup {None}], order : Seq(Keys)]

NoJob == [stage |-> "none", workers |-> <<>>, hp |-> 0, into |-> {}, moved |-> {}, at |-> None]

\* The thread has a locked_table; it is built when its constructor returns.
Session(t) == locked /\ owner = t
Building(t) == At(t, "build")

Release == owner' = IF locked THEN owner ELSE None

-----------------------------------------------------------------------------
(* The threads of CuckooTable: they wait for the owner.                    *)

PlainCall(t) ==
  /\ ~Session(t)
  /\ Call(t)
  /\ UNCHANGED inside

PlainStep(t) ==
  /\ owner = None
  /\ Step(t)
  /\ UNCHANGED inside

SizeStep(t) ==
  /\ owner # None
  /\ ReadCounter(t) \/ ReturnSize(t)
  /\ UNCHANGED inside

-----------------------------------------------------------------------------
(* Work split among threads.                                               *)

\* Mutant: the last range is no longer than the others.
EqualRanges(size, width, extra) ==
  LET share == size \div (extra + 1)
  IN  [w \in 1 .. extra + 1 |->
         [next |-> (w - 1) * share * width, end |-> w * share * width, failed |-> FALSE]]

\* Mutant: "start" is not advanced before the caller takes the rest.
OverlappingRanges(size, width, extra) ==
  LET share == size \div (extra + 1)
  IN  [w \in 1 .. extra + 1 |->
         [next |-> IF w = extra + 1 /\ w > 1 THEN (w - 2) * share * width ELSE (w - 1) * share * width,
          end |-> IF w = extra + 1 THEN size * width ELSE w * share * width, failed |-> FALSE]]

\* parallel_exec and parallel_exec_noexcept: the extra threads take equal
\* shares of 0 .. size - 1, the caller, which comes last, takes what is left.
\* An index has width places.
Ranges(size, width, extra) ==
  LET share == size \div (extra + 1)
  IN  [w \in 1 .. extra + 1 |->
         [next |-> (w - 1) * share * width,
          end |-> IF w = extra + 1 THEN size * width ELSE w * share * width, failed |-> FALSE]]

Working(w) == w \in DOMAIN job.workers /\ job.workers[w].next < job.workers[w].end
                /\ ~job.workers[w].failed
Joined == \A w \in DOMAIN job.workers : ~Working(w)
Done(w) == [job EXCEPT !.workers[w].next = @ + 1]

\* reserve_calc: the smallest hashpower whose slots suffice.
ReserveCalc(n) ==
  LET enough == {p \in 0 .. n : Size(p) >= (n + SlotPerBucket - 1) \div SlotPerBucket}
  IN  CHOOSE p \in enough : \A q \in enough : p <= q

\* A power of two is larger than its exponent.
ASSUME ReserveAssumption ==
  \A c \in Workload \cup SessionWork : c.op = "reserve" =>
    \E p \in 0 .. c.num : Size(p) >= (c.num + SlotPerBucket - 1) \div SlotPerBucket

Target(t) == IF Op(t) = "rehash" THEN call[t].hp ELSE ReserveCalc(call[t].num)

\* rehash_with_workers: each takes its share of the locks.
StartMigration ==
  \E extra \in ExtraWorkers :
    job' = [NoJob EXCEPT !.stage = "migrate", !.workers = Ranges(MaxNumLocks, 1, extra)]

MigrateLock(w) ==
  /\ job.stage = "migrate" /\ Working(w)
  /\ LET ls == {job.workers[w].next} IN Under(ls, AfterMove(ls))
  /\ job' = Done(w)
  /\ UNCHANGED <<counter, call, ret, my, left, owner, locked, it, file>>

\* num_remaining_lazy_rehash_locks(0) frees old_buckets_.  The constructor of
\* locked_table ends here, cuckoo_expand_simple goes on to the buckets.
EndMigration(t) ==
  /\ owner = t /\ job.stage = "migrate" /\ Joined
  /\ old' = Empty
  /\ \/ /\ Building(t)
        /\ job' = NoJob
        /\ Return(t, "yes")
     \/ /\ ~Building(t)
        /\ \E extra \in ExtraWorkers :
             job' = [job EXCEPT !.stage = "transfer", !.hp = Target(t),
                                !.workers = Ranges(Size(hp), SlotPerBucket, extra)]
        /\ UNCHANGED <<call, ret, my, left>>
  /\ UNCHANGED <<hp, buckets, late, counter, owner, locked, it, file>>

-----------------------------------------------------------------------------
(* cuckoo_rehash, cuckoo_reserve and cuckoo_expand_simple.                 *)

Resizing(t) == Op(t) \in {"rehash", "reserve"}

\* The hashpower is compared before any lock is taken.
CompareHashpower(t) ==
  /\ At(t, "start") /\ Resizing(t)
  /\ \/ Target(t) = hp /\ Return(t, "no")
     \/ Target(t) # hp /\ Go(t, [Idle EXCEPT !.pc = "resize"]) /\ Stay
  /\ UNCHANGED <<table, inside>>

\* lock_all and check_resize_validity<manual_resize>.
ExpandSimple(t) ==
  /\ At(t, "resize") /\ job.stage = "none"
  /\ owner = None \/ Session(t)
  /\ \/ /\ Target(t) > MaxHp
        /\ Return(t, "exception")
        /\ UNCHANGED <<owner, job>>
     \/ /\ Target(t) <= MaxHp
        /\ owner' = t
        /\ StartMigration
        /\ UNCHANGED <<call, ret, my, left>>
  /\ UNCHANGED <<table, locked, it, file>>

\* The next slot of a worker, and what is in it.
Place(w)  == <<job.workers[w].next \div SlotPerBucket, job.workers[w].next % SlotPerBucket>>
Source(w) == buckets[Place(w)[1]][Place(w)[2]]

\* The ways the elements can be in a table of hashpower p.
Placements(es, p) ==
  {f \in [es -> (UNION {Two(p, e.key) : e \in es}) \X SlotInds] :
     /\ \A e \in es : f[e][1] \in Two(p, e.key)
     /\ \A e, d \in es : f[e] = f[d] => e = d}

\* A table of the largest size the model has holds every key.
ASSUME RoomAssumption == \E e \in [Keys -> Entries] :
  /\ \A k \in Keys : e[k].key = k
  /\ Placements({e[k] : k \in Keys}, MaxHp) # {}

\* An insertion into the new table fails if both buckets are full and it finds
\* no path.
Fits(e) == Placements(job.into \cup {e}, job.hp) # {}
MayBeFull(e) ==
  \E f \in Placements(job.into, job.hp) :
    \A x \in Two(job.hp, e.key) \X SlotInds : \E d \in job.into : f[d] = x

NewMapLoadTooLow == NewMapLoad * Cardinality(job.into) < Size(job.hp) * SlotPerBucket

Transferring(w) == job.stage = "transfer" /\ Working(w)

SkipSlot(w) ==
  /\ Transferring(w) /\ Source(w) = None
  /\ job' = Done(w)

\* new_map.insert moves the element out of its slot, which stays occupied.
MoveOut(w) ==
  /\ Transferring(w) /\ Source(w) # None
  /\ Fits(Source(w))
  /\ job' = [Done(w) EXCEPT !.into = @ \cup {Source(w)}, !.moved = @ \cup {Place(w)}]

\* The new table doubles: it has no maximum_hashpower of its own, but this
\* model has a bound.
GrowNewMap(w) ==
  /\ Transferring(w) /\ Source(w) # None
  /\ MayBeFull(Source(w)) /\ ~NewMapLoadTooLow
  /\ job.hp < MaxHp
  /\ job' = [job EXCEPT !.hp = @ + 1]

\* load_factor_too_low, by the default minimum, ends this worker alone.
FailTransfer(w) ==
  /\ Transferring(w) /\ Source(w) # None
  /\ MayBeFull(Source(w)) /\ NewMapLoadTooLow
  /\ job' = [job EXCEPT !.workers[w].failed = TRUE]

TransferStep(w) ==
  /\ SkipSlot(w) \/ MoveOut(w) \/ GrowNewMap(w) \/ FailTransfer(w)
  /\ UNCHANGED <<table, call, ret, my, left, owner, locked, it, file>>

AllMoved == job.stage = "transfer" /\ Joined /\ \A w \in DOMAIN job.workers : ~job.workers[w].failed

FilledAs(f) ==
  [b \in BucketInds |-> [s \in SlotInds |->
     IF \E e \in DOMAIN f : f[e] = <<b, s>> THEN CHOOSE e \in DOMAIN f : f[e] = <<b, s>> ELSE None]]

\* The new buckets take the place of the old ones; the counters stay.
SwapBuckets(t) ==
  /\ owner = t /\ AllMoved
  /\ \E f \in Placements(job.into, job.hp) : buckets' = FilledAs(f)
  /\ hp' = job.hp
  /\ job' = NoJob /\ it' = None
  /\ Return(t, "yes")
  /\ Release
  /\ UNCHANGED <<old, late, counter, locked, file>>

\* The exception is thrown again where the workers are joined; the new table
\* is destroyed with all that was moved into it.
RethrowTransfer(t) ==
  /\ owner = t /\ job.stage = "transfer" /\ Joined /\ ~AllMoved
  /\ buckets' = IF MoveEmpties
                THEN [b \in BucketInds |-> [s \in SlotInds |->
                        IF <<b, s>> \in job.moved THEN MovedFrom ELSE buckets[b][s]]]
                ELSE buckets
  /\ job' = NoJob
  /\ Return(t, "exception")
  /\ Release
  /\ UNCHANGED <<hp, old, late, counter, locked, it, file>>

ResizeStep(t) ==
  CompareHashpower(t) \/ ExpandSimple(t) \/ EndMigration(t) \/ SwapBuckets(t) \/ RethrowTransfer(t)

-----------------------------------------------------------------------------
(* locked_table.                                                           *)

\* lock_table: lock_all, then the constructor moves all that is left.
LockTable(t) ==
  /\ At(t, "start") /\ Op(t) = "lock" /\ owner = None
  /\ owner' = t /\ locked' = TRUE
  /\ StartMigration
  /\ Go(t, [Idle EXCEPT !.pc = "build"])
  /\ Stay /\ UNCHANGED <<table, it, file>>

Unlock(t) ==
  /\ At(t, "start") /\ Session(t) /\ Op(t) = "unlock"
  /\ owner' = None /\ locked' = FALSE /\ it' = None
  /\ Return(t, "yes")
  /\ UNCHANGED <<table, job, file>>

EndPos == <<Size(hp), 0>>
Holds(p) == Occupied(buckets, p[1], p[2])
Before(p, q) == p[1] < q[1] \/ (p[1] = q[1] /\ p[2] < q[2])

\* What the caller owes: an iterator that is valid, that has a next or a
\* previous element, something to load.  The bound: one table in the stream.
MayCall(c) ==
  CASE c.op \in {"next", "erase_at"} -> it # None /\ it # EndPos
    [] c.op = "prev" -> it # None /\ \E p \in Taken(buckets) : Before(p, it)
    [] c.op = "load" -> file # None
    [] OTHER -> TRUE

SessionCall(t) ==
  /\ Session(t) /\ At(t, "idle")
  /\ \E c \in SessionWork : MayCall(c) /\ call' = [call EXCEPT ![t] = c]
  /\ ret' = [ret EXCEPT ![t] = None]
  /\ Go(t, Restart)
  /\ UNCHANGED <<table, left, inside>>

\* An iterator is where it should be and is returned.
Arrive(t, p) ==
  /\ it' = p
  /\ job' = NoJob
  /\ Return(t, IF p = EndPos THEN "end" ELSE buckets[p[1]][p[2]].key)

Advance(t, p) ==
  /\ job' = [NoJob EXCEPT !.at = <<p[1], p[2] + 1>>]
  /\ Go(t, [Idle EXCEPT !.pc = "forward"])
  /\ Stay /\ UNCHANGED it

\* Mutant: advances from an occupied slot, too.
ConstructAdvancing(t, p) ==
  IF p = EndPos THEN Arrive(t, p) ELSE Advance(t, p)

\* The constructor of an iterator.
Construct(t, p) ==
  IF p = EndPos \/ Holds(p) THEN Arrive(t, p) ELSE Advance(t, p)

\* Mutant: index_ is not advanced.
StepForwardSameBucket(p) == IF p[2] < SlotPerBucket THEN <<p[1], p[2] + 1>> ELSE <<p[1], 0>>

\* The two loops of operator++.
StepForward(p) == IF p[2] < SlotPerBucket THEN <<p[1], p[2] + 1>> ELSE <<p[1] + 1, 0>>

\* Mutant: slot_ starts one too high.
StepBackwardTooHigh(p) == IF p[2] = 0 THEN <<p[1] - 1, SlotPerBucket>> ELSE <<p[1], p[2] - 1>>

\* The loop of operator--.
StepBackward(p) == IF p[2] = 0 THEN <<p[1] - 1, SlotPerBucket - 1>> ELSE <<p[1], p[2] - 1>>

ScanForward(t) ==
  /\ At(t, "forward")
  /\ LET p == job.at IN
     IF p[1] = Size(hp) \/ (p[2] < SlotPerBucket /\ Holds(p)) THEN Arrive(t, p)
     ELSE /\ job' = [job EXCEPT !.at = StepForward(p)]
          /\ Stay /\ UNCHANGED <<my, it>>
  /\ UNCHANGED <<table, owner, locked, file>>

ScanBackward(t) ==
  /\ At(t, "backward")
  /\ IF Holds(job.at) THEN Arrive(t, job.at)
     ELSE /\ job' = [job EXCEPT !.at = StepBackward(@)]
          /\ Stay /\ UNCHANGED <<my, it>>
  /\ UNCHANGED <<table, owner, locked, file>>

\* begin(), end(), ++ and --, each to its first look at a slot.  Where erase
\* has been, a new iterator is made.
Iterate(t) ==
  /\ At(t, "start") /\ Session(t)
  /\ CASE Op(t) = "begin"  -> Construct(t, <<0, 0>>)
       [] Op(t) = "end"    -> Arrive(t, EndPos)
       [] Op(t) = "next"   -> Advance(t, it)
       [] Op(t) = "settle" -> Construct(t, it)
       [] Op(t) = "prev"   -> /\ job' = [NoJob EXCEPT !.at = StepBackward(it)]
                              /\ Go(t, [Idle EXCEPT !.pc = "backward"])
                              /\ Stay /\ UNCHANGED it
       [] OTHER            -> FALSE
  /\ UNCHANGED <<table, owner, locked, file>>

\* erase(iterator), up to the iterator it returns.
EraseAt(t) ==
  /\ At(t, "start") /\ Session(t) /\ Op(t) = "erase_at"
  /\ Delete({}, buckets, it)
  /\ call' = [call EXCEPT ![t] = [op |-> "settle"]]
  /\ UNCHANGED <<ret, my, left, inside>>

\* find, at and count.
FindIt(t) ==
  /\ At(t, "start") /\ Session(t) /\ Op(t) = "find"
  /\ \/ /\ Positions(buckets, Key(t)) = {}
        /\ it' = EndPos /\ Return(t, None)
     \/ \E x \in Positions(buckets, Key(t)) :
          it' = x /\ Return(t, buckets[x[1]][x[2]].val)
  /\ UNCHANGED <<table, owner, locked, job, file>>

\* erase(key).  An iterator at the element is not used any more.
EraseKey(t) ==
  /\ Session(t)
  /\ Erase(t)
  /\ it' = IF it \in Positions(buckets, Key(t)) THEN None ELSE it
  /\ UNCHANGED <<owner, locked, job, file>>

ClearAll(t) ==
  /\ Session(t)
  /\ Clear(t)
  /\ it' = None
  /\ UNCHANGED <<owner, locked, job, file>>

\* operator<< writes the buckets as they are, and size().
Save(t) ==
  /\ At(t, "start") /\ Session(t) /\ Op(t) = "save"
  /\ file' = [hp |-> hp, buckets |-> buckets, size |-> Elements]
  /\ Return(t, "yes")
  /\ UNCHANGED <<table, owner, locked, job, it>>

\* Mutant: adds the size to the counters there are.
LoadKeepingCounters(t) ==
  /\ At(t, "start") /\ Session(t) /\ Op(t) = "load"
  /\ hp' = file.hp /\ buckets' = file.buckets
  /\ counter' = [counter EXCEPT ![0] = file.size]
  /\ it' = None /\ file' = None
  /\ Return(t, "yes")
  /\ UNCHANGED <<old, late, owner, locked, job>>

\* operator>>: all the elements are counted under the first lock.
Load(t) ==
  /\ At(t, "start") /\ Session(t) /\ Op(t) = "load"
  /\ hp' = file.hp /\ buckets' = file.buckets
  /\ counter' = [l \in Locks |-> IF l = 0 THEN file.size ELSE 0]
  /\ it' = None /\ file' = None
  /\ Return(t, "yes")
  /\ UNCHANGED <<old, late, owner, locked, job>>

LockedStep(t) ==
  \/ LockTable(t) \/ Unlock(t)
  \/ Iterate(t) \/ ScanForward(t) \/ ScanBackward(t)
  \/ EraseAt(t) \/ FindIt(t) \/ EraseKey(t) \/ ClearAll(t) \/ Save(t) \/ Load(t)
  \/ ResizeStep(t)

\* The table is constructed from a range of elements.
LockedInit ==
  /\ hp = FirstHp
  /\ \E f \in Placements(FirstElements, FirstHp) : buckets = FilledAs(f)
  /\ counter = [l \in Locks |-> Cardinality({x \in Taken(buckets) : LockInd(x[1]) = l})]
  /\ old = Empty /\ late = {}
  /\ call = [t \in Threads |-> None] /\ ret = [t \in Threads |-> None]
  /\ my = [t \in Threads |-> Idle]
  /\ left = MaxCalls
  /\ owner = None /\ locked = FALSE
  /\ job = NoJob
  /\ it = None /\ file = None

WorkerStep(w) == MigrateLock(w) \/ TransferStep(w)
Workers == 1 .. Max(ExtraWorkers) + 1

AllReturned == AllDone /\ owner = None

LockedNext ==
  \/ \E t \in Threads :
       PlainCall(t) \/ PlainStep(t) \/ SizeStep(t) \/ SessionCall(t) \/ LockedStep(t)
  \/ \E w \in Workers : WorkerStep(w)
  \/ AllReturned /\ UNCHANGED lockedVars

LockedSpec == LockedInit /\ [][LockedNext]_lockedVars

FairLockedSpec ==
  /\ LockedSpec
  /\ \A t \in Threads : WF_lockedVars(SizeStep(t) \/ LockedStep(t))
  /\ \A w \in Workers : WF_lockedVars(WorkerStep(w))

-----------------------------------------------------------------------------
\* Every variable keeps its type.
LockedTypeOK ==
  /\ hp \in 0 .. MaxHp /\ buckets \in Table /\ old \in Table
  /\ owner \in Threads \cup {None} /\ locked \in BOOLEAN
  /\ locked => owner # None
  /\ job.stage \in {"none", "migrate", "transfer"} /\ job.hp \in 0 .. MaxHp
  /\ \A e \in job.into : e \in Entries
  /\ job.at # None =>
       /\ job.at[1] \in 0 .. Size(hp) /\ job.at[2] \in 0 .. SlotPerBucket
       /\ At(owner, "backward") => job.at \in BucketInds \X SlotInds
  /\ it # None => it = EndPos \/ it \in BucketInds \X SlotInds

\* Two workers have no lock and no bucket in common that they still work on:
\* neither takes a lock, or looks at the other.
WorkersApart ==
  \A v, w \in DOMAIN job.workers :
    v # w => LET left_to(u) == job.workers[u].next .. job.workers[u].end - 1
             IN  left_to(v) \cap left_to(w) = {}

\* The elements in the order of their places.
Ordinal(tb, p) == Cardinality({x \in Taken(tb) : Before(x, p)})
OrderOf(tb) ==
  [i \in 1 .. Cardinality(Taken(tb)) |->
     KeyAt(tb, CHOOSE x \in Taken(tb) : Ordinal(tb, x) = i - 1)]

ContentOf(tb) ==
  [k \in Keys |-> IF \E x \in Taken(tb) : KeyAt(tb, x) = k
                  THEN LET x == CHOOSE x \in Taken(tb) : KeyAt(tb, x) = k IN tb[x[1]][x[2]].val
                  ELSE None]

\* What LockedMap sees of a locked_table once it is built.
Ready    == locked /\ ~Building(owner)
Holder   == IF Ready THEN owner ELSE None
Listing  == IF Ready THEN OrderOf(buckets) ELSE <<>>
Cursor   == IF Ready /\ it # None THEN 1 + Ordinal(buckets, it) ELSE 0
Stream   == IF file = None THEN None
            ELSE [store |-> ContentOf(file.buckets), order |-> OrderOf(file.buckets)]

\* Transfers, worker threads and the loops of the iterators are invisible: the
\* map stays the map, and a locked_table is a list with an iterator.  In
\* particular the constructor leaves nothing in old_buckets_, an iteration
\* meets every element once, also while it erases, a rehash loses nothing, and
\* a stream gives back what was saved, to be used like any other table.
LM == INSTANCE LockedMap WITH
  store <- Content, owner <- Holder, order <- Listing, pos <- Cursor, file <- Stream

ImplementsLockedMap == LM!LockedSpec

\* The calls are those of LockedMap.
ASSUME CallsAssumption ==
  /\ Workload \cup SessionWork \subseteq LM!LockedCalls
  /\ None \notin LM!LockedCalls \cup {[op |-> "settle"]}

\* What a thread that has all the locks has begun comes to its end: the loops
\* of its iterators stop, the workers are joined.
LockedCallsReturn ==
  \A t \in Threads : (owner = t /\ call[t] # None) ~> (owner # t \/ call[t] = None)

\* An exception in the middle of a resize leaves all elements where they were:
\* the strong exception guarantee of cuckoo_expand_simple.
StrongGuarantee ==
  [][\A t \in Threads : RethrowTransfer(t) => Content' = Content]_lockedVars
=============================================================================
