------------------------- MODULE BucketLocksProofs -------------------------
(***************************************************************************)
(* Proofs about BucketLocks.tla for any threads, keys, hash functions,     *)
(* number of locks and bounds.                                             *)
(***************************************************************************)
EXTENDS BucketLocks, NumberFacts, FiniteSetTheorems

-----------------------------------------------------------------------------
(* The inductive invariant.                                                *)

KeyJobs  == {"find", "write", "upsert"}
Idle     == {"compare", "snapshot", "array", "cuckoo", "done"}
Taking   == {"lock", "enter", "check", "upgrade", "upgraded", "migrating"}
Upping   == {"up1", "up1_wait", "up2", "up2_wait", "writing"}
Having   == {"migrate", "hold"} \cup Upping
Resizing == {"swap", "grow", "replace"}
Claims   == {"claim", "upgrade", "write"}

\* The types of the local variables.
Locals ==
  [job : Jobs, hp : 0 .. MaxHp, array : Nat, todo : SUBSET Nat, uses : SUBSET Nat,
   target : Nat, hops : Nat, then : {"done", "snapshot", "cuckoo"},
   goal : {"op", "path", "last", "all"}, kind : {"read", "write"}]

\* What a thread is about agrees with the call it is in.
CallFits(t) ==
  /\ pc[t] = "snapshot" => Job(t) \in KeyJobs
  /\ pc[t] = "compare" => Job(t) = "rehash" /\ my[t].goal = "all" /\ my[t].kind = "write"
  /\ pc[t] = "cuckoo" => Job(t) = "upsert"
  /\ pc[t] \in {"array"} \cup Taking \cup Having \cup Resizing =>
       /\ my[t].goal = "op" => /\ Job(t) \in KeyJobs
                               /\ my[t].kind = "write" <=> Job(t) = "write"
       /\ my[t].goal \in {"path", "last"} => Job(t) = "upsert"
       /\ my[t].goal = "last" => my[t].kind = "write"
       /\ my[t].goal = "all" => Job(t) \in {"rehash", "clear", "upsert"} /\ my[t].kind = "write"
  /\ pc[t] = "release" /\ my[t].then # "done" => Job(t) = "upsert"
  /\ pc[t] \in {"enter", "migrate"} => my[t].kind = "write"
  /\ pc[t] \in {"upgrade", "upgraded", "migrating"} => my[t].kind = "read"
  /\ pc[t] \in {"check", "upgrade", "upgraded", "migrating", "migrate"} => my[t].goal # "all"
  /\ pc[t] \in Upping => my[t].goal = "op" /\ Job(t) = "upsert" /\ my[t].target \in Own(t)
  /\ pc[t] \in {"up2", "up2_wait"} => HighLock(t)[2] = LockInd(my[t].target)
  /\ pc[t] \in {"up2", "up2_wait"} => LowLock(t) # HighLock(t)
  /\ pc[t] \in Resizing => my[t].goal = "all"
  /\ pc[t] \in {"swap", "grow"} => Job(t) = "upsert"

\* The indexes of the locks over the buckets a thread uses.
Inds(t) == {LockInd(b) : b \in my[t].uses}

\* The locks a thread wants exist in the array it takes them from, although
\* the hashpower and the array are read at different times.
NeedsFit(t) ==
  /\ my[t].goal # "all" /\ pc[t] \in {"array"} \cup Taking \cup Having =>
       /\ my[t].uses # {} /\ my[t].uses \subseteq 0 .. HashSize(my[t].hp) - 1
       /\ my[t].goal = "op" => my[t].uses = Own(t)
  /\ pc[t] \in Taking \cup Having \cup Resizing =>
       /\ my[t].array \in 1 .. Current
       /\ my[t].goal # "all" => /\ LockCount(my[t].hp) <= arrays[my[t].array]
                                /\ my[t].todo \subseteq Inds(t)
       /\ my[t].goal = "all" => my[t].todo \subseteq 0 .. arrays[my[t].array] - 1
  /\ pc[t] \in Taking => my[t].todo # {}
  /\ pc[t] \in Having => my[t].todo = {}
  /\ pc[t] = "check" => my[t].todo = Inds(t)
  /\ LockCount(my[t].hp) <= arrays[Current]

\* What a thread has of the lock it is after.
WantedMode(t) ==
  CASE pc[t] = "lock" -> "none"
    [] pc[t] = "enter" -> "claim"
    [] pc[t] = "check" -> my[t].kind
    [] pc[t] = "upgrade" -> "read"
    [] pc[t] = "upgraded" -> "upgrade"
    [] pc[t] = "migrating" -> "write"

\* What it has of the locks of its operation from try_upgrade on.
UpMode(t, x) ==
  /\ pc[t] = "up1" => mode[x][t] = "read"
  /\ pc[t] = "up1_wait" => mode[x][t] = IF x = LowLock(t) THEN "upgrade" ELSE "read"
  /\ pc[t] = "up2" => mode[x][t] = IF x = LowLock(t) THEN "write" ELSE "read"
  /\ pc[t] = "up2_wait" => mode[x][t] = IF x = HighLock(t) THEN "upgrade" ELSE "write"
  /\ pc[t] = "writing" => mode[x][t] \in {"read", "write"}
  /\ pc[t] = "writing" /\ x[2] = LockInd(my[t].target) => mode[x][t] = "write"

\* What a thread has of each lock follows from where it is.
ModeFits(t, x) ==
  /\ x[1] > Current => mode[x][t] = "none"
  /\ pc[t] \in Idle => mode[x][t] = "none"
  /\ pc[t] = "release" => mode[x][t] \in {"none", "read", "write"}
  /\ pc[t] \in Taking \cup Having /\ my[t].goal # "all" =>
       /\ x[1] # my[t].array \/ x[2] \notin Inds(t) => mode[x][t] = "none"
       /\ x[1] = my[t].array /\ x[2] \in Inds(t) \ my[t].todo =>
            IF pc[t] \in Upping THEN UpMode(t, x) ELSE mode[x][t] = my[t].kind
  /\ pc[t] \in Taking /\ x[1] = my[t].array /\ x[2] \in my[t].todo =>
       mode[x][t] = IF x = Wanted(t) THEN WantedMode(t) ELSE "none"
  /\ pc[t] \in Taking \cup Having /\ my[t].goal = "all" =>
       /\ x[1] = my[t].array /\ x[2] \in (0 .. arrays[my[t].array] - 1) \ my[t].todo =>
            mode[x][t] = "write"
       /\ x[1] = my[t].array /\ x[2] >= arrays[my[t].array] => mode[x][t] = "none"
       /\ x[1] < my[t].array => mode[x][t] \in {"none", "write"}
       /\ x[1] > my[t].array => mode[x][t] = "none"
  /\ pc[t] \in Resizing =>
       /\ mode[x][t] \in {"none", "write"}
       /\ x \in ArrayLocks(Current) => mode[x][t] = "write"

ModesFit(t) == \A x \in LockIds : ModeFits(t, x)

\* The rule of reader/writer locks: one claimant, and no reader beside a writer.
Compatible ==
  \A x \in LockIds : \A t, u \in Threads : t # u =>
    /\ mode[x][t] \in Claims => mode[x][u] \notin Claims
    /\ mode[x][t] = "write" => mode[x][u] # "read"

\* The lock indexes whose buckets are still to be moved.
Late == {l \in 0 .. arrays[Current] - 1 : ~migrated[<<Current, l>>]}

\* What remaining, unmoved and oldAlloc say of them.
Counted ==
  /\ remaining = Cardinality(Late)
  /\ unmoved = {b \in 0 .. HashSize(oldHp) - 1 : LockInd(b) \in Late}
  /\ Late # {} => /\ oldAlloc
                  /\ oldHp + 1 = hp
                  /\ arrays[Current] = MaxNumLocks
                  /\ HashSize(oldHp) >= MaxNumLocks
  /\ \A x \in LockIds \ ArrayLocks(Current) : migrated[x]
  /\ \A t \in Threads : pc[t] \in Resizing => Late = {}
  /\ \A t \in Threads : pc[t] = "grow" => oldAlloc

\* Arrays grow with the hashpower, so that there are never more than the bound.
ArraysFit ==
  /\ LockCount(hp) <= arrays[Current]
  /\ LockCount(oldHp) <= arrays[Current]
  /\ \E p \in 0 .. MaxHp : arrays[Current] = LockCount(p) /\ Current <= p + 1
  /\ \A t \in Threads :
       /\ pc[t] = "swap" => hp + 1 <= MaxHp /\ LockCount(hp + 1) <= arrays[Current]
       /\ pc[t] = "grow" => oldHp + 1 <= MaxHp /\ LockCount(oldHp + 1) <= arrays[Current]

ThreadFits(t) == CallFits(t) /\ NeedsFit(t) /\ ModesFit(t)

\* What most of the proofs are about: all but what is seen of the words of the locks.
core  == <<maxHp, hp, oldHp, oldAlloc, unmoved, remaining, arrays, mode, migrated, pc, my>>
Steps == \E t \in Threads : Step(t)

LEMMA NextSteps == [Next]_vars => [Steps]_core
BY DEF Next, ThreadStep, Forgetting, OnWord, LoadWord, AddTentatively, TakeBack, Steps, vars, core,
   tableVars, lockVars

\* Types, those of the local variables included.
Typed == StateTyped /\ my \in [Threads -> Locals]

\* The inductive invariant.
IInv ==
  /\ Typed
  /\ \A t \in Threads : ThreadFits(t)
  /\ Compatible
  /\ Counted
  /\ ArraysFit

-----------------------------------------------------------------------------
(* Sizes, indexes and buckets.                                             *)

\* The sizes of tables double from one hashpower to the next.
LEMMA PowersDouble == Doubling(MaxHp + 1)
BY ExponentAssumption, PowersAssumption DEF Doubling

\* There is at least one lock, and there are more in a larger table.
LEMMA SizeFacts ==
  /\ \A p \in 0 .. MaxHp + 1 : HashSize(p) \in Nat \ {0} /\ LockCount(p) \in 1 .. MaxNumLocks
  /\ \A p, q \in 0 .. MaxHp + 1 : p <= q => HashSize(p) <= HashSize(q)
  /\ \A p, q \in 0 .. MaxHp + 1 : p <= q => LockCount(p) <= LockCount(q)
<1>1. \A p \in 0 .. MaxHp + 1 : HashSize(p) \in Nat \ {0}
  BY PowersDouble, PowersPositive, PowersAssumption DEF HashSize
<1>2. ASSUME NEW p \in 0 .. MaxHp + 1, NEW q \in 0 .. MaxHp + 1, p <= q
      PROVE  HashSize(p) <= HashSize(q)
  <2>1. CASE p = q
    BY <1>1, <2>1
  <2>2. CASE p < q
    <3>1. 2 * HashSize(p) <= HashSize(q)
      BY <2>2, PowersDouble, PowersGrow, PowersAssumption DEF HashSize
    <3> QED
      BY <1>1, <3>1
  <2> QED
    BY <1>2, <2>1, <2>2, PowersAssumption
<1> QED
  BY <1>1, <1>2, LocksAssumption DEF LockCount, MinOf

\* The lock over a bucket of a table is one of its locks.
LEMMA LockIndFacts ==
  ASSUME NEW p \in 0 .. MaxHp + 1, NEW b \in 0 .. HashSize(p) - 1
  PROVE  LockInd(b) \in 0 .. LockCount(p) - 1 /\ LockInd(b) \in 0 .. MaxNumLocks - 1
<1>1. b \in Nat /\ LockInd(b) \in 0 .. MaxNumLocks - 1 /\ LockInd(b) <= b
  BY SizeFacts, LocksAssumption DEF LockInd
<1> QED
  BY <1>1, SizeFacts, LocksAssumption DEF LockCount, MinOf

\* A key has buckets in every table.
LEMMA BucketsFacts ==
  ASSUME NEW k \in Keys, NEW p \in 0 .. MaxHp
  PROVE  Buckets(k, p) # {} /\ Buckets(k, p) \subseteq 0 .. HashSize(p) - 1
<1>1. HashSize(p) \in Nat \ {0} /\ 2 ^ MaxHp \in Nat
  BY SizeFacts, PowersAssumption DEF HashSize
<1>2. Hash1[k] \in Nat /\ Hash2[k] \in Nat
  BY <1>1, HashAssumption
<1> QED
  BY <1>1, <1>2 DEF Buckets

\* The lock a thread wants next is one of those it still needs.
LEMMA WantedFacts ==
  ASSUME NEW t, my[t].todo \subseteq Nat, my[t].todo # {}
  PROVE  /\ Wanted(t) = <<my[t].array, Wanted(t)[2]>>
         /\ Wanted(t)[1] = my[t].array
         /\ Wanted(t)[2] \in my[t].todo
<1>1. \E l \in my[t].todo : \A m \in my[t].todo : l <= m
  BY LeastElement
<1> DEFINE least == CHOOSE l \in my[t].todo : \A m \in my[t].todo : l <= m
<1>2. least \in my[t].todo
  BY <1>1
<1>3. Wanted(t) = <<my[t].array, least>>
  BY DEF Wanted
<1> HIDE DEF least
<1> QED
  BY <1>2, <1>3

\* A key has a lower and a higher lock, which may be the same.
LEMMA OwnLocksFacts ==
  ASSUME NEW t, Key(t) \in Keys, my[t].hp \in 0 .. MaxHp
  PROVE  /\ LowLock(t)  = <<my[t].array, LowLock(t)[2]>>
         /\ HighLock(t) = <<my[t].array, HighLock(t)[2]>>
         /\ {LockInd(b) : b \in Own(t)} = {LowLock(t)[2], HighLock(t)[2]}
<1> DEFINE i == LockInd(Hash1[Key(t)] % HashSize(my[t].hp))
           j == LockInd(Hash2[Key(t)] % HashSize(my[t].hp))
<1>1. {LockInd(b) : b \in Own(t)} = {i, j}
  BY DEF Own, Buckets
<1>2. i \in Nat /\ j \in Nat
  <2>1. Own(t) \subseteq 0 .. HashSize(my[t].hp) - 1
    BY BucketsFacts DEF Own
  <2>2. \A b \in Own(t) : LockInd(b) \in Nat
    BY <2>1, LockIndFacts, PowersAssumption
  <2> QED
    BY <2>2 DEF Own, Buckets
<1>3. (\A b \in Own(t) : LockInd(b) \in Nat) /\ \A l \in {i, j} : \E b \in Own(t) : l = LockInd(b)
  BY <1>1, <1>2
<1> HIDE DEF i, j
<1> DEFINE low  == CHOOSE l \in {LockInd(b) : b \in Own(t)} : \A b \in Own(t) : l <= LockInd(b)
           high == CHOOSE l \in {LockInd(b) : b \in Own(t)} : \A b \in Own(t) : l >= LockInd(b)
<1>4. \E l \in {i, j} : \A b \in Own(t) : l <= LockInd(b)
  BY <1>1, <1>2
<1>5. \E l \in {i, j} : \A b \in Own(t) : l >= LockInd(b)
  BY <1>1, <1>2
<1>6. low \in {i, j} /\ \A b \in Own(t) : low <= LockInd(b)
  BY <1>1, <1>4
<1>7. high \in {i, j} /\ \A b \in Own(t) : high >= LockInd(b)
  BY <1>1, <1>5
<1>8. LowLock(t) = <<my[t].array, low>> /\ HighLock(t) = <<my[t].array, high>>
  BY DEF LowLock, HighLock
<1> HIDE DEF low, high
<1>9. low <= i /\ low <= j /\ high >= i /\ high >= j
  BY <1>3, <1>6, <1>7
<1>10. {i, j} = {low, high}
  BY <1>2, <1>6, <1>7, <1>9
<1> QED
  BY <1>1, <1>8, <1>10

\* The locks over the buckets a thread uses exist in its array.
LEMMA IndsFacts ==
  ASSUME NEW t \in Threads, my \in [Threads -> Locals], NeedsFit(t),
         my[t].goal # "all", pc[t] \in {"array"} \cup Taking \cup Having
  PROVE  /\ Inds(t) # {}
         /\ Inds(t) \subseteq 0 .. LockCount(my[t].hp) - 1
         /\ Inds(t) \subseteq 0 .. MaxNumLocks - 1
<1>1. my[t].hp \in 0 .. MaxHp
  BY DEF Locals
<1>2. my[t].uses # {} /\ my[t].uses \subseteq 0 .. HashSize(my[t].hp) - 1
  BY DEF NeedsFit
<1> QED
  BY <1>1, <1>2, LockIndFacts, PowersAssumption DEF Inds

\* The arrays are not empty.
LEMMA ArraysFacts ==
  ASSUME StateTyped
  PROVE  /\ Current \in 1 .. MaxHp + 1
         /\ \A a \in 1 .. Current : arrays[a] \in 1 .. MaxNumLocks
<1> arrays \in Seq(1 .. MaxNumLocks) /\ Len(arrays) \in 1 .. MaxHp + 1
  BY DEF StateTyped
<1> QED
  BY PowersAssumption, LocksAssumption DEF Current

\* Where a thread is after a lock, that is a lock there is.
LEMMA WantedIsLock ==
  ASSUME NEW t \in Threads, Typed, NeedsFit(t), pc[t] \in Taking
  PROVE  /\ Wanted(t) \in LockIds
         /\ Wanted(t) = <<my[t].array, Wanted(t)[2]>>
         /\ Wanted(t)[1] = my[t].array
         /\ Wanted(t)[2] \in my[t].todo
         /\ Wanted(t)[2] \in 0 .. arrays[my[t].array] - 1
         /\ my[t].array \in 1 .. Current
<1>1. my[t].todo \subseteq Nat /\ my[t].todo # {}
  BY DEF NeedsFit, Typed, Locals
<1>2. /\ Wanted(t) = <<my[t].array, Wanted(t)[2]>>
      /\ Wanted(t)[1] = my[t].array
      /\ Wanted(t)[2] \in my[t].todo
  BY <1>1, WantedFacts
<1>3. my[t].array \in 1 .. Current /\ Current \in 1 .. MaxHp + 1
  BY DEF NeedsFit, Typed, StateTyped, Current
<1>4. arrays[my[t].array] \in 1 .. MaxNumLocks
  BY <1>3, ArraysFacts DEF Typed
<1>5. Wanted(t)[2] \in 0 .. arrays[my[t].array] - 1
  <2>1. CASE my[t].goal = "all"
    BY <1>2, <2>1 DEF NeedsFit
  <2>2. CASE my[t].goal # "all"
    <3>1. LockCount(my[t].hp) <= arrays[my[t].array] /\ my[t].todo \subseteq Inds(t)
      BY <2>2 DEF NeedsFit
    <3>2. LockCount(my[t].hp) \in 1 .. MaxNumLocks
      BY SizeFacts, PowersAssumption DEF Typed, Locals
    <3>3. Inds(t) \subseteq 0 .. LockCount(my[t].hp) - 1
      BY <2>2, IndsFacts DEF Typed
    <3> QED
      BY <1>2, <1>4, <3>1, <3>2, <3>3, LocksAssumption
  <2> QED
    BY <2>1, <2>2
<1>6. Wanted(t)[2] \in 0 .. MaxNumLocks - 1
  BY <1>4, <1>5, LocksAssumption
<1>7. my[t].array \in 1 .. MaxHp + 1
  BY <1>3, PowersAssumption
<1>8. <<my[t].array, Wanted(t)[2]>> \in LockIds
  BY <1>6, <1>7 DEF LockIds
<1> QED
  BY <1>2, <1>3, <1>5, <1>8

-----------------------------------------------------------------------------
(* A step of one thread leaves the others as they are.                     *)

\* Locks may be added, and what another thread has stays.
ArraysExtended ==
  /\ Current' >= Current
  /\ \A a \in 1 .. Current : arrays'[a] = arrays[a]
  /\ arrays'[Current'] >= arrays[Current]

\* A thread that does nothing itself is as before, whatever new locks there are.
LEMMA OtherFits ==
  ASSUME Typed, StateTyped', NEW u \in Threads, ThreadFits(u),
         pc'[u] = pc[u], my'[u] = my[u], \A x \in LockIds : mode'[x][u] = mode[x][u],
         ArraysExtended, Current' = Current \/ pc[u] \notin Resizing
  PROVE  ThreadFits(u)'
<1>1. /\ Own(u)' = Own(u) /\ Job(u)' = Job(u) /\ Inds(u)' = Inds(u) /\ Wanted(u)' = Wanted(u)
      /\ LowLock(u)' = LowLock(u) /\ HighLock(u)' = HighLock(u)
      /\ WantedMode(u)' = WantedMode(u)
      /\ \A x \in LockIds : UpMode(u, x)' <=> UpMode(u, x)
  BY DEF Own, Job, Key, Inds, Wanted, LowLock, HighLock, WantedMode, UpMode
<1>2. CallFits(u)'
  BY <1>1 DEF ThreadFits, CallFits
<1>3. /\ Current \in 1 .. MaxHp + 1 /\ Current' \in 1 .. MaxHp + 1
      /\ arrays[Current] \in 1 .. MaxNumLocks /\ arrays'[Current'] \in 1 .. MaxNumLocks
  <2>1. Current \in 1 .. MaxHp + 1 /\ arrays[Current] \in 1 .. MaxNumLocks
    BY ArraysFacts, PowersAssumption DEF Typed
  <2>2. (Current \in 1 .. MaxHp + 1 /\ arrays[Current] \in 1 .. MaxNumLocks)'
    <3>1. (arrays \in Seq(1 .. MaxNumLocks) /\ Len(arrays) \in 1 .. MaxHp + 1)'
      BY DEF StateTyped
    <3> QED
      BY <3>1, PowersAssumption, LocksAssumption DEF Current
  <2> QED
    BY <2>1, <2>2
<1>4. my[u].hp \in 0 .. MaxHp /\ LockCount(my[u].hp) \in 1 .. MaxNumLocks
  BY SizeFacts, PowersAssumption DEF Typed, Locals
<1>5. NeedsFit(u)'
  BY <1>1, <1>3, <1>4, PowersAssumption, LocksAssumption DEF ThreadFits, NeedsFit, ArraysExtended
<1>6. ModesFit(u)'
  <2> SUFFICES ASSUME NEW x \in LockIds PROVE ModeFits(u, x)'
    BY DEF ModesFit
  <2> QED
    BY <1>1, <1>3 DEF ThreadFits, ModesFit, ModeFits, NeedsFit, ArraysExtended, ArrayLocks, LockIds
<1> QED
  BY <1>2, <1>5, <1>6 DEF ThreadFits

-----------------------------------------------------------------------------
(* What a step makes of the thread that takes it.                          *)

\* cuckoo_rehash looks at the hashpower without a lock and holds none after it.
LEMMA CompareFits ==
  ASSUME IInv, NEW t \in Threads, CompareHashpower(t)
  PROVE  ThreadFits(t)'
<1> USE DEF CompareHashpower, Goto, IInv, Typed, StateTyped, ThreadFits, lockVars, tableVars, Idle
<1>1. CallFits(t)'
  BY DEF CallFits, Taking, Having, Upping, Resizing, Job, Locals
<1>2. NeedsFit(t)'
  BY DEF NeedsFit, CallFits, Current, Taking, Having, Upping, Resizing
<1>3. ModesFit(t)'
  BY DEF ModesFit, ModeFits, Current, Taking, Having, Upping, Resizing
<1> QED
  BY <1>1, <1>2, <1>3

\* A new snapshot has the buckets of the key for the hashpower it read.
LEMMA ReadHashpowerFits ==
  ASSUME IInv, NEW t \in Threads, ReadHashpower(t)
  PROVE  ThreadFits(t)'
<1> USE DEF ReadHashpower, Goto, Set, Fresh, IInv, Typed, StateTyped, ThreadFits, lockVars, tableVars, Idle
<1>0. /\ pc'[t] = "array" /\ my'[t].hp = hp /\ my'[t].uses = Buckets(Key(t), hp)
      /\ my'[t].job = my[t].job /\ my'[t].goal = "op" 
      /\ my'[t].kind = IF Job(t) \in {"find", "upsert"} THEN "read" ELSE "write"
      /\ Job(t) \in KeyJobs
  BY DEF CallFits, Job, Key, KeyJobs
<1>1. CallFits(t)'
  BY <1>0 DEF CallFits, Taking, Having, Upping, Resizing, Job, KeyJobs
<1>2. NeedsFit(t)'
  <2>1. Key(t) \in Keys
    BY <1>0 DEF Key, Job, KeyJobs, Locals, Jobs
  <2> QED
    BY <1>0, <2>1, BucketsFacts DEF NeedsFit, Current, Taking, Having, Upping, Resizing, ArraysFit, Own, Key
<1>3. ModesFit(t)'
  BY <1>0 DEF ModesFit, ModeFits, Current, Taking, Having, Upping, Resizing
<1> QED
  BY <1>1, <1>2, <1>3

\* The array read after the hashpower is at least as large as that needs.
LEMMA ReadArrayFits ==
  ASSUME IInv, NEW t \in Threads, ReadArray(t)
  PROVE  ThreadFits(t)'
<1>0. /\ pc[t] = "array" /\ pc'[t] = "lock" /\ my'[t].array = Current
      /\ my'[t].todo = IF my[t].goal = "all" THEN 0 .. arrays[Current] - 1 ELSE Inds(t)
      /\ my'[t].job = my[t].job /\ my'[t].goal = my[t].goal /\ my'[t].kind = my[t].kind
      /\ my'[t].hp = my[t].hp /\ my'[t].uses = my[t].uses /\ my'[t].target = my[t].target
      /\ arrays' = arrays /\ mode' = mode
  BY DEF ReadArray, Goto, Set, IInv, Typed, StateTyped, Inds, Locals, lockVars
<1>1. /\ Current' = Current /\ Inds(t)' = Inds(t) /\ Own(t)' = Own(t) /\ Job(t)' = Job(t)
  BY <1>0 DEF Current, Inds, Own, Job, Key
<1>2. CallFits(t) /\ NeedsFit(t) /\ ModesFit(t)
  BY DEF IInv, ThreadFits
<1>3. CallFits(t)'
  BY <1>0, <1>1, <1>2 DEF CallFits, Taking, Having, Upping, Resizing
<1>4. NeedsFit(t)'
  <2>1. Current \in 1 .. MaxHp + 1 /\ arrays[Current] \in 1 .. MaxNumLocks
    BY ArraysFacts, PowersAssumption DEF IInv, Typed
  <2>2. 0 \in 0 .. arrays[Current] - 1
    BY <2>1, LocksAssumption
  <2>3. my[t].goal # "all" => Inds(t) # {}
    BY <1>0, <1>2, IndsFacts DEF IInv, Typed
  <2> QED
    BY <1>0, <1>1, <1>2, <2>1, <2>2, <2>3 DEF NeedsFit, Taking, Having, Upping, Resizing
<1>5. ModesFit(t)'
  BY <1>0, <1>1, <1>2 DEF ModesFit, ModeFits, Taking, Having, Upping, Resizing, LockIds, WantedMode, Idle
<1> QED
  BY <1>3, <1>4, <1>5 DEF ThreadFits

\* The thread has all it wanted of a lock.
LEMMA AdvanceFits ==
  ASSUME IInv, NEW t \in Threads, pc[t] \in Taking, Advance(t), arrays' = arrays,
         \A x \in LockIds : mode'[x][t] = IF x = Wanted(t) THEN my[t].kind ELSE mode[x][t]
  PROVE  ThreadFits(t)'
<1> DEFINE left == my[t].todo \ {Wanted(t)[2]}
<1>0. /\ pc'[t] = IF left # {} THEN "lock"
                  ELSE IF my[t].goal # "all" /\ my[t].kind = "write" THEN "migrate"
                  ELSE "hold"
      /\ my'[t].todo = left
      /\ my'[t].job = my[t].job /\ my'[t].goal = my[t].goal /\ my'[t].kind = my[t].kind
      /\ my'[t].hp = my[t].hp /\ my'[t].uses = my[t].uses /\ my'[t].target = my[t].target
      /\ my'[t].array = my[t].array
  BY DEF Advance, Goto, Set, IInv, Typed, StateTyped, Inds, Locals
<1>1. /\ Current' = Current /\ Inds(t)' = Inds(t) /\ Own(t)' = Own(t) /\ Job(t)' = Job(t)
  BY <1>0 DEF Current, Inds, Own, Job, Key
<1>2. CallFits(t) /\ NeedsFit(t) /\ ModesFit(t)
  BY DEF IInv, ThreadFits
<1>3. CallFits(t)'
  BY <1>0, <1>1, <1>2 DEF CallFits, Taking, Having, Upping, Resizing
<1>4. NeedsFit(t)'
  BY <1>0, <1>1, <1>2 DEF NeedsFit, Taking, Having, Upping, Resizing
<1>5. ModesFit(t)'
  <2> SUFFICES ASSUME NEW x \in LockIds PROVE ModeFits(t, x)'
    BY DEF ModesFit
  <2>1. ModeFits(t, x)
    BY <1>2 DEF ModesFit
  <2>2. /\ Wanted(t) = <<my[t].array, Wanted(t)[2]>> /\ Wanted(t)[1] = my[t].array
        /\ Wanted(t)[2] \in my[t].todo /\ my[t].array \in 1 .. Current
        /\ Wanted(t)[2] \in 0 .. arrays[my[t].array] - 1
    BY <1>2, WantedIsLock DEF IInv
  <2>3. x[1] = my[t].array /\ x[2] = Wanted(t)[2] <=> x = Wanted(t)
    BY <2>2 DEF LockIds
  <2>4. my[t].kind \in {"read", "write"} /\ (my[t].goal = "all" => my[t].kind = "write")
    BY <1>2 DEF CallFits, IInv, Typed, Locals, Taking
  <2>5. /\ pc'[t] \in {"lock", "migrate", "hold"} /\ (pc'[t] = "lock" <=> left # {})
        /\ pc'[t] = "lock" => WantedMode(t)' = "none"
    BY <1>0 DEF WantedMode
  <2>6. x = Wanted(t) => mode'[x][t] = my[t].kind /\ x[2] \notin left
    BY <2>3
  <2>7. x # Wanted(t) =>
          /\ mode'[x][t] = mode[x][t]
          /\ x[1] = my[t].array => (x[2] \in left <=> x[2] \in my[t].todo)
    BY <2>3
  <2> HIDE DEF left
  <2>8. x[1] = my[t].array /\ x[2] \in left => mode'[x][t] = "none"
    BY <2>1, <2>6, <2>7 DEF ModeFits
  <2>9. x[1] \in Nat /\ x[2] \in Nat /\ my[t].array \in Nat /\ arrays[my[t].array] \in Nat /\ Current \in Nat
    BY <2>2, ArraysFacts, LocksAssumption DEF LockIds, IInv, Typed
  <2>10. CASE my[t].goal = "all"
    <3>1. /\ x[1] = my[t].array /\ x[2] \in 0 .. arrays[my[t].array] - 1 /\ x[2] \notin left =>
               mode'[x][t] = "write"
          /\ x[1] = my[t].array /\ x[2] >= arrays[my[t].array] => mode'[x][t] = "none"
          /\ x[1] < my[t].array => mode'[x][t] \in {"none", "write"}
          /\ x[1] > my[t].array => mode'[x][t] = "none"
          /\ x[1] > Current => mode'[x][t] = "none"
      BY <2>10, <2>1, <2>2, <2>3, <2>4, <2>6, <2>7, <2>9 DEF ModeFits
    <3> QED
      BY <1>0, <1>1, <2>5, <2>8, <2>10, <3>1 DEF ModeFits, Taking, Having, Upping, Resizing, Idle
  <2>11. CASE my[t].goal # "all"
    <3>1. /\ x[1] # my[t].array \/ x[2] \notin Inds(t) => mode'[x][t] = "none"
          /\ x[1] = my[t].array /\ x[2] \in Inds(t) /\ x[2] \notin left => mode'[x][t] = my[t].kind
          /\ x[1] > Current => mode'[x][t] = "none"
      BY <1>2, <2>11, <2>1, <2>2, <2>3, <2>4, <2>6, <2>7, <2>9 DEF ModeFits, NeedsFit, Taking, Upping
    <3> QED
      BY <1>0, <1>1, <2>5, <2>8, <2>11, <3>1 DEF ModeFits, Taking, Having, Upping, Resizing, Idle
  <2> QED
    BY <2>10, <2>11
<1> QED
  BY <1>3, <1>4, <1>5 DEF ThreadFits

\* It begins to give everything back.
LEMMA LeaveFits ==
  ASSUME IInv, NEW t \in Threads, NEW to \in {"done", "snapshot", "cuckoo"},
         pc'[t] = "release", my'[t].then = to, my'[t].job = my[t].job, my'[t].hp = my[t].hp,
         arrays' = arrays, \A x \in LockIds : mode'[x][t] = mode[x][t],
         to # "done" => Job(t) = "upsert",
         \A x \in LockIds : mode[x][t] \in {"none", "read", "write"}
  PROVE  ThreadFits(t)'
<1>1. Current' = Current /\ Job(t)' = Job(t)
  BY DEF Current, Job
<1>2. NeedsFit(t) /\ ModesFit(t)
  BY DEF IInv, ThreadFits
<1>3. CallFits(t)'
  BY <1>1 DEF CallFits, Taking, Having, Upping, Resizing
<1>4. NeedsFit(t)'
  BY <1>1, <1>2 DEF NeedsFit, Taking, Having, Upping, Resizing
<1>5. ModesFit(t)'
  BY <1>1, <1>2 DEF ModesFit, ModeFits, Taking, Having, Upping, Resizing, Idle
<1> QED
  BY <1>3, <1>4, <1>5 DEF ThreadFits

\* What Leave does to the local variables.
LEMMA LeaveFacts ==
  ASSUME Typed, NEW t \in Threads, NEW to, Leave(t, to)
  PROVE  /\ pc'[t] = "release" /\ my'[t].then = to
         /\ my'[t].job = my[t].job /\ my'[t].hp = my[t].hp
BY DEF Leave, Goto, Set, Typed, StateTyped, Locals

\* Wherever it does so it has claimed nothing it has not got.
LEMMA QuietModes ==
  ASSUME IInv, NEW t \in Threads,
         pc[t] \in {"hold", "up1", "up2", "writing", "release"} \cup Resizing
  PROVE  \A x \in LockIds : mode[x][t] \in {"none", "read", "write"}
<1> SUFFICES ASSUME NEW x \in LockIds PROVE mode[x][t] \in {"none", "read", "write"}
  OBVIOUS
<1>1. CallFits(t) /\ NeedsFit(t) /\ ModeFits(t, x)
  BY DEF IInv, ThreadFits, ModesFit
<1>2. my[t].kind \in {"read", "write"}
  BY DEF IInv, Typed, Locals
<1>3. x[1] \in Nat /\ x[2] \in Nat
  BY DEF LockIds
<1>4. pc[t] = "hold" /\ my[t].goal = "all" =>
        my[t].array \in 1 .. Current /\ arrays[my[t].array] \in Nat /\ my[t].todo = {}
  BY <1>1, ArraysFacts, LocksAssumption DEF NeedsFit, Having, IInv, Typed
<1>5. CASE pc[t] = "hold" /\ my[t].goal = "all"
  BY <1>1, <1>3, <1>4, <1>5 DEF ModeFits, Having
<1>6. CASE pc[t] = "hold" /\ my[t].goal # "all"
  BY <1>1, <1>2, <1>6 DEF ModeFits, NeedsFit, Having, Upping
<1>7. CASE pc[t] \in {"up1", "up2", "writing"}
  BY <1>1, <1>7 DEF ModeFits, UpMode, CallFits, NeedsFit, Having, Upping
<1> QED
  BY <1>1, <1>5, <1>6, <1>7 DEF ModeFits, Resizing

\* Becomes changes what one thread has of one lock.
LEMMA BecomesFacts ==
  ASSUME Typed, NEW t \in Threads, NEW w \in LockIds, NEW m, Becomes(w, t, m)
  PROVE  \A x \in LockIds : \A u \in Threads :
           mode'[x][u] = IF x = w /\ u = t THEN m ELSE mode[x][u]
BY DEF Becomes, Typed, StateTyped

\* A thread that holds no other lock is at its first.
LEMMA HasNoneFacts ==
  ASSUME IInv, NEW t \in Threads, pc[t] \in {"lock", "enter"}, my[t].goal # "all"
  PROVE  HasNone(t) <=> my[t].todo = Inds(t)
<1>1. NeedsFit(t) /\ ModesFit(t) /\ pc[t] \in Taking
  BY DEF IInv, ThreadFits, Taking
<1>2. my[t].todo \subseteq Inds(t) /\ my[t].array \in 1 .. MaxHp + 1
  BY <1>1, ArraysFacts, PowersAssumption DEF NeedsFit, IInv, Typed
<1>3. Inds(t) \subseteq 0 .. MaxNumLocks - 1
  BY <1>1, IndsFacts DEF IInv, Typed
<1>4. /\ Wanted(t) = <<my[t].array, Wanted(t)[2]>> /\ Wanted(t)[1] = my[t].array
      /\ Wanted(t)[2] \in my[t].todo
  BY <1>1, WantedIsLock DEF IInv
<1>5. my[t].kind # "none"
  BY DEF IInv, Typed, Locals
<1>6. ASSUME NEW l \in Inds(t), l \notin my[t].todo PROVE ~HasNone(t)
  <2>1. <<my[t].array, l>> \in LockIds /\ <<my[t].array, l>> # Wanted(t)
    BY <1>2, <1>3, <1>4, <1>6 DEF LockIds
  <2>2. mode[<<my[t].array, l>>][t] = my[t].kind
    BY <1>1, <1>6, <2>1 DEF ModesFit, ModeFits, Upping, Taking
  <2> QED
    BY <1>5, <2>1, <2>2 DEF HasNone, Has
<1>7. ASSUME NEW x \in LockIds, mode[x][t] # "none", x # Wanted(t), my[t].todo = Inds(t) PROVE FALSE
  <2>1. ModeFits(t, x)
    BY <1>1 DEF ModesFit
  <2> QED
    BY <1>1, <1>7, <2>1 DEF ModeFits
<1> QED
  BY <1>2, <1>6, <1>7 DEF HasNone, Has

\* The thread is still after the same lock.
LEMMA TakesFits ==
  ASSUME IInv, NEW t \in Threads, pc[t] \in Taking, NEW to \in Taking, Goto(t, to),
         my' = my, arrays' = arrays,
         \A x \in LockIds :
           mode'[x][t] = IF x = Wanted(t) THEN WantedMode(t)' ELSE mode[x][t],
         to = "enter" => my[t].kind = "write",
         to \in {"upgrade", "upgraded", "migrating"} => my[t].kind = "read",
         to \notin {"lock", "enter"} => my[t].goal # "all",
         to = "check" => my[t].todo = Inds(t)
  PROVE  ThreadFits(t)'
<1>0. pc'[t] = to
  BY DEF Goto, IInv, Typed, StateTyped
<1>1. /\ Current' = Current /\ Inds(t)' = Inds(t) /\ Own(t)' = Own(t) /\ Job(t)' = Job(t)
      /\ Wanted(t)' = Wanted(t)
  BY DEF Current, Inds, Own, Job, Key, Wanted
<1>2. CallFits(t) /\ NeedsFit(t) /\ ModesFit(t)
  BY DEF IInv, ThreadFits
<1>3. CallFits(t)'
  BY <1>0, <1>1, <1>2 DEF CallFits, Taking, Having, Upping, Resizing
<1>4. NeedsFit(t)'
  BY <1>0, <1>1, <1>2 DEF NeedsFit, Taking, Having, Upping, Resizing
<1>5. ModesFit(t)'
  <2> SUFFICES ASSUME NEW x \in LockIds PROVE ModeFits(t, x)'
    BY DEF ModesFit
  <2>1. ModeFits(t, x)
    BY <1>2 DEF ModesFit
  <2>2. /\ Wanted(t)[1] = my[t].array /\ Wanted(t)[2] \in my[t].todo
        /\ my[t].array \in 1 .. Current /\ Wanted(t)[2] \in 0 .. arrays[my[t].array] - 1
    BY <1>2, WantedIsLock DEF IInv
  <2>3. my[t].array \in Nat /\ arrays[my[t].array] \in Nat /\ Current \in Nat
    BY <2>2, ArraysFacts, LocksAssumption DEF IInv, Typed
  <2>4. my[t].goal # "all" => Wanted(t)[2] \in Inds(t)
    BY <1>2, <2>2 DEF NeedsFit, Taking
  <2> QED
    BY <1>0, <1>1, <2>1, <2>2, <2>3, <2>4
    DEF ModeFits, Taking, Having, Upping, Resizing, Idle
<1> QED
  BY <1>3, <1>4, <1>5 DEF ThreadFits

\* A claim is recorded for the lock that was wanted, and for no other.
LEMMA ClaimFits ==
  ASSUME IInv, NEW t \in Threads, Claim(t)
  PROVE  ThreadFits(t)'
<1>1. pc[t] \in Taking /\ Wanted(t) \in LockIds
  BY WantedIsLock DEF Claim, Taking, IInv, ThreadFits
<1>2. WantedMode(t)' = "claim"
  BY DEF Claim, Goto, WantedMode, IInv, Typed, StateTyped
<1> QED
  BY <1>1, <1>2, BecomesFacts, TakesFits DEF Claim, Taking, IInv

\* The writer has its lock and compares the hashpower, or goes on to the next index.
LEMMA EnterFits ==
  ASSUME IInv, NEW t \in Threads, Enter(t)
  PROVE  ThreadFits(t)'
<1>1. /\ pc[t] \in Taking /\ Wanted(t) \in LockIds /\ my[t].kind = "write"
      /\ arrays' = arrays
      /\ \A x \in LockIds : mode'[x][t] = IF x = Wanted(t) THEN "write" ELSE mode[x][t]
  BY WantedIsLock, BecomesFacts DEF Enter, Taking, IInv, ThreadFits, CallFits
<1>2. CASE my[t].goal # "all" /\ HasNone(t)
  <2>1. WantedMode(t)' = "write"
    BY <1>1, <1>2 DEF Enter, Goto, WantedMode, IInv, Typed, StateTyped
  <2>2. my[t].todo = Inds(t)
    BY <1>2, HasNoneFacts DEF Enter
  <2> QED
    BY <1>1, <1>2, <2>1, <2>2, TakesFits DEF Enter, Taking
<1>3. CASE ~(my[t].goal # "all" /\ HasNone(t))
  BY <1>1, <1>3, AdvanceFits DEF Enter
<1> QED
  BY <1>2, <1>3

\* A reader that has its share may have to migrate first.
LEMMA AfterShareFits ==
  ASSUME IInv, NEW t \in Threads, pc[t] \in {"lock", "check"}, AfterShare(t), arrays' = arrays,
         my[t].kind = "read", my[t].goal # "all",
         \A x \in LockIds : mode'[x][t] = IF x = Wanted(t) THEN "read" ELSE mode[x][t]
  PROVE  ThreadFits(t)'
<1>1. CASE migrated[Wanted(t)]
  BY <1>1, AdvanceFits DEF AfterShare, Taking
<1>2. CASE ~migrated[Wanted(t)]
  <2>1. WantedMode(t)' = "read"
    BY <1>2 DEF AfterShare, Goto, WantedMode, IInv, Typed, StateTyped
  <2> QED
    BY <1>2, <2>1, TakesFits DEF AfterShare, Taking
<1> QED
  BY <1>1, <1>2

\* The same of a reader, which may have to migrate first.
LEMMA ShareFits ==
  ASSUME IInv, NEW t \in Threads, Share(t)
  PROVE  ThreadFits(t)'
<1>1. /\ pc[t] = "lock" /\ Wanted(t) \in LockIds /\ my[t].kind = "read"
      /\ my[t].goal # "all" /\ arrays' = arrays
      /\ \A x \in LockIds : mode'[x][t] = IF x = Wanted(t) THEN "read" ELSE mode[x][t]
  BY WantedIsLock, BecomesFacts DEF Share, Taking, IInv, ThreadFits, CallFits
<1>2. CASE HasNone(t)
  <2>1. WantedMode(t)' = "read"
    BY <1>1, <1>2 DEF Share, Goto, WantedMode, IInv, Typed, StateTyped
  <2>2. my[t].todo = Inds(t)
    BY <1>1, <1>2, HasNoneFacts
  <2> QED
    BY <1>1, <1>2, <2>1, <2>2, TakesFits DEF Share, Taking
<1>3. CASE ~HasNone(t)
  BY <1>1, <1>3, AfterShareFits DEF Share
<1> QED
  BY <1>2, <1>3

\* With the hashpower as it was the first lock stays, else it is given back.
LEMMA CheckHashpowerFits ==
  ASSUME IInv, NEW t \in Threads, CheckHashpower(t)
  PROVE  ThreadFits(t)'
<1>1. /\ pc[t] = "check" /\ pc[t] \in Taking /\ Wanted(t) \in LockIds /\ my[t].goal # "all"
      /\ my[t].todo = Inds(t) /\ arrays' = arrays /\ WantedMode(t) = my[t].kind
      /\ CallFits(t) /\ NeedsFit(t) /\ ModesFit(t)
  BY WantedIsLock DEF CheckHashpower, Taking, IInv, ThreadFits, CallFits, NeedsFit, WantedMode
<1>2. /\ Wanted(t)[1] = my[t].array /\ Wanted(t)[2] \in my[t].todo
      /\ mode[Wanted(t)][t] = my[t].kind
  BY <1>1, WantedIsLock DEF IInv, ModesFit, ModeFits
<1>3. CASE hp = my[t].hp
  <2>1. mode' = mode
    BY <1>3 DEF CheckHashpower
  <2>2. CASE my[t].kind = "write"
    BY <1>1, <1>2, <1>3, <2>1, <2>2, AdvanceFits DEF CheckHashpower
  <2>3. CASE my[t].kind # "write"
    <3>1. my[t].kind = "read"
      BY <2>3 DEF IInv, Typed, Locals
    <3> QED
      BY <1>1, <1>2, <1>3, <2>1, <3>1, AfterShareFits DEF CheckHashpower
  <2> QED
    BY <2>2, <2>3
<1>4. CASE hp # my[t].hp
  <2>1. /\ pc'[t] = "snapshot" /\ my' = my
        /\ \A x \in LockIds : mode'[x][t] = IF x = Wanted(t) THEN "none" ELSE mode[x][t]
    BY <1>1, <1>4, BecomesFacts DEF CheckHashpower, Goto, IInv, Typed, StateTyped
  <2>2. Current' = Current /\ Job(t)' = Job(t)
    BY <1>1, <2>1 DEF Current, Job
  <2>3. Job(t) \in KeyJobs
    BY <1>1 DEF CallFits, Taking, IInv, Typed, Locals, KeyJobs
  <2>4. CallFits(t)'
    BY <2>1, <2>2, <2>3 DEF CallFits, Taking, Having, Upping, Resizing
  <2>5. NeedsFit(t)'
    BY <1>1, <2>1, <2>2 DEF NeedsFit, Taking, Having, Upping, Resizing
  <2>6. ASSUME NEW x \in LockIds PROVE mode'[x][t] = "none"
    <3>1. ModeFits(t, x)
      BY <1>1 DEF ModesFit
    <3> QED
      BY <1>1, <2>1, <3>1 DEF ModeFits
  <2>7. ModesFit(t)'
    BY <2>1, <2>6 DEF ModesFit, ModeFits, Taking, Having, Upping, Resizing
  <2> QED
    BY <2>4, <2>5, <2>7 DEF ThreadFits
<1> QED
  BY <1>3, <1>4

\* A reader that upgrades keeps its share until it has the claim, or has nothing.
LEMMA UpgradeToMigrateFits ==
  ASSUME IInv, NEW t \in Threads, UpgradeToMigrate(t)
  PROVE  ThreadFits(t)'
<1>1. /\ pc[t] \in Taking /\ Wanted(t) \in LockIds /\ my[t].kind = "read" /\ my[t].goal # "all"
  BY WantedIsLock DEF UpgradeToMigrate, Taking, IInv, ThreadFits, CallFits
<1>2. CASE Goto(t, "upgraded") /\ Becomes(Wanted(t), t, "upgrade")
  <2>1. WantedMode(t)' = "upgrade"
    BY <1>2 DEF Goto, WantedMode, IInv, Typed, StateTyped
  <2> QED
    BY <1>1, <1>2, <2>1, BecomesFacts, TakesFits DEF UpgradeToMigrate, Taking, IInv
<1>3. CASE Goto(t, "lock") /\ Becomes(Wanted(t), t, "none")
  <2>1. WantedMode(t)' = "none"
    BY <1>3 DEF Goto, WantedMode, IInv, Typed, StateTyped
  <2> QED
    BY <1>1, <1>3, <2>1, BecomesFacts, TakesFits DEF UpgradeToMigrate, Taking, IInv
<1> QED
  BY <1>2, <1>3 DEF UpgradeToMigrate

\* The claimant of an upgrade becomes the writer.
LEMMA EnterToMigrateFits ==
  ASSUME IInv, NEW t \in Threads, EnterToMigrate(t)
  PROVE  ThreadFits(t)'
<1>1. /\ pc[t] \in Taking /\ Wanted(t) \in LockIds /\ my[t].kind = "read" /\ my[t].goal # "all"
  BY WantedIsLock DEF EnterToMigrate, Taking, IInv, ThreadFits, CallFits
<1>2. WantedMode(t)' = "write"
  BY DEF EnterToMigrate, Goto, WantedMode, IInv, Typed, StateTyped
<1> QED
  BY <1>1, <1>2, BecomesFacts, TakesFits DEF EnterToMigrate, Taking, IInv

\* degradeLock leaves a reader with a share, as if it had found the lock migrated.
LEMMA MigrateAsReaderFits ==
  ASSUME IInv, NEW t \in Threads, MigrateAsReader(t)
  PROVE  ThreadFits(t)'
<1>1. /\ pc[t] \in Taking /\ Wanted(t) \in LockIds /\ my[t].kind = "read"
  BY WantedIsLock DEF MigrateAsReader, Taking, IInv, ThreadFits, CallFits
<1> QED
  BY <1>1, BecomesFacts, AdvanceFits DEF MigrateAsReader, IInv

\* A writer that migrates keeps its locks.
LEMMA MigrateAsWriterFits ==
  ASSUME IInv, NEW t \in Threads, MigrateAsWriter(t)
  PROVE  ThreadFits(t)'
<1>0. /\ pc[t] = "migrate" /\ pc'[t] = "hold" /\ my' = my /\ mode' = mode /\ arrays' = arrays
  BY DEF MigrateAsWriter, Goto, IInv, Typed, StateTyped
<1>1. /\ Current' = Current /\ Inds(t)' = Inds(t) /\ Own(t)' = Own(t) /\ Job(t)' = Job(t)
  BY <1>0 DEF Current, Inds, Own, Job, Key
<1>2. CallFits(t) /\ NeedsFit(t) /\ ModesFit(t)
  BY DEF IInv, ThreadFits
<1>3. CallFits(t)'
  BY <1>0, <1>1, <1>2 DEF CallFits, Taking, Having, Upping, Resizing
<1>4. NeedsFit(t)'
  BY <1>0, <1>1, <1>2 DEF NeedsFit, Taking, Having, Upping, Resizing
<1>5. ModesFit(t)'
  BY <1>0, <1>1, <1>2 DEF ModesFit, ModeFits, Taking, Having, Upping, Resizing, Idle
<1> QED
  BY <1>3, <1>4, <1>5 DEF ThreadFits

\* lock_all goes on with the next array.
LEMMA NextArrayFits ==
  ASSUME IInv, NEW t \in Threads, NextArray(t)
  PROVE  ThreadFits(t)'
<1>0. /\ pc[t] = "hold" /\ my[t].goal = "all" /\ my[t].array < Current
      /\ pc'[t] = "lock" /\ mode' = mode /\ arrays' = arrays
      /\ my'[t].array = my[t].array + 1
      /\ my'[t].todo = 0 .. arrays[my[t].array + 1] - 1
      /\ my'[t].job = my[t].job /\ my'[t].goal = my[t].goal /\ my'[t].kind = my[t].kind
      /\ my'[t].hp = my[t].hp
  BY DEF NextArray, Goto, Set, IInv, Typed, StateTyped, Locals, lockVars
<1>1. Current' = Current /\ Job(t)' = Job(t)
  BY <1>0 DEF Current, Job
<1>2. CallFits(t) /\ NeedsFit(t) /\ ModesFit(t)
  BY DEF IInv, ThreadFits
<1>3. CallFits(t)'
  BY <1>0, <1>1, <1>2 DEF CallFits, Taking, Having, Upping, Resizing
<1>4. /\ my[t].array \in 1 .. Current /\ Current \in Nat /\ my[t].todo = {}
      /\ arrays[my[t].array] \in Nat /\ arrays[my[t].array + 1] \in Nat \ {0}
  <2>1. my[t].array \in 1 .. Current /\ my[t].todo = {}
    BY <1>0, <1>2 DEF NeedsFit, Having
  <2>2. Current \in Nat /\ my[t].array + 1 \in 1 .. Current
    BY <1>0, <2>1, ArraysFacts, PowersAssumption DEF IInv, Typed
  <2> QED
    BY <2>1, <2>2, ArraysFacts, LocksAssumption DEF IInv, Typed
<1>5. 0 \in my'[t].todo
  BY <1>0, <1>4
<1>6. NeedsFit(t)'
  BY <1>0, <1>1, <1>2, <1>4, <1>5 DEF NeedsFit, Taking, Having, Upping, Resizing
<1>7. ModesFit(t)'
  <2> SUFFICES ASSUME NEW x \in LockIds PROVE ModeFits(t, x)'
    BY DEF ModesFit
  <2>1. ModeFits(t, x) /\ x[1] \in Nat /\ x[2] \in Nat
    BY <1>2 DEF ModesFit, LockIds
  <2>2. /\ x[1] > my[t].array => mode[x][t] = "none"
        /\ x[1] <= my[t].array => mode[x][t] \in {"none", "write"}
    BY <1>0, <1>4, <2>1 DEF ModeFits, Having
  <2>3. WantedMode(t)' = "none"
    BY <1>0 DEF WantedMode
  <2> QED
    BY <1>0, <1>1, <1>4, <2>1, <2>2, <2>3 DEF ModeFits, Taking, Having, Upping, Resizing, Idle
<1> QED
  BY <1>3, <1>6, <1>7 DEF ThreadFits

\* Giving a lock back ends where the operation goes on, with no lock left.
LEMMA ReleaseFits ==
  ASSUME IInv, NEW t \in Threads, Release(t)
  PROVE  ThreadFits(t)'
<1>0. pc[t] = "release" /\ arrays' = arrays
  BY DEF Release
<1>1. PICK y \in LockIds :
        /\ \A x \in LockIds : mode'[x][t] = IF x = y THEN "none" ELSE mode[x][t]
        /\ \/ /\ Has(t) = {y} /\ Goto(t, my[t].then)
              /\ IF my[t].then = "done" THEN Set(t, Fresh(my[t].job)) ELSE my' = my
           \/ pc' = pc /\ my' = my
  BY BecomesFacts DEF Release, ReleasedNext, Has, IInv
<1>2. CallFits(t) /\ NeedsFit(t) /\ ModesFit(t)
  BY DEF IInv, ThreadFits
<1>3. Current' = Current
  BY <1>0 DEF Current
<1>4. CASE Has(t) = {y} /\ Goto(t, my[t].then) /\ my[t].then = "done" /\ Set(t, Fresh(my[t].job))
  <2>1. pc'[t] = "done" /\ my'[t].hp = 0
    BY <1>4 DEF Goto, Set, Fresh, IInv, Typed, StateTyped
  <2>2. LockCount(0) <= arrays[Current]
    BY SizeFacts, ArraysFacts, PowersAssumption, LocksAssumption DEF IInv, ArraysFit, Typed, StateTyped
  <2>3. \A x \in LockIds : mode'[x][t] = "none"
    BY <1>1, <1>4 DEF Has
  <2> QED
    BY <1>0, <1>3, <2>1, <2>2, <2>3
    DEF ThreadFits, CallFits, NeedsFit, ModesFit, ModeFits, Taking, Having, Upping, Resizing
<1>5. CASE Has(t) = {y} /\ Goto(t, my[t].then) /\ my[t].then # "done" /\ my' = my
  <2>1. pc'[t] \in {"snapshot", "cuckoo"} /\ Job(t) = "upsert"
    BY <1>0, <1>2, <1>5 DEF CallFits, Goto, IInv, Typed, StateTyped, Locals
  <2>2. \A x \in LockIds : mode'[x][t] = "none"
    BY <1>1, <1>5 DEF Has
  <2>3. Job(t)' = Job(t)
    BY <1>5 DEF Job
  <2> QED
    BY <1>0, <1>2, <1>3, <1>5, <2>1, <2>2, <2>3
    DEF ThreadFits, CallFits, NeedsFit, ModesFit, ModeFits, Taking, Having, Upping, Resizing, KeyJobs
<1>6. CASE pc' = pc /\ my' = my
  <2>1. Job(t)' = Job(t)
    BY <1>6 DEF Job
  <2> QED
    BY <1>0, <1>1, <1>2, <1>3, <1>6, <2>1
    DEF ThreadFits, CallFits, NeedsFit, ModesFit, ModeFits, Taking, Having, Upping, Resizing, Idle
<1> QED
  BY <1>1, <1>4, <1>5, <1>6

\* An operation that has what it wanted, or a resize that is done, or refused.
LEMMA LeavingFits ==
  ASSUME IInv, NEW t \in Threads,
         \/ FinishOperation(t) \/ FinishWriting(t) \/ RunCuckoo(t) \/ LeavePath(t)
         \/ LeaveLast(t) \/ ResizeRejected(t) \/ GrowBuckets(t) \/ ReplaceBuckets(t)
         \/ ClearTable(t)
  PROVE  ThreadFits(t)'
<1>1. pc[t] \in {"hold", "up1", "up2", "writing", "release"} \cup Resizing
  BY DEF FinishOperation, FinishWriting, RunCuckoo, LeavePath, LeaveLast, ResizeRejected,
         GrowBuckets, ReplaceBuckets, ClearTable, OwnsTable, Resizing
<1>2. CallFits(t)
  BY DEF IInv, ThreadFits
<1>3. arrays' = arrays /\ mode' = mode
  BY DEF FinishOperation, FinishWriting, RunCuckoo, LeavePath, LeaveLast, ResizeRejected,
         GrowBuckets, ReplaceBuckets, ClearTable, lockVars
<1>4. \E to \in {"done", "snapshot", "cuckoo"} :
        /\ pc'[t] = "release" /\ my'[t].then = to /\ my'[t].job = my[t].job /\ my'[t].hp = my[t].hp
        /\ to # "done" => Job(t) = "upsert"
  <2>1. CASE FinishOperation(t)
    BY <2>1, LeaveFacts DEF FinishOperation, IInv
  <2>2. CASE FinishWriting(t)
    BY <2>2, LeaveFacts DEF FinishWriting, IInv
  <2>3. CASE RunCuckoo(t)
    BY <2>3 DEF RunCuckoo, Goto, Set, IInv, Typed, StateTyped, Locals
  <2>4. CASE LeavePath(t)
    BY <1>2, <2>4, LeaveFacts DEF LeavePath, IInv, CallFits, Having
  <2>5. CASE LeaveLast(t)
    BY <1>2, <2>5, LeaveFacts DEF LeaveLast, IInv, CallFits, Having
  <2>6. CASE ResizeRejected(t)
    BY <2>6, LeaveFacts DEF ResizeRejected, IInv
  <2>7. CASE GrowBuckets(t)
    BY <1>2, <2>7, LeaveFacts DEF GrowBuckets, IInv, CallFits
  <2>8. CASE ReplaceBuckets(t)
    BY <2>8, LeaveFacts DEF ReplaceBuckets, IInv
  <2>9. CASE ClearTable(t)
    BY <2>9, LeaveFacts DEF ClearTable, IInv
  <2> QED
    BY <2>1, <2>2, <2>3, <2>4, <2>5, <2>6, <2>7, <2>8, <2>9
<1> QED
  BY <1>1, <1>3, <1>4, LeaveFits, QuietModes

\* run_cuckoo asks for the locks of a bucket, of two, of three, or for all.
LEMMA AskForFits ==
  ASSUME IInv, NEW t \in Threads, NEW goal \in {"path", "last", "all"},
         NEW kind \in {"read", "write"}, goal # "path" => kind = "write",
         NEW buckets, goal # "all" => buckets # {} /\ buckets \subseteq AllBuckets(t),
         AskFor(t, goal, kind, buckets)
  PROVE  ThreadFits(t)'
<1>0. /\ pc[t] = "cuckoo" /\ pc'[t] = "array" /\ mode' = mode /\ arrays' = arrays
      /\ my'[t].goal = goal /\ my'[t].kind = kind /\ my'[t].uses = buckets
      /\ my'[t].job = my[t].job /\ my'[t].hp = my[t].hp
  BY DEF AskFor, Goto, Set, IInv, Typed, StateTyped, Locals, lockVars
<1>1. Current' = Current /\ Job(t)' = Job(t)
  BY <1>0 DEF Current, Job
<1>2. CallFits(t) /\ NeedsFit(t) /\ ModesFit(t)
  BY DEF IInv, ThreadFits
<1>3. CallFits(t)'
  BY <1>0, <1>1, <1>2 DEF CallFits, Taking, Having, Upping, Resizing
<1>4. NeedsFit(t)'
  BY <1>0, <1>1, <1>2 DEF NeedsFit, AllBuckets, Taking, Having, Upping, Resizing
<1>5. ModesFit(t)'
  BY <1>0, <1>1, <1>2 DEF ModesFit, ModeFits, Taking, Having, Upping, Resizing, Idle
<1> QED
  BY <1>3, <1>4, <1>5 DEF ThreadFits

\* So every lock of run_cuckoo is asked for with none in hand.
LEMMA AskingFits ==
  ASSUME IInv, NEW t \in Threads,
         SearchBucket(t) \/ Displace(t) \/ DisplaceLast(t) \/ TableFull(t)
  PROVE  ThreadFits(t)'
<1>1. pc[t] = "cuckoo" /\ Job(t) = "upsert"
  BY DEF SearchBucket, Displace, DisplaceLast, TableFull, AskFor, IInv, ThreadFits, CallFits
<1>2. Key(t) \in Keys /\ my[t].hp \in 0 .. MaxHp
  BY <1>1 DEF IInv, Typed, Locals, Jobs, Job, Key
<1>3. Own(t) # {} /\ Own(t) \subseteq AllBuckets(t)
  BY <1>2, BucketsFacts DEF Own, AllBuckets
<1>4. CASE SearchBucket(t)
  BY <1>4, AskForFits DEF SearchBucket
<1>5. CASE Displace(t)
  BY <1>5, AskForFits DEF Displace
<1>6. CASE DisplaceLast(t)
  <2>1. CASE AskFor(t, "last", "write", Own(t))
    BY <1>3, <2>1, AskForFits
  <2>2. CASE \E to \in AllBuckets(t) : AskFor(t, "last", "write", Own(t) \cup {to})
    BY <1>3, <2>2, AskForFits
  <2> QED
    BY <1>6, <2>1, <2>2 DEF DisplaceLast
<1>7. CASE TableFull(t)
  BY <1>7, AskForFits DEF TableFull
<1> QED
  BY <1>4, <1>5, <1>6, <1>7

\* The two locks of uprase_fn.
LEMMA UppingFacts ==
  ASSUME IInv, NEW t \in Threads, pc[t] \in {"hold"} \cup Upping,
         my[t].goal = "op", Job(t) = "upsert"
  PROVE  /\ my[t].todo = {} /\ my[t].kind = "read" /\ my[t].uses = Own(t)
         /\ Inds(t) = {LowLock(t)[2], HighLock(t)[2]}
         /\ my[t].array \in 1 .. Current
         /\ LowLock(t) \in LockIds /\ LowLock(t)[1] = my[t].array
         /\ HighLock(t) \in LockIds /\ HighLock(t)[1] = my[t].array
         /\ LowLock(t) = <<my[t].array, LowLock(t)[2]>>
         /\ HighLock(t) = <<my[t].array, HighLock(t)[2]>>
<1>1. CallFits(t) /\ NeedsFit(t) /\ pc[t] \in Having
  BY DEF IInv, ThreadFits, Having
<1>2. my[t].todo = {} /\ my[t].uses = Own(t) /\ my[t].array \in 1 .. Current
  BY <1>1 DEF NeedsFit
<1>3. my[t].kind = "read"
  BY <1>1 DEF CallFits, IInv, Typed, Locals
<1>4. Key(t) \in Keys /\ my[t].hp \in 0 .. MaxHp
  BY DEF IInv, Typed, Locals, Jobs, Job, Key
<1>5. /\ Inds(t) = {LowLock(t)[2], HighLock(t)[2]}
      /\ LowLock(t) = <<my[t].array, LowLock(t)[2]>>
      /\ HighLock(t) = <<my[t].array, HighLock(t)[2]>>
  BY <1>2, <1>4, OwnLocksFacts DEF Inds
<1>6. Inds(t) \subseteq 0 .. MaxNumLocks - 1
  BY <1>1, IndsFacts DEF IInv, Typed
<1>7. my[t].array \in 1 .. MaxHp + 1
  BY <1>2, ArraysFacts, PowersAssumption DEF IInv, Typed
<1>8. <<my[t].array, LowLock(t)[2]>> \in LockIds /\ <<my[t].array, HighLock(t)[2]>> \in LockIds
  BY <1>5, <1>6, <1>7 DEF LockIds
<1> QED
  BY <1>2, <1>3, <1>5, <1>8

\* uprase_fn starts to upgrade with shares of both its locks.
LEMMA ChooseTargetFits ==
  ASSUME IInv, NEW t \in Threads, ChooseTarget(t)
  PROVE  ThreadFits(t)'
<1>0. /\ pc[t] = "hold" /\ my[t].goal = "op" /\ Job(t) = "upsert" /\ pc'[t] = "up1"
      /\ mode' = mode /\ arrays' = arrays /\ my'[t].target \in Own(t)
      /\ my'[t].goal = my[t].goal /\ my'[t].kind = my[t].kind /\ my'[t].uses = my[t].uses
      /\ my'[t].job = my[t].job /\ my'[t].hp = my[t].hp /\ my'[t].array = my[t].array
      /\ my'[t].todo = my[t].todo
  BY DEF ChooseTarget, Goto, Set, IInv, Typed, StateTyped, Locals, lockVars
<1>1. /\ Current' = Current /\ Inds(t)' = Inds(t) /\ Own(t)' = Own(t) /\ Job(t)' = Job(t)
  BY <1>0 DEF Current, Inds, Own, Job, Key
<1>2. CallFits(t) /\ NeedsFit(t) /\ ModesFit(t) /\ my[t].kind = "read"
  BY <1>0, UppingFacts DEF IInv, ThreadFits
<1>3. CallFits(t)'
  BY <1>0, <1>1, <1>2 DEF CallFits, Taking, Having, Upping, Resizing, KeyJobs
<1>4. NeedsFit(t)'
  BY <1>0, <1>1, <1>2 DEF NeedsFit, Taking, Having, Upping, Resizing
<1>5. ModesFit(t)'
  BY <1>0, <1>1, <1>2 DEF ModesFit, ModeFits, UpMode, Taking, Having, Upping, Resizing, Idle
<1> QED
  BY <1>3, <1>4, <1>5 DEF ThreadFits

\* A step within try_upgrade that changes one of the two locks.
LEMMA UppingFits ==
  ASSUME IInv, NEW t \in Threads, pc[t] \in Upping,
         NEW to \in Upping, Goto(t, to), my' = my, arrays' = arrays,
         NEW w \in {LowLock(t), HighLock(t)}, NEW m,
         \A x \in LockIds : mode'[x][t] = IF x = w THEN m ELSE mode[x][t],
         to \in {"up2", "up2_wait"} =>
           LowLock(t) # HighLock(t) /\ HighLock(t)[2] = LockInd(my[t].target),
         \A x \in LockIds :
           ModeFits(t, x) /\ x[1] = my[t].array /\ x[2] \in Inds(t) => UpMode(t, x)'
  PROVE  ThreadFits(t)'
<1>0. pc'[t] = to
  BY DEF Goto, IInv, Typed, StateTyped
<1>1. /\ Current' = Current /\ Inds(t)' = Inds(t) /\ Own(t)' = Own(t) /\ Job(t)' = Job(t)
      /\ LowLock(t)' = LowLock(t) /\ HighLock(t)' = HighLock(t)
  BY DEF Current, Inds, Own, Job, Key, LowLock, HighLock
<1>2. CallFits(t) /\ NeedsFit(t) /\ ModesFit(t) /\ my[t].goal = "op" /\ Job(t) = "upsert"
  BY DEF IInv, ThreadFits, CallFits
<1>3. CallFits(t)'
  BY <1>0, <1>1, <1>2 DEF CallFits, Taking, Having, Upping, Resizing
<1>4. NeedsFit(t)'
  BY <1>0, <1>1, <1>2 DEF NeedsFit, Taking, Having, Upping, Resizing
<1>5. /\ w[1] = my[t].array /\ w[2] \in Inds(t) /\ my[t].array \in 1 .. Current
      /\ my[t].todo = {} /\ Current \in Nat
  BY <1>2, UppingFacts, ArraysFacts DEF IInv, Typed
<1>6. ModesFit(t)'
  <2> SUFFICES ASSUME NEW x \in LockIds PROVE ModeFits(t, x)'
    BY DEF ModesFit
  <2>1. ModeFits(t, x)
    BY <1>2 DEF ModesFit
  <2>2. /\ x[1] > Current => mode'[x][t] = "none"
        /\ x[1] # my[t].array \/ x[2] \notin Inds(t) => mode'[x][t] = "none"
    BY <1>2, <1>5, <2>1 DEF ModeFits, Having
  <2> QED
    BY <1>0, <1>1, <1>2, <1>5, <2>1, <2>2
    DEF ModeFits, Taking, Having, Upping, Resizing, Idle
<1> QED
  BY <1>3, <1>4, <1>6 DEF ThreadFits

\* The upgrade of the lower lock.
LEMMA UpgradeLowFits ==
  ASSUME IInv, NEW t \in Threads, UpgradeLow(t)
  PROVE  ThreadFits(t)'
<1> DEFINE next == IF LockInd(my[t].target) = LowLock(t)[2] THEN "writing" ELSE "up2"
<1>1. /\ pc[t] \in {"up1", "up1_wait"} /\ pc[t] \in Upping /\ arrays' = arrays
      /\ my[t].goal = "op" /\ Job(t) = "upsert" /\ my[t].target \in Own(t) /\ CallFits(t)
  BY DEF UpgradeLow, TryUpgrade, IInv, ThreadFits, CallFits, Upping
<1>2. /\ my[t].todo = {} /\ Inds(t) = {LowLock(t)[2], HighLock(t)[2]} /\ LowLock(t) \in LockIds
      /\ LowLock(t) = <<my[t].array, LowLock(t)[2]>>
      /\ HighLock(t) = <<my[t].array, HighLock(t)[2]>>
      /\ my[t].uses = Own(t)
  BY <1>1, UppingFacts
<1>3. LockInd(my[t].target) \in Inds(t)
  BY <1>1, <1>2 DEF Inds
<1>4. \A x \in LockIds : x[1] = my[t].array /\ x[2] = LowLock(t)[2] <=> x = LowLock(t)
  BY <1>2 DEF LockIds
<1>5. \A x \in LockIds : ModeFits(t, x) /\ x[1] = my[t].array /\ x[2] \in Inds(t) => UpMode(t, x)
  BY <1>1, <1>2 DEF ModeFits, Having
<1>6. CASE pc[t] = "up1" /\ Becomes(LowLock(t), t, "upgrade") /\ Goto(t, "up1_wait") /\ my' = my
  <2>1. \A x \in LockIds : mode'[x][t] = IF x = LowLock(t) THEN "upgrade" ELSE mode[x][t]
    BY <1>2, <1>6, BecomesFacts DEF IInv
  <2>2. LowLock(t)' = LowLock(t) /\ pc'[t] = "up1_wait"
    BY <1>6 DEF LowLock, Own, Key, Goto, IInv, Typed, StateTyped
  <2>3. \A x \in LockIds :
          ModeFits(t, x) /\ x[1] = my[t].array /\ x[2] \in Inds(t) => UpMode(t, x)'
    BY <1>5, <1>6, <2>1, <2>2 DEF UpMode
  <2> QED
    BY <1>1, <1>6, <2>1, <2>3, UppingFits DEF Upping
<1>7. CASE pc[t] = "up1" /\ Leave(t, "snapshot") /\ mode' = mode
  BY <1>1, <1>7, LeaveFacts, LeaveFits, QuietModes DEF IInv
<1>8. CASE pc[t] = "up1_wait" /\ Becomes(LowLock(t), t, "write") /\ Goto(t, next) /\ my' = my
  <2>1. \A x \in LockIds : mode'[x][t] = IF x = LowLock(t) THEN "write" ELSE mode[x][t]
    BY <1>2, <1>8, BecomesFacts DEF IInv
  <2>2. LowLock(t)' = LowLock(t) /\ pc'[t] = next /\ next \in {"writing", "up2"}
    BY <1>8 DEF LowLock, Own, Key, Goto, IInv, Typed, StateTyped
  <2>3. \A x \in LockIds :
          ModeFits(t, x) /\ x[1] = my[t].array /\ x[2] \in Inds(t) => UpMode(t, x)'
    BY <1>4, <1>5, <1>8, <2>1, <2>2 DEF UpMode
  <2>4. next = "up2" => LowLock(t) # HighLock(t) /\ HighLock(t)[2] = LockInd(my[t].target)
    BY <1>2, <1>3
  <2> HIDE DEF next
  <2> QED
    BY <1>1, <1>8, <2>1, <2>2, <2>3, <2>4, UppingFits DEF Upping
<1> QED
  BY <1>1, <1>6, <1>7, <1>8 DEF UpgradeLow, TryUpgrade

\* The upgrade of the higher lock, with the lower one in hand as a writer.
LEMMA UpgradeHighFits ==
  ASSUME IInv, NEW t \in Threads, UpgradeHigh(t)
  PROVE  ThreadFits(t)'
<1>1. /\ pc[t] \in {"up2", "up2_wait"} /\ pc[t] \in Upping /\ arrays' = arrays
      /\ my[t].goal = "op" /\ Job(t) = "upsert" /\ my[t].target \in Own(t)
      /\ LowLock(t) # HighLock(t) /\ HighLock(t)[2] = LockInd(my[t].target)
  BY DEF UpgradeHigh, TryUpgrade, IInv, ThreadFits, CallFits, Upping
<1>2. /\ my[t].todo = {} /\ Inds(t) = {LowLock(t)[2], HighLock(t)[2]} /\ HighLock(t) \in LockIds
      /\ LowLock(t) = <<my[t].array, LowLock(t)[2]>>
      /\ HighLock(t) = <<my[t].array, HighLock(t)[2]>>
  BY <1>1, UppingFacts
<1>3. \A x \in LockIds : x[1] = my[t].array /\ x[2] \in Inds(t) => x = LowLock(t) \/ x = HighLock(t)
  BY <1>2 DEF LockIds
<1>5. \A x \in LockIds : ModeFits(t, x) /\ x[1] = my[t].array /\ x[2] \in Inds(t) => UpMode(t, x)
  BY <1>1, <1>2 DEF ModeFits, Having
<1>6. CASE pc[t] = "up2" /\ Becomes(HighLock(t), t, "upgrade") /\ Goto(t, "up2_wait") /\ my' = my
  <2>1. \A x \in LockIds : mode'[x][t] = IF x = HighLock(t) THEN "upgrade" ELSE mode[x][t]
    BY <1>2, <1>6, BecomesFacts DEF IInv
  <2>2. HighLock(t)' = HighLock(t) /\ LowLock(t)' = LowLock(t) /\ pc'[t] = "up2_wait"
    BY <1>6 DEF HighLock, LowLock, Own, Key, Goto, IInv, Typed, StateTyped
  <2>3. \A x \in LockIds :
          ModeFits(t, x) /\ x[1] = my[t].array /\ x[2] \in Inds(t) => UpMode(t, x)'
    BY <1>1, <1>3, <1>5, <1>6, <2>1, <2>2 DEF UpMode
  <2> QED
    BY <1>1, <1>6, <2>1, <2>3, UppingFits DEF Upping
<1>7. CASE pc[t] = "up2" /\ Leave(t, "snapshot") /\ mode' = mode
  BY <1>1, <1>7, LeaveFacts, LeaveFits, QuietModes DEF IInv
<1>8. CASE pc[t] = "up2_wait" /\ Becomes(HighLock(t), t, "write") /\ Goto(t, "writing") /\ my' = my
  <2>1. \A x \in LockIds : mode'[x][t] = IF x = HighLock(t) THEN "write" ELSE mode[x][t]
    BY <1>2, <1>8, BecomesFacts DEF IInv
  <2>2. HighLock(t)' = HighLock(t) /\ pc'[t] = "writing"
    BY <1>8 DEF HighLock, Own, Key, Goto, IInv, Typed, StateTyped
  <2>3. \A x \in LockIds :
          ModeFits(t, x) /\ x[1] = my[t].array /\ x[2] \in Inds(t) => UpMode(t, x)'
    BY <1>3, <1>5, <1>8, <2>1, <2>2 DEF UpMode
  <2> QED
    BY <1>1, <1>8, <2>1, <2>3, UppingFits DEF Upping
<1> QED
  BY <1>1, <1>6, <1>7, <1>8 DEF UpgradeHigh, TryUpgrade

-----------------------------------------------------------------------------
(* Resizing.                                                               *)

\* Who owns the table has all the locks of the current array.
LEMMA OwnerFacts ==
  ASSUME IInv, NEW t \in Threads, OwnsTable(t) \/ pc[t] \in Resizing
  PROVE  /\ \A l \in 0 .. arrays[Current] - 1 :
              <<Current, l>> \in LockIds /\ mode[<<Current, l>>][t] = "write"
         /\ 0 \in 0 .. arrays[Current] - 1
         /\ \A x \in LockIds : mode[x][t] \in {"none", "write"}
         /\ my[t].goal = "all"
<1>1. CallFits(t) /\ NeedsFit(t) /\ ModesFit(t)
  BY DEF IInv, ThreadFits
<1>2. /\ Current \in 1 .. MaxHp + 1 /\ arrays[Current] \in 1 .. MaxNumLocks
      /\ arrays[Current] \in Nat \ {0} /\ Current \in Nat
  BY ArraysFacts, PowersAssumption, LocksAssumption DEF IInv, Typed
<1>3. \A l \in 0 .. arrays[Current] - 1 : <<Current, l>> \in LockIds
  BY <1>2, LocksAssumption DEF LockIds
<1>4. CASE OwnsTable(t)
  <2>1. /\ pc[t] = "hold" /\ my[t].goal = "all" /\ my[t].array = Current /\ my[t].todo = {}
    BY <1>1, <1>4 DEF OwnsTable, NeedsFit, Having
  <2>2. ASSUME NEW l \in 0 .. arrays[Current] - 1 PROVE mode[<<Current, l>>][t] = "write"
    <3>1. ModeFits(t, <<Current, l>>)
      BY <1>1, <1>3 DEF ModesFit
    <3> QED
      BY <2>1, <3>1 DEF ModeFits, Having
  <2>3. ASSUME NEW x \in LockIds PROVE mode[x][t] \in {"none", "write"}
    <3>1. ModeFits(t, x) /\ x[1] \in Nat /\ x[2] \in Nat
      BY <1>1 DEF ModesFit, LockIds
    <3> QED
      BY <1>2, <2>1, <3>1 DEF ModeFits, Having
  <2> QED
    BY <1>2, <1>3, <2>1, <2>2, <2>3
<1>5. CASE pc[t] \in Resizing
  BY <1>1, <1>2, <1>3, <1>5 DEF ModesFit, ModeFits, ArrayLocks, CallFits
<1> QED
  BY <1>4, <1>5

\* There is but one owner.
LEMMA OneOwner ==
  ASSUME IInv, NEW t \in Threads, OwnsTable(t) \/ pc[t] \in Resizing,
         NEW u \in Threads, u # t
  PROVE  ~OwnsTable(u) /\ pc[u] \notin Resizing
<1> SUFFICES ASSUME OwnsTable(u) \/ pc[u] \in Resizing PROVE FALSE
  OBVIOUS
<1>1. <<Current, 0>> \in LockIds /\ mode[<<Current, 0>>][t] = "write" /\ mode[<<Current, 0>>][u] = "write"
  BY OwnerFacts
<1> QED
  BY <1>1 DEF IInv, Compatible, Claims

\* maybe_resize_locks: the locks of a new array are the owner's.
LEMMA AppendLocksFacts ==
  ASSUME IInv, NEW t \in Threads, OwnsTable(t), NEW p \in 0 .. MaxHp, AppendLocks(t, p)
  PROVE  /\ ArraysExtended
         /\ arrays' \in Seq(1 .. MaxNumLocks) /\ Len(arrays') \in 1 .. MaxHp + 1
         /\ LockCount(p) <= arrays'[Current']
         /\ \E q \in 0 .. MaxHp : arrays'[Current'] = LockCount(q) /\ Current' <= q + 1
         /\ Current' = Current \/ Current' = Current + 1
         /\ Current' = Current => arrays' = arrays
         /\ mode' \in [LockIds -> [Threads -> {"none", "read", "claim", "upgrade", "write"}]]
         /\ \A x \in LockIds : \A u \in Threads :
              mode'[x][u] = IF u = t /\ Current' # Current /\ x \in ArrayLocks(Current)'
                            THEN "write" ELSE mode[x][u]
<1>1. /\ Current \in 1 .. MaxHp + 1 /\ \A a \in 1 .. Current : arrays[a] \in 1 .. MaxNumLocks
      /\ arrays \in Seq(1 .. MaxNumLocks) /\ Current = Len(arrays)
      /\ mode \in [LockIds -> [Threads -> {"none", "read", "claim", "upgrade", "write"}]]
  BY ArraysFacts DEF IInv, Typed, StateTyped, Current
<1>2. LockCount(p) \in 1 .. MaxNumLocks
  BY SizeFacts, PowersAssumption
<1>3. PICK q \in 0 .. MaxHp : arrays[Current] = LockCount(q) /\ Current <= q + 1
  BY DEF IInv, ArraysFit
<1>4. CASE arrays[Current] < LockCount(p)
  <2>1. arrays' = Append(arrays, LockCount(p))
    BY <1>4 DEF AppendLocks
  <2>2. /\ arrays' \in Seq(1 .. MaxNumLocks) /\ Current' = Current + 1
        /\ arrays'[Current + 1] = LockCount(p)
        /\ \A a \in 1 .. Current : arrays'[a] = arrays[a]
    BY <1>1, <1>2, <2>1 DEF Current
  <2>3. q < p
    <3> SUFFICES ASSUME p <= q PROVE FALSE
      OBVIOUS
    <3>1. LockCount(p) <= LockCount(q)
      BY SizeFacts, PowersAssumption
    <3> QED
      BY <1>1, <1>2, <1>3, <1>4, <3>1, LocksAssumption, PowersAssumption
  <2>4. Current' <= p + 1
    BY <1>1, <1>3, <2>2, <2>3, PowersAssumption
  <2>5. \A x \in LockIds : x[1] = Current + 1 /\ x[2] < LockCount(p) <=> x \in ArrayLocks(Current)'
    BY <1>2, <2>2, LocksAssumption DEF ArrayLocks, LockIds
  <2>6. mode' = [x \in LockIds |->
                   IF x[1] = Current + 1 /\ x[2] < LockCount(p)
                   THEN [mode[x] EXCEPT ![t] = "write"] ELSE mode[x]]
    BY <1>4 DEF AppendLocks
  <2>7. mode' \in [LockIds -> [Threads -> {"none", "read", "claim", "upgrade", "write"}]]
    BY <1>1, <2>6
  <2>8. Current' # Current
    BY <1>1, <2>2, PowersAssumption
  <2>9. \A x \in LockIds : \A u \in Threads :
              mode'[x][u] = IF u = t /\ Current' # Current /\ x \in ArrayLocks(Current)'
                            THEN "write" ELSE mode[x][u]
    BY <1>1, <2>5, <2>6, <2>8
  <2>10. ArraysExtended
    BY <1>1, <1>2, <1>4, <2>2, LocksAssumption, PowersAssumption DEF ArraysExtended
  <2>11. Len(arrays') \in 1 .. MaxHp + 1 /\ LockCount(p) <= arrays'[Current']
    BY <1>1, <1>2, <2>2, <2>4, PowersAssumption, LocksAssumption DEF Current
  <2> QED
    BY <2>2, <2>4, <2>7, <2>8, <2>9, <2>10, <2>11
<1>5. CASE ~(arrays[Current] < LockCount(p))
  <2>1. arrays' = arrays /\ mode' = mode /\ Current' = Current
    BY <1>5 DEF AppendLocks, Current
  <2>2. arrays[Current] >= LockCount(p) /\ ArraysExtended
    BY <1>1, <1>2, <1>5, <2>1, PowersAssumption, LocksAssumption DEF ArraysExtended
  <2> QED
    BY <1>1, <1>3, <2>1, <2>2 DEF Current
<1> QED
  BY <1>4, <1>5

\* The owner has all the locks of the current array, be it new or not.
LEMMA OwnerFits ==
  ASSUME IInv, NEW t \in Threads, OwnsTable(t), NEW p \in 0 .. MaxHp, AppendLocks(t, p),
         pc'[t] \in Resizing, my'[t] = my[t] \/ my'[t] = [my[t] EXCEPT !.hp = p],
         pc'[t] \in {"swap", "grow"} => Job(t) = "upsert"
  PROVE  ThreadFits(t)'
<1>0. /\ my'[t].job = my[t].job /\ my'[t].goal = my[t].goal /\ my'[t].kind = my[t].kind
      /\ my'[t].array = my[t].array /\ my'[t].todo = my[t].todo
      /\ my'[t].hp = my[t].hp \/ my'[t].hp = p
  BY DEF IInv, Typed, Locals
<1>1. pc[t] = "hold" /\ my[t].goal = "all" /\ Job(t)' = Job(t)
  BY <1>0 DEF OwnsTable, Job
<1>2. CallFits(t) /\ NeedsFit(t) /\ ModesFit(t)
  BY DEF IInv, ThreadFits
<1>3. CallFits(t)'
  BY <1>0, <1>1, <1>2 DEF CallFits, Taking, Having, Upping, Resizing
<1>4. /\ my[t].array \in 1 .. Current /\ my[t].array \in 1 .. Current' /\ my[t].todo = {}
      /\ LockCount(my[t].hp) <= arrays'[Current'] /\ LockCount(p) <= arrays'[Current']
  <2>1. my[t].array \in 1 .. Current /\ my[t].todo = {} /\ LockCount(my[t].hp) <= arrays[Current]
    BY <1>1, <1>2 DEF NeedsFit, Having
  <2>2. Current \in Nat /\ Current' \in Nat /\ arrays[Current] \in Nat /\ LockCount(my[t].hp) \in Nat
    <3>1. Current \in Nat /\ arrays[Current] \in Nat
      BY ArraysFacts, LocksAssumption, PowersAssumption DEF IInv, Typed
    <3>2. Current' \in Nat
      BY <3>1, AppendLocksFacts
    <3>3. my[t].hp \in 0 .. MaxHp
      BY DEF IInv, Typed, Locals
    <3> QED
      BY <3>1, <3>2, <3>3, SizeFacts, LocksAssumption, PowersAssumption
  <2>3. arrays'[Current'] \in Nat
    BY AppendLocksFacts, SizeFacts, LocksAssumption, PowersAssumption
  <2> QED
    BY <2>1, <2>2, <2>3, AppendLocksFacts DEF ArraysExtended
<1>5. NeedsFit(t)'
  BY <1>0, <1>1, <1>4 DEF NeedsFit, Taking, Having, Upping, Resizing
<1>6. ModesFit(t)'
  <2> SUFFICES ASSUME NEW x \in LockIds PROVE ModeFits(t, x)'
    BY DEF ModesFit
  <2>1. mode'[x][t] \in {"none", "write"}
    BY OwnerFacts, AppendLocksFacts
  <2>2. x \in ArrayLocks(Current)' => mode'[x][t] = "write"
    <3>1. CASE Current' = Current
      BY <3>1, OwnerFacts, AppendLocksFacts DEF ArrayLocks
    <3>2. CASE Current' # Current
      BY <3>2, AppendLocksFacts
    <3> QED
      BY <3>1, <3>2
  <2>3. x[1] > Current' => mode'[x][t] = "none"
    <3> SUFFICES ASSUME x[1] > Current' PROVE mode'[x][t] = "none"
      OBVIOUS
    <3>1. x[1] \in Nat /\ Current \in Nat /\ Current' \in Nat /\ Current <= Current'
      BY AppendLocksFacts, ArraysFacts, PowersAssumption DEF LockIds, IInv, Typed, ArraysExtended
    <3>2. x \notin ArrayLocks(Current)'
      BY <3>1 DEF ArrayLocks
    <3>3. mode[x][t] = "none"
      BY <1>2, <3>1 DEF ModesFit, ModeFits
    <3> QED
      BY <3>2, <3>3, AppendLocksFacts
  <2> QED
    BY <2>1, <2>2, <2>3 DEF ModeFits, Taking, Having, Upping, Resizing, Idle
<1> QED
  BY <1>3, <1>5, <1>6 DEF ThreadFits

\* swap() of the buckets does not touch the locks of the owner.
LEMMA SwapBucketsFits ==
  ASSUME IInv, NEW t \in Threads, SwapBuckets(t)
  PROVE  ThreadFits(t)'
<1>0. /\ pc[t] = "swap" /\ pc'[t] = "grow" /\ my' = my /\ mode' = mode /\ arrays' = arrays
  BY DEF SwapBuckets, Goto, IInv, Typed, StateTyped, lockVars
<1>1. Current' = Current /\ Job(t)' = Job(t) /\ ArrayLocks(Current)' = ArrayLocks(Current)
  BY <1>0 DEF Current, Job, ArrayLocks
<1> QED
  BY <1>0, <1>1 DEF IInv, ThreadFits, CallFits, NeedsFit, ModesFit, ModeFits, Taking, Having,
     Upping, Resizing, Idle

\* A resize begins with all locks, those of the new array included.
LEMMA ResizeFits ==
  ASSUME IInv, NEW t \in Threads, DoubleLocks(t) \/ RehashLocksStep(t)
  PROVE  ThreadFits(t)'
<1>1. CASE DoubleLocks(t)
  <2>1. /\ OwnsTable(t) /\ Job(t) = "upsert" /\ hp + 1 \in 0 .. MaxHp /\ AppendLocks(t, hp + 1)
        /\ pc'[t] = "swap" /\ my' = my
    BY <1>1, PowersAssumption DEF DoubleLocks, Goto, IInv, Typed, StateTyped
  <2> QED
    BY <2>1, OwnerFits DEF Resizing
<1>2. CASE RehashLocksStep(t)
  <2>1. PICK p \in my[t].job[2] .. MaxHp :
          AppendLocks(t, p) /\ Set(t, [my[t] EXCEPT !.hp = p])
    BY <1>2 DEF RehashLocksStep
  <2>2. OwnsTable(t) /\ pc'[t] = "replace" /\ my'[t] = [my[t] EXCEPT !.hp = p]
    BY <1>2, <2>1 DEF RehashLocksStep, Goto, Set, IInv, Typed, StateTyped
  <2>3. p \in 0 .. MaxHp
    <3>1. my[t].job[2] \in 0 .. MaxHp
      BY <1>2 DEF RehashLocksStep, Job, Jobs, IInv, Typed, Locals
    <3> QED
      BY <3>1, PowersAssumption
  <2> QED
    BY <2>1, <2>2, <2>3, OwnerFits DEF Resizing
<1> QED
  BY <1>1, <1>2

-----------------------------------------------------------------------------
(* Types.                                                                  *)

\* What a thread may have of a lock.
Modes == {"none", "read", "claim", "upgrade", "write"}

\* The buckets of a key are numbers.
LEMMA OwnNatural ==
  ASSUME Typed, NEW t \in Threads, Job(t) \in KeyJobs, NEW p \in 0 .. MaxHp
  PROVE  Buckets(Key(t), p) \subseteq Nat
<1>1. Key(t) \in Keys
  BY DEF Typed, Locals, Jobs, Job, Key, KeyJobs
<1> QED
  BY <1>1, BucketsFacts

\* An update of the local variables of one thread.
LEMMA SetTypes ==
  ASSUME my \in [Threads -> Locals], NEW t \in Threads, NEW new \in Locals, Set(t, new)
  PROVE  my' \in [Threads -> Locals]
BY DEF Set

\* A move of one thread.
LEMMA GotoTypes ==
  ASSUME Typed, NEW t \in Threads, NEW to \in Places, Goto(t, to)
  PROVE  pc' \in [Threads -> Places]
BY DEF Goto, Typed, StateTyped

\* Advance keeps the types.
LEMMA AdvanceTypes ==
  ASSUME Typed, NEW t \in Threads, Advance(t)
  PROVE  pc' \in [Threads -> Places] /\ my' \in [Threads -> Locals]
<1> DEFINE r == my[t]
           left == my[t].todo \ {Wanted(t)[2]}
<1>1. r \in Locals /\ left \subseteq Nat
  BY DEF Typed, Locals
<1>2. [r EXCEPT !.todo = left] \in Locals
  <2> HIDE DEF r, left
  <2> QED
    BY <1>1 DEF Locals
<1>3. my' \in [Threads -> Locals]
  BY <1>2, SetTypes DEF Advance, Typed
<1> QED
  BY <1>3, GotoTypes DEF Advance, Places

\* Leave keeps the types.
LEMMA LeaveTypes ==
  ASSUME Typed, NEW t \in Threads, NEW to \in {"done", "snapshot", "cuckoo"}, Leave(t, to)
  PROVE  pc' \in [Threads -> Places] /\ my' \in [Threads -> Locals]
<1> DEFINE r == my[t]
<1>1. r \in Locals
  BY DEF Typed
<1>2. [r EXCEPT !.then = to] \in Locals
  <2> HIDE DEF r
  <2> QED
    BY <1>1 DEF Locals
<1> QED
  BY <1>2, SetTypes, GotoTypes DEF Leave, Typed, Places

\* AfterShare keeps the types.
LEMMA AfterShareTypes ==
  ASSUME Typed, NEW t \in Threads, AfterShare(t)
  PROVE  pc' \in [Threads -> Places] /\ my' \in [Threads -> Locals]
BY AdvanceTypes DEF AfterShare, Goto, Typed, StateTyped, Places

\* Becomes keeps the types.
LEMMA BecomesTypes ==
  ASSUME Typed, NEW t \in Threads, NEW w, NEW m \in Modes, Becomes(w, t, m)
  PROVE  mode' \in [LockIds -> [Threads -> Modes]]
BY DEF Becomes, Typed, StateTyped, Modes

\* Every step keeps the types of the program counters and the local variables.
LEMMA PlacesKept ==
  ASSUME IInv, NEW t \in Threads, Step(t)
  PROVE  pc' \in [Threads -> Places] /\ my' \in [Threads -> Locals]
<1> USE DEF IInv
<1> DEFINE r == my[t]
<1>0. r \in Locals
  BY DEF Typed
<1>1. /\ pc \in [Threads -> Places] /\ my \in [Threads -> Locals] /\ hp \in 0 .. MaxHp
      /\ Current \in Nat /\ Len(arrays) \in Nat
      /\ \A to \in Places : Goto(t, to) => pc' \in [Threads -> Places]
  BY ArraysFacts DEF Typed, StateTyped, Goto, Current
<1>2. ASSUME CompareHashpower(t) PROVE pc' \in [Threads -> Places] /\ my' \in [Threads -> Locals]
  BY <1>1, <1>2 DEF CompareHashpower, Places, Goto
<1>3. ASSUME ReadHashpower(t) PROVE pc' \in [Threads -> Places] /\ my' \in [Threads -> Locals]
  <2>1. Buckets(Key(t), hp) \subseteq Nat
    BY <1>1, <1>3, OwnNatural DEF ReadHashpower, ThreadFits, CallFits
  <2>2. my[t].job \in Jobs
    BY <1>1 DEF Locals
  <2> QED
    BY <1>1, <1>3, <2>1, <2>2 DEF ReadHashpower, Places, Goto, Set, Fresh, Locals
<1>4. ASSUME ReadArray(t) PROVE pc' \in [Threads -> Places] /\ my' \in [Threads -> Locals]
  <2>1. (IF my[t].goal = "all" THEN 0 .. arrays[Current] - 1
         ELSE {LockInd(b) : b \in my[t].uses}) \subseteq Nat
    BY <1>4, IndsFacts DEF ReadArray, Inds, ThreadFits, Typed
  <2> DEFINE todo == IF my[t].goal = "all" THEN 0 .. arrays[Current] - 1
                     ELSE {LockInd(b) : b \in my[t].uses}
  <2>2. [r EXCEPT !.array = Current, !.todo = todo] \in Locals
    <3> HIDE DEF r, todo
    <3> QED
      BY <1>0, <1>1, <2>1 DEF Locals, todo
  <2> QED
    BY <1>1, <1>4, <2>2, SetTypes DEF ReadArray, Places
<1>5. ASSUME Claim(t) PROVE pc' \in [Threads -> Places] /\ my' \in [Threads -> Locals]
  BY <1>1, <1>5 DEF Claim, Places, Goto
<1>6. ASSUME Enter(t) PROVE pc' \in [Threads -> Places] /\ my' \in [Threads -> Locals]
  BY <1>1, <1>6, AdvanceTypes DEF Enter, Places, Goto
<1>7. ASSUME NextArray(t) PROVE pc' \in [Threads -> Places] /\ my' \in [Threads -> Locals]
  <2> DEFINE n == my[t].array + 1
             S == 0 .. arrays[n] - 1
  <2>1. n \in Nat /\ S \subseteq Nat
    BY <1>0 DEF Locals
  <2>2. [r EXCEPT !.array = n, !.todo = S] \in Locals
    <3> HIDE DEF r, n, S
    <3> QED
      BY <1>0, <2>1 DEF Locals
  <2> QED
    BY <1>1, <1>7, <2>2, SetTypes DEF NextArray, Places
<1>8. ASSUME Share(t) PROVE pc' \in [Threads -> Places] /\ my' \in [Threads -> Locals]
  BY <1>1, <1>8, AfterShareTypes DEF Share, Places, Goto
<1>9. ASSUME CheckHashpower(t) PROVE pc' \in [Threads -> Places] /\ my' \in [Threads -> Locals]
  BY <1>1, <1>9, AfterShareTypes, AdvanceTypes DEF CheckHashpower, Places, Goto
<1>10. ASSUME \/ UpgradeToMigrate(t) \/ EnterToMigrate(t) \/ MigrateAsWriter(t)
              \/ SwapBuckets(t) \/ DoubleLocks(t)
       PROVE  pc' \in [Threads -> Places] /\ my' \in [Threads -> Locals]
  BY <1>1, <1>10
  DEF UpgradeToMigrate, EnterToMigrate, MigrateAsWriter, SwapBuckets, DoubleLocks, Places, Goto
<1>11. ASSUME MigrateAsReader(t) PROVE pc' \in [Threads -> Places] /\ my' \in [Threads -> Locals]
  BY <1>11, AdvanceTypes DEF MigrateAsReader
<1>12. ASSUME Release(t) PROVE pc' \in [Threads -> Places] /\ my' \in [Threads -> Locals]
  <2>1. /\ \E to \in {"done", "snapshot", "cuckoo"} : Goto(t, to) \/ pc' = pc
        /\ Set(t, Fresh(my[t].job)) \/ my' = my
    BY <1>1, <1>12 DEF Release, Locals
  <2>2. my[t].job \in Jobs
    BY <1>1 DEF Locals
  <2>3. my' \in [Threads -> Locals]
    <3>1. Fresh(my[t].job) \in Locals
      BY <2>2, PowersAssumption DEF Fresh, Locals
    <3> QED
      BY <1>1, <2>1, <3>1, SetTypes
  <2> QED
    BY <1>1, <2>1, <2>3 DEF Goto, Places
<1>13. ASSUME \/ FinishOperation(t) \/ FinishWriting(t) \/ LeavePath(t) \/ LeaveLast(t)
              \/ ResizeRejected(t) \/ GrowBuckets(t) \/ ReplaceBuckets(t) \/ ClearTable(t)
       PROVE pc' \in [Threads -> Places] /\ my' \in [Threads -> Locals]
  BY <1>13, LeaveTypes
  DEF FinishOperation, FinishWriting, LeavePath, LeaveLast, ResizeRejected, GrowBuckets,
      ReplaceBuckets, ClearTable
<1>14. ASSUME RunCuckoo(t) PROVE pc' \in [Threads -> Places] /\ my' \in [Threads -> Locals]
  <2>1. [r EXCEPT !.then = "cuckoo", !.hops = 0] \in Locals
    <3> HIDE DEF r
    <3> QED
      BY <1>0 DEF Locals
  <2> QED
    BY <1>1, <1>14, <2>1, SetTypes DEF RunCuckoo, Places
<1>15. ASSUME ChooseTarget(t) PROVE pc' \in [Threads -> Places] /\ my' \in [Threads -> Locals]
  <2>1. Own(t) \subseteq Nat
    BY <1>1, <1>15, OwnNatural DEF ChooseTarget, Own, KeyJobs, Locals
  <2>2. \A b \in Nat : [r EXCEPT !.target = b] \in Locals
    <3> HIDE DEF r
    <3> QED
      BY <1>0 DEF Locals
  <2> QED
    BY <1>1, <1>15, <2>1, <2>2, SetTypes DEF ChooseTarget, Places
<1>16. ASSUME UpgradeLow(t) \/ UpgradeHigh(t)
       PROVE pc' \in [Threads -> Places] /\ my' \in [Threads -> Locals]
  BY <1>1, <1>16, LeaveTypes DEF UpgradeLow, UpgradeHigh, TryUpgrade, Places, Goto
<1>17. ASSUME SearchBucket(t) \/ Displace(t) \/ DisplaceLast(t) \/ TableFull(t)
       PROVE pc' \in [Threads -> Places] /\ my' \in [Threads -> Locals]
  <2>1. \E goal \in {"path", "last", "all"}, kind \in {"read", "write"} :
          \E buckets \in SUBSET Nat : AskFor(t, goal, kind, buckets)
    <3>1. my[t].hp \in 0 .. MaxHp
      BY <1>1 DEF Locals
    <3>2. AllBuckets(t) \subseteq Nat /\ {} \subseteq Nat
      BY DEF AllBuckets
    <3>3. CASE SearchBucket(t)
      BY <3>2, <3>3 DEF SearchBucket
    <3>4. CASE Displace(t)
      BY <3>2, <3>4 DEF Displace
    <3>5. CASE DisplaceLast(t)
      <4>1. Job(t) = "upsert"
        BY <3>5 DEF DisplaceLast, AskFor, ThreadFits, CallFits
      <4>2. Own(t) \subseteq Nat
        BY <3>1, <4>1, OwnNatural DEF Own, KeyJobs
      <4> QED
        BY <3>2, <3>5, <4>2 DEF DisplaceLast
    <3>6. CASE TableFull(t)
      BY <3>2, <3>6 DEF TableFull
    <3> QED
      BY <1>17, <3>3, <3>4, <3>5, <3>6
  <2>2. \A goal \in {"path", "last", "all"}, kind \in {"read", "write"}, buckets \in SUBSET Nat :
          [r EXCEPT !.goal = goal, !.kind = kind, !.uses = buckets, !.hops = r.hops + 1] \in Locals
    <3>1. r.hops + 1 \in Nat
      BY <1>0 DEF Locals
    <3> HIDE DEF r
    <3> QED
      BY <1>0, <3>1 DEF Locals
  <2> QED
    BY <1>1, <2>1, <2>2, SetTypes DEF AskFor, Places
<1>18. ASSUME RehashLocksStep(t) PROVE pc' \in [Threads -> Places] /\ my' \in [Threads -> Locals]
  <2>1. PICK p \in my[t].job[2] .. MaxHp : Set(t, [my[t] EXCEPT !.hp = p])
    BY <1>18 DEF RehashLocksStep
  <2>2. p \in 0 .. MaxHp
    <3>1. my[t].job \in Jobs /\ my[t].job[1] = "rehash"
      BY <1>0, <1>18 DEF RehashLocksStep, Job, Locals
    <3>2. my[t].job[2] \in 0 .. MaxHp
      BY <3>1 DEF Jobs
    <3> QED
      BY <3>2, PowersAssumption
  <2>3. [r EXCEPT !.hp = p] \in Locals
    <3> HIDE DEF r
    <3> QED
      BY <1>0, <2>2 DEF Locals
  <2> QED
    BY <1>1, <1>18, <2>1, <2>3, SetTypes DEF RehashLocksStep, Places
<1> QED
  BY <1>2, <1>3, <1>4, <1>5, <1>6, <1>7, <1>8, <1>9, <1>10, <1>11, <1>12, <1>13, <1>14, <1>15,
     <1>16, <1>17, <1>18 DEF Step

-----------------------------------------------------------------------------
(* The locks.                                                              *)

\* The transitions of one lock, or a new lock.
Transition(x, t, m) ==
  \/ mode[x][t] = "none" /\ m \in {"read", "claim"} /\ Unclaimed(x)
  \/ mode[x][t] = "read" /\ m = "upgrade" /\ Unclaimed(x)
  \/ mode[x][t] \in {"claim", "upgrade"} /\ m = "write" /\ NoReader(x)
  \/ mode[x][t] = "write" /\ m = "read"
  \/ mode[x][t] \in {"read", "write"} /\ m = "none"

\* What a step does to all locks.
LocksStep(t) ==
  \/ mode' = mode
  \/ \E x \in LockIds : \E m \in Modes : Transition(x, t, m) /\ Becomes(x, t, m)
  \/ /\ Current' = Current + 1
     /\ mode' \in [LockIds -> [Threads -> Modes]]
     /\ \A x \in LockIds : \A u \in Threads :
          mode'[x][u] = IF u = t /\ x \in ArrayLocks(Current)' THEN "write" ELSE mode[x][u]

\* What a thread has of the lock it is after.
LEMMA WantedHas ==
  ASSUME IInv, NEW t \in Threads, pc[t] \in Taking
  PROVE  Wanted(t) \in LockIds /\ mode[Wanted(t)][t] = WantedMode(t)
<1>1. NeedsFit(t) /\ ModesFit(t)
  BY DEF IInv, ThreadFits
<1>2. /\ Wanted(t) \in LockIds
      /\ Wanted(t)[1] = my[t].array /\ Wanted(t)[2] \in my[t].todo
  BY <1>1, WantedIsLock DEF IInv
<1> QED
  BY <1>1, <1>2 DEF ModesFit, ModeFits

\* ... and of the two locks of uprase_fn.
LEMMA UppingHas ==
  ASSUME IInv, NEW t \in Threads, pc[t] \in Upping
  PROVE  /\ LowLock(t) \in LockIds /\ HighLock(t) \in LockIds
         /\ UpMode(t, LowLock(t)) /\ UpMode(t, HighLock(t))
<1>1. CallFits(t) /\ ModesFit(t)
  BY DEF IInv, ThreadFits
<1>2. my[t].goal = "op" /\ Job(t) = "upsert"
  BY <1>1 DEF CallFits
<1>3. /\ my[t].todo = {} /\ Inds(t) = {LowLock(t)[2], HighLock(t)[2]}
      /\ LowLock(t) \in LockIds /\ LowLock(t)[1] = my[t].array
      /\ HighLock(t) \in LockIds /\ HighLock(t)[1] = my[t].array
  BY <1>2, UppingFacts
<1>4. ModeFits(t, LowLock(t)) /\ ModeFits(t, HighLock(t))
  BY <1>1, <1>3 DEF ModesFit
<1>5. my[t].goal # "all"
  BY <1>2
<1> QED
  BY <1>3, <1>4, <1>5 DEF ModeFits, Having

\* rehash(n) asks for a hashpower of the model.
LEMMA TargetFacts ==
  ASSUME IInv, NEW t \in Threads, Job(t) = "rehash", NEW p \in my[t].job[2] .. MaxHp
  PROVE  p \in 0 .. MaxHp
<1>1. my[t].job \in Jobs /\ my[t].job[1] = "rehash"
  BY DEF Job, IInv, Typed, Locals
<1>2. my[t].job[2] \in 0 .. MaxHp
  BY <1>1 DEF Jobs
<1> QED
  BY <1>2, PowersAssumption

\* A step changes the modes as reader/writer locks allow.
LEMMA StepLocks ==
  ASSUME IInv, NEW t \in Threads, Step(t)
  PROVE  LocksStep(t)
<1>1. CASE Claim(t)
  BY <1>1, WantedHas DEF Claim, Taking, WantedMode, LocksStep, Transition, Modes
<1>2. CASE Enter(t)
  BY <1>2, WantedHas DEF Enter, Taking, WantedMode, LocksStep, Transition, Modes
<1>3. CASE Share(t)
  BY <1>3, WantedHas DEF Share, Taking, WantedMode, LocksStep, Transition, Modes
<1>4. CASE CheckHashpower(t)
  <2>1. my[t].kind \in {"read", "write"}
    BY DEF IInv, Typed, Locals
  <2> QED
    BY <1>4, <2>1, WantedHas DEF CheckHashpower, Taking, WantedMode, LocksStep, Transition, Modes
<1>5. CASE UpgradeToMigrate(t)
  BY <1>5, WantedHas DEF UpgradeToMigrate, Taking, WantedMode, LocksStep, Transition, Modes
<1>6. CASE EnterToMigrate(t)
  BY <1>6, WantedHas DEF EnterToMigrate, Taking, WantedMode, LocksStep, Transition, Modes
<1>7. CASE MigrateAsReader(t)
  BY <1>7, WantedHas DEF MigrateAsReader, Taking, WantedMode, LocksStep, Transition, Modes
<1>8. CASE Release(t)
  <2>1. PICK x \in LockIds : mode[x][t] # "none" /\ Becomes(x, t, "none")
    BY <1>8 DEF Release, ReleasedNext, Has
  <2>2. mode[x][t] \in {"read", "write"}
    BY <1>8, <2>1, QuietModes DEF Release
  <2> QED
    BY <2>1, <2>2 DEF LocksStep, Transition, Modes
<1>9. CASE UpgradeLow(t)
  BY <1>9, UppingHas DEF UpgradeLow, TryUpgrade, Upping, UpMode, LocksStep, Transition, Modes
<1>10. CASE UpgradeHigh(t)
  <2>1. LowLock(t) # HighLock(t)
    BY <1>10 DEF UpgradeHigh, TryUpgrade, IInv, ThreadFits, CallFits
  <2> QED
    BY <1>10, <2>1, UppingHas DEF UpgradeHigh, TryUpgrade, Upping, UpMode, LocksStep, Transition, Modes
<1>11. ASSUME OwnsTable(t), NEW p \in 0 .. MaxHp, AppendLocks(t, p) PROVE LocksStep(t)
  <2>1. CASE Current' = Current
    <3>1. \A x \in LockIds : \A u \in Threads : mode'[x][u] = mode[x][u]
      BY <1>11, <2>1, AppendLocksFacts
    <3>2. mode' \in [LockIds -> [Threads -> Modes]] /\ mode \in [LockIds -> [Threads -> Modes]]
      BY <1>11, AppendLocksFacts DEF Modes, IInv, Typed, StateTyped
    <3>3. \A x \in LockIds : mode'[x] = mode[x]
      BY <3>1, <3>2
    <3>4. mode' = mode
      BY <3>2, <3>3
    <3> QED
      BY <3>4 DEF LocksStep
  <2>2. CASE Current' # Current
    BY <1>11, <2>2, AppendLocksFacts DEF LocksStep, Modes
  <2> QED
    BY <2>1, <2>2
<1>12. CASE DoubleLocks(t)
  <2>1. hp + 1 \in 0 .. MaxHp
    BY <1>12, PowersAssumption DEF DoubleLocks, IInv, Typed, StateTyped
  <2> QED
    BY <1>11, <1>12, <2>1 DEF DoubleLocks
<1>13. CASE RehashLocksStep(t)
  <2>1. PICK p \in my[t].job[2] .. MaxHp : AppendLocks(t, p)
    BY <1>13 DEF RehashLocksStep
  <2>2. p \in 0 .. MaxHp
    BY <1>13, <2>1, TargetFacts DEF RehashLocksStep
  <2> QED
    BY <1>11, <1>13, <2>1, <2>2 DEF RehashLocksStep
<1>14. CASE \/ CompareHashpower(t) \/ ReadHashpower(t) \/ ReadArray(t) \/ NextArray(t)
            \/ MigrateAsWriter(t) \/ FinishOperation(t) \/ ChooseTarget(t) \/ FinishWriting(t)
            \/ RunCuckoo(t) \/ LeavePath(t) \/ LeaveLast(t) \/ ResizeRejected(t)
            \/ SwapBuckets(t) \/ GrowBuckets(t) \/ ReplaceBuckets(t) \/ ClearTable(t)
  BY <1>14 DEF CompareHashpower, ReadHashpower, ReadArray, NextArray, MigrateAsWriter,
     FinishOperation, ChooseTarget, FinishWriting, RunCuckoo, LeavePath, LeaveLast,
     ResizeRejected, SwapBuckets, GrowBuckets, ReplaceBuckets, ClearTable, lockVars, LocksStep
<1>15. CASE SearchBucket(t) \/ Displace(t) \/ DisplaceLast(t) \/ TableFull(t)
  BY <1>15 DEF SearchBucket, Displace, DisplaceLast, TableFull, AskFor, lockVars, LocksStep
<1> QED
  BY <1>1, <1>2, <1>3, <1>4, <1>5, <1>6, <1>7, <1>8, <1>9, <1>10, <1>12, <1>13, <1>14, <1>15 DEF Step

\* ... keep the rule of reader/writer locks and what the other threads have.
LEMMA LocksStepKeeps ==
  ASSUME IInv, NEW t \in Threads, LocksStep(t)
  PROVE  /\ mode' \in [LockIds -> [Threads -> Modes]]
         /\ Compatible'
         /\ \A x \in LockIds : \A u \in Threads \ {t} : mode'[x][u] = mode[x][u]
<1>0. mode \in [LockIds -> [Threads -> Modes]] /\ Compatible
  BY DEF IInv, Typed, StateTyped, Modes
<1>1. CASE mode' = mode
  BY <1>0, <1>1 DEF Compatible
<1>2. CASE \E x \in LockIds : \E m \in Modes : Transition(x, t, m) /\ Becomes(x, t, m)
  <2>1. PICK y \in LockIds, m \in Modes : Transition(y, t, m) /\ Becomes(y, t, m)
    BY <1>2
  <2>2. \A x \in LockIds : \A u \in Threads :
           mode'[x][u] = IF x = y /\ u = t THEN m ELSE mode[x][u]
    BY <2>1, BecomesFacts DEF IInv
  <2>3. mode' \in [LockIds -> [Threads -> Modes]]
    BY <2>1, BecomesTypes DEF IInv
  <2>4. Compatible'
    <3> SUFFICES ASSUME NEW x \in LockIds, NEW u \in Threads, NEW v \in Threads, u # v
        PROVE  /\ mode'[x][u] \in Claims => mode'[x][v] \notin Claims
               /\ mode'[x][u] = "write" => mode'[x][v] # "read"
      BY DEF Compatible
    <3> QED
      BY <1>0, <2>1, <2>2 DEF Compatible, Transition, Unclaimed, NoReader, Claims
  <2> QED
    BY <2>2, <2>3, <2>4
<1>3. CASE /\ Current' = Current + 1
           /\ mode' \in [LockIds -> [Threads -> Modes]]
           /\ \A x \in LockIds : \A u \in Threads :
                mode'[x][u] = IF u = t /\ x \in ArrayLocks(Current)' THEN "write" ELSE mode[x][u]
  <2>1. \A x \in LockIds : x \in ArrayLocks(Current)' => \A u \in Threads : mode[x][u] = "none"
    <3> SUFFICES ASSUME NEW x \in LockIds, x \in ArrayLocks(Current)', NEW u \in Threads
                 PROVE  mode[x][u] = "none"
      OBVIOUS
    <3>1. x[1] = Current' /\ Current \in Nat
      BY ArraysFacts DEF ArrayLocks, IInv, Typed
    <3>2. ModeFits(u, x)
      BY DEF IInv, ThreadFits, ModesFit
    <3> QED
      BY <1>3, <3>1, <3>2 DEF ModeFits
  <2>2. Compatible'
    <3> SUFFICES ASSUME NEW x \in LockIds, NEW u \in Threads, NEW v \in Threads, u # v
        PROVE  /\ mode'[x][u] \in Claims => mode'[x][v] \notin Claims
               /\ mode'[x][u] = "write" => mode'[x][v] # "read"
      BY DEF Compatible
    <3> QED
      BY <1>0, <1>3, <2>1 DEF Compatible, Claims
  <2> QED
    BY <1>3, <2>1, <2>2
<1> QED
  BY <1>1, <1>2, <1>3 DEF LocksStep

\* ... and the arrays of locks only become more, by the hand of one who owns the table.
LEMMA StepArrays ==
  ASSUME IInv, NEW t \in Threads, Step(t)
  PROVE  /\ ArraysExtended
         /\ arrays' \in Seq(1 .. MaxNumLocks) /\ Len(arrays') \in 1 .. MaxHp + 1
         /\ Current' = Current \/ OwnsTable(t)
<1> DEFINE Good == /\ ArraysExtended
                   /\ arrays' \in Seq(1 .. MaxNumLocks) /\ Len(arrays') \in 1 .. MaxHp + 1
                   /\ Current' = Current \/ OwnsTable(t)
<1>1. CASE arrays' = arrays
  BY <1>1, ArraysFacts DEF ArraysExtended, Current, IInv, Typed, StateTyped
<1>2. CASE DoubleLocks(t)
  <2>1. hp + 1 \in 0 .. MaxHp
    BY <1>2, PowersAssumption DEF DoubleLocks, IInv, Typed, StateTyped
  <2> QED
    BY <1>2, <2>1, AppendLocksFacts DEF DoubleLocks
<1>3. CASE RehashLocksStep(t)
  <2>1. PICK p \in my[t].job[2] .. MaxHp : AppendLocks(t, p)
    BY <1>3 DEF RehashLocksStep
  <2>2. p \in 0 .. MaxHp
    BY <1>3, <2>1, TargetFacts DEF RehashLocksStep
  <2> QED
    BY <1>3, <2>1, <2>2, AppendLocksFacts DEF RehashLocksStep
<1>4. Step(t) => arrays' = arrays \/ DoubleLocks(t) \/ RehashLocksStep(t)
  BY DEF Step, CompareHashpower, ReadHashpower, ReadArray, Claim, Enter, NextArray, Share,
     CheckHashpower, UpgradeToMigrate, EnterToMigrate, MigrateAsReader, MigrateAsWriter, Release,
     FinishOperation, ChooseTarget, UpgradeLow, UpgradeHigh, TryUpgrade, FinishWriting, RunCuckoo,
     SearchBucket, Displace, DisplaceLast, TableFull, AskFor, LeavePath, LeaveLast,
     ResizeRejected, SwapBuckets, GrowBuckets, ReplaceBuckets, ClearTable, lockVars
<1> QED
  BY <1>1, <1>2, <1>3, <1>4

\* ... and nobody touches the local variables of another.
LEMMA StepLocals ==
  ASSUME IInv, NEW t \in Threads, Step(t), NEW u \in Threads, u # t
  PROVE  pc'[u] = pc[u] /\ my'[u] = my[u]
BY DEF Step, CompareHashpower, ReadHashpower, ReadArray, Claim, Enter, NextArray, Share,
   CheckHashpower, UpgradeToMigrate, EnterToMigrate, MigrateAsReader, MigrateAsWriter, Release,
   FinishOperation, ChooseTarget, UpgradeLow, UpgradeHigh, TryUpgrade, FinishWriting, RunCuckoo,
   SearchBucket, Displace, DisplaceLast, TableFull, AskFor, LeavePath, LeaveLast,
   ResizeRejected, DoubleLocks, SwapBuckets, GrowBuckets, RehashLocksStep, ReplaceBuckets,
   ClearTable, AfterShare, Advance, Leave, Goto, Set, IInv, Typed, StateTyped

-----------------------------------------------------------------------------
(* The table.                                                              *)

\* The part of the invariant that is about the table.
TableTyped ==
  /\ maxHp \in 0 .. MaxHp /\ hp \in 0 .. MaxHp /\ oldHp \in 0 .. MaxHp
  /\ oldAlloc \in BOOLEAN
  /\ unmoved \subseteq 0 .. HashSize(MaxHp) - 1
  /\ remaining \in 0 .. MaxNumLocks
  /\ migrated \in [LockIds -> BOOLEAN]

TableFits == TableTyped /\ Counted /\ ArraysFit

\* There are as many locks to migrate as the count can say.
LEMMA LateFacts ==
  ASSUME Typed
  PROVE  /\ IsFiniteSet(Late) /\ Cardinality(Late) \in Nat
         /\ Cardinality(Late) <= arrays[Current]
         /\ \A l \in 0 .. arrays[Current] - 1 : <<Current, l>> \in LockIds
<1>1. /\ Current \in 1 .. MaxHp + 1 /\ arrays[Current] \in 1 .. MaxNumLocks
  BY ArraysFacts DEF Typed
<1>2. /\ IsFiniteSet(0 .. arrays[Current] - 1)
      /\ Cardinality(0 .. arrays[Current] - 1) = arrays[Current]
  BY <1>1, LocksAssumption, FS_Interval
<1>3. Late \subseteq 0 .. arrays[Current] - 1
  BY DEF Late
<1>4. IsFiniteSet(Late) /\ Cardinality(Late) <= arrays[Current] /\ Cardinality(Late) \in Nat
  BY <1>2, <1>3, FS_Subset, FS_CardinalityType
<1>5. \A l \in 0 .. arrays[Current] - 1 : <<Current, l>> \in LockIds
  BY <1>1, LocksAssumption DEF LockIds
<1> QED
  BY <1>4, <1>5

\* rehash_lock counts the locks it migrates once each.
LEMMA RehashLocksFits ==
  ASSUME IInv, NEW inds \in SUBSET (0 .. arrays[Current] - 1), RehashLocks(inds),
         maxHp' = maxHp, hp' = hp, oldHp' = oldHp, arrays' = arrays,
         \A t \in Threads : pc'[t] \in Resizing => pc'[t] = pc[t]
  PROVE  TableFits'
<1> DEFINE n == arrays[Current]
           late == {l \in inds : ~migrated[<<Current, l>>]}
<1>0. /\ unmoved' = {b \in unmoved : LockInd(b) \notin late}
      /\ remaining' = remaining - Cardinality(late)
      /\ oldAlloc' = (oldAlloc /\ ~(late # {} /\ remaining' = 0))
      /\ migrated' = [x \in LockIds |-> migrated[x] \/ (x[1] = Current /\ x[2] \in late)]
      /\ Current' = Current
  BY DEF RehashLocks, Current
<1>1. /\ n \in 1 .. MaxNumLocks /\ Current \in Nat
      /\ IsFiniteSet(Late) /\ Cardinality(Late) \in 0 .. n
      /\ \A l \in 0 .. n - 1 : <<Current, l>> \in LockIds
  BY ArraysFacts, LateFacts, PowersAssumption, LocksAssumption DEF IInv, Typed
<1>2. late \subseteq Late /\ Late \cap late = late
  BY DEF Late
<1>3. Late' = Late \ late
  <2>1. Late' = {l \in 0 .. n - 1 : ~migrated'[<<Current, l>>]}
    BY <1>0 DEF Late
  <2>2. \A l \in 0 .. n - 1 : migrated'[<<Current, l>>] <=> migrated[<<Current, l>>] \/ l \in late
    BY <1>0, <1>1
  <2> HIDE DEF late
  <2> QED
    BY <2>1, <2>2 DEF Late
<1>4. /\ IsFiniteSet(late) /\ Cardinality(late) \in Nat
      /\ Cardinality(Late \ late) = Cardinality(Late) - Cardinality(late)
      /\ IsFiniteSet(Late \ late) /\ Cardinality(Late \ late) \in Nat
  <2> HIDE DEF late
  <2>1. IsFiniteSet(late) /\ IsFiniteSet(Late \ late)
    BY <1>1, <1>2, FS_Subset
  <2>2. Cardinality(late) \in Nat /\ Cardinality(Late \ late) \in Nat
    BY <2>1, FS_CardinalityType
  <2>3. Cardinality(Late \ late) = Cardinality(Late) - Cardinality(Late \cap late)
    BY <1>1, <2>1, FS_Difference
  <2> QED
    BY <1>2, <2>1, <2>2, <2>3
<1> HIDE DEF late
<1>5. remaining' = Cardinality(Late') /\ remaining' \in 0 .. MaxNumLocks
  BY <1>0, <1>1, <1>3, <1>4, LocksAssumption DEF IInv, Counted
<1>6. TableTyped'
  <2>1. migrated' \in [LockIds -> BOOLEAN]
    BY <1>0 DEF IInv, Typed, StateTyped
  <2>2. oldAlloc' \in BOOLEAN
    BY <1>0
  <2>3. unmoved' \subseteq 0 .. HashSize(MaxHp) - 1
    BY <1>0 DEF IInv, Typed, StateTyped
  <2> QED
    BY <1>5, <2>1, <2>2, <2>3 DEF TableTyped, IInv, Typed, StateTyped
<1>7. Counted'
  <2>1. unmoved' = {b \in 0 .. HashSize(oldHp') - 1 : LockInd(b) \in Late'}
    BY <1>0, <1>3 DEF IInv, Counted
  <2>2. Late' # {} => /\ oldAlloc'
                      /\ oldHp' + 1 = hp'
                      /\ arrays'[Current'] = MaxNumLocks
                      /\ HashSize(oldHp') >= MaxNumLocks
    <3> SUFFICES ASSUME Late' # {}
                 PROVE  oldAlloc' /\ arrays'[Current'] = MaxNumLocks
                        /\ oldHp' + 1 = hp' /\ HashSize(oldHp') >= MaxNumLocks
      OBVIOUS
    <3>1. remaining' # 0
      BY <1>3, <1>4, <1>5, FS_EmptySet
    <3>2. Late # {}
      BY <1>3
    <3> QED
      BY <1>0, <3>1, <3>2 DEF IInv, Counted
  <2>3. \A x \in LockIds \ ArrayLocks(Current)' : migrated'[x]
    <3>1. ArrayLocks(Current)' = ArrayLocks(Current)
      BY <1>0 DEF ArrayLocks
    <3> QED
      BY <1>0, <3>1 DEF IInv, Counted
  <2>4. \A t \in Threads : pc'[t] \in Resizing => Late' = {}
    BY <1>3 DEF IInv, Counted
  <2>5. \A t \in Threads : pc'[t] = "grow" => oldAlloc'
    <3> SUFFICES ASSUME NEW t \in Threads, pc'[t] = "grow" PROVE oldAlloc'
      OBVIOUS
    <3>1. pc[t] = "grow" /\ pc[t] \in Resizing
      BY DEF Resizing
    <3>2. Late = {} /\ oldAlloc
      BY <3>1 DEF IInv, Counted
    <3> QED
      BY <1>0, <1>2, <3>2
  <2> QED
    BY <1>5, <2>1, <2>2, <2>3, <2>4, <2>5 DEF Counted
<1>8. ArraysFit'
  <2>1. /\ \A t \in Threads : pc'[t] = "swap" => pc[t] = "swap"
        /\ \A t \in Threads : pc'[t] = "grow" => pc[t] = "grow"
    BY DEF Resizing
  <2> QED
    BY <1>0, <2>1 DEF IInv, ArraysFit
<1> QED
  BY <1>6, <1>7, <1>8 DEF TableFits

\* A step that leaves the table and the arrays alone.
LEMMA QuietTableFits ==
  ASSUME IInv, NEW t \in Threads, UNCHANGED <<tableVars, arrays, migrated>>,
         \A u \in Threads : pc'[u] \in Resizing => pc'[u] = pc[u]
  PROVE  TableFits'
<1>1. /\ maxHp' = maxHp /\ hp' = hp /\ oldHp' = oldHp /\ oldAlloc' = oldAlloc
      /\ unmoved' = unmoved /\ remaining' = remaining /\ arrays' = arrays /\ migrated' = migrated
      /\ Current' = Current /\ Late' = Late /\ ArrayLocks(Current)' = ArrayLocks(Current)
  BY DEF tableVars, Current, Late, ArrayLocks
<1>2. /\ \A u \in Threads : pc'[u] = "swap" => pc[u] = "swap"
      /\ \A u \in Threads : pc'[u] = "grow" => pc[u] = "grow"
  BY DEF Resizing
<1>3. TableTyped'
  BY <1>1 DEF TableTyped, IInv, Typed, StateTyped
<1>4. Counted'
  BY <1>1, <1>2 DEF Counted, IInv
<1>5. ArraysFit'
  BY <1>1, <1>2 DEF ArraysFit, IInv
<1> QED
  BY <1>3, <1>4, <1>5 DEF TableFits

\* Nothing is left to migrate when the migration is finished by hand, even of
\* the locks that are not part of an array yet.
LEMMA AllMigrated ==
  ASSUME arrays' \in Seq(1 .. MaxNumLocks), Len(arrays') \in 1 .. MaxHp + 1,
         unmoved' = {}, remaining' = 0, \A x \in LockIds : migrated'[x]
  PROVE  /\ Late' = {} /\ remaining' = Cardinality(Late')
         /\ unmoved' = {b \in 0 .. HashSize(oldHp') - 1 : LockInd(b) \in Late'}
<1>1. \A l \in 0 .. arrays'[Current'] - 1 : <<Current', l>> \in LockIds
  <2>1. Current' \in 1 .. MaxHp + 1 /\ arrays'[Current'] \in 1 .. MaxNumLocks
    BY PowersAssumption, LocksAssumption DEF Current
  <2> QED
    BY <2>1, LocksAssumption DEF LockIds
<1>2. Late' = {}
  BY <1>1 DEF Late
<1> QED
  BY <1>2, FS_EmptySet

\* Whoever owns the table finds or leaves nothing to migrate.
LEMMA OwnedTableFits ==
  ASSUME IInv, NEW t \in Threads, OwnsTable(t) \/ pc[t] \in Resizing, ArraysExtended,
         arrays' \in Seq(1 .. MaxNumLocks), Len(arrays') \in 1 .. MaxHp + 1,
         maxHp' = maxHp, hp' \in 0 .. MaxHp, oldHp' \in 0 .. MaxHp, oldAlloc' \in BOOLEAN,
         unmoved' = {}, remaining' = 0, migrated' \in [LockIds -> BOOLEAN],
         \A x \in LockIds : migrated'[x],
         LockCount(hp') <= arrays'[Current'], LockCount(oldHp') <= arrays'[Current'],
         \E p \in 0 .. MaxHp : arrays'[Current'] = LockCount(p) /\ Current' <= p + 1,
         \A u \in Threads \ {t} : pc'[u] = pc[u],
         pc'[t] = "grow" => oldAlloc',
         pc'[t] = "swap" => hp' + 1 <= MaxHp /\ LockCount(hp' + 1) <= arrays'[Current'],
         pc'[t] = "grow" => oldHp' + 1 <= MaxHp /\ LockCount(oldHp' + 1) <= arrays'[Current']
  PROVE  TableFits'
<1>1. \A u \in Threads \ {t} : pc'[u] \notin Resizing
  BY OneOwner
<1>2. \A u \in Threads : pc'[u] \in {"swap", "grow"} => u = t
  BY <1>1 DEF Resizing
<1>3. /\ Late' = {} /\ remaining' = Cardinality(Late')
      /\ unmoved' = {b \in 0 .. HashSize(oldHp') - 1 : LockInd(b) \in Late'}
  BY AllMigrated
<1>4. TableTyped'
  BY LocksAssumption DEF TableTyped, IInv, Typed, StateTyped
<1>5. Counted'
  BY <1>2, <1>3 DEF Counted
<1>6. ArraysFit'
  BY <1>2 DEF ArraysFit
<1> QED
  BY <1>4, <1>5, <1>6 DEF TableFits

\* With all locks in hand the migration is finished for every lock there is.
LEMMA FinishRehashFacts ==
  ASSUME IInv, FinishRehash
  PROVE  /\ unmoved' = {} /\ remaining' = 0 /\ oldAlloc' \in BOOLEAN
         /\ migrated' \in [LockIds -> BOOLEAN] /\ \A x \in LockIds : migrated'[x]
<1>1. \A x \in LockIds : x[1] # Current => migrated[x]
  BY DEF IInv, Counted, ArrayLocks
<1> QED
  BY <1>1 DEF FinishRehash, IInv, Typed, StateTyped

\* maybe_resize_locks leaves a table whose buckets are all moved.
LEMMA ResizeTableFits ==
  ASSUME IInv, NEW t \in Threads, DoubleLocks(t) \/ RehashLocksStep(t)
  PROVE  TableFits'
<1>1. /\ OwnsTable(t) /\ FinishRehash /\ maxHp' = maxHp /\ hp' = hp /\ oldHp' = oldHp
      /\ pc'[t] \in {"swap", "replace"} /\ \A u \in Threads \ {t} : pc'[u] = pc[u]
  BY DEF DoubleLocks, RehashLocksStep, Goto, IInv, Typed, StateTyped
<1>2. \E p \in 0 .. MaxHp :
         AppendLocks(t, p) /\ (pc'[t] = "swap" => hp + 1 <= MaxHp /\ p = hp + 1)
  <2>1. CASE DoubleLocks(t)
    <3>1. hp + 1 \in 0 .. MaxHp
      BY <2>1, PowersAssumption DEF DoubleLocks, IInv, Typed, StateTyped
    <3> QED
      BY <2>1, <3>1 DEF DoubleLocks
  <2>2. CASE RehashLocksStep(t)
    <3>1. PICK p \in my[t].job[2] .. MaxHp : AppendLocks(t, p)
      BY <2>2 DEF RehashLocksStep
    <3>2. p \in 0 .. MaxHp
      BY <2>2, <3>1, TargetFacts DEF RehashLocksStep
    <3>3. pc'[t] # "swap"
      BY <2>2 DEF RehashLocksStep, Goto, IInv, Typed, StateTyped
    <3> QED
      BY <3>1, <3>2, <3>3
  <2> QED
    BY <2>1, <2>2
<1>3. PICK p \in 0 .. MaxHp :
         AppendLocks(t, p) /\ (pc'[t] = "swap" => hp + 1 <= MaxHp /\ p = hp + 1)
  BY <1>2
<1>4. /\ ArraysExtended
      /\ arrays' \in Seq(1 .. MaxNumLocks) /\ Len(arrays') \in 1 .. MaxHp + 1
      /\ LockCount(p) <= arrays'[Current']
      /\ \E q \in 0 .. MaxHp : arrays'[Current'] = LockCount(q) /\ Current' <= q + 1
  BY <1>1, <1>3, AppendLocksFacts
<1>5. LockCount(hp) <= arrays'[Current'] /\ LockCount(oldHp) <= arrays'[Current']
  <2>1. arrays[Current] \in Nat /\ arrays'[Current'] \in Nat
    BY <1>4, ArraysFacts, LocksAssumption DEF IInv, Typed, Current
  <2>2. LockCount(hp) \in Nat /\ LockCount(oldHp) \in Nat
    <3>1. hp \in 0 .. MaxHp + 1 /\ oldHp \in 0 .. MaxHp + 1
      BY PowersAssumption DEF IInv, Typed, StateTyped
    <3> QED
      BY <3>1, SizeFacts, LocksAssumption
  <2> QED
    BY <1>4, <2>1, <2>2 DEF ArraysExtended, IInv, ArraysFit
<1>6. hp \in 0 .. MaxHp /\ oldHp \in 0 .. MaxHp
  BY DEF IInv, Typed, StateTyped
<1>7. pc'[t] # "grow"
  BY <1>1
<1> QED
  BY <1>1, <1>3, <1>4, <1>5, <1>6, <1>7, FinishRehashFacts, OwnedTableFits

\* Between taking the locks of a resize and the end of it.
LEMMA SwapTableFits ==
  ASSUME IInv, NEW t \in Threads, SwapBuckets(t)
  PROVE  TableFits'
<1>1. /\ pc[t] = "swap" /\ pc[t] \in Resizing /\ Late = {} /\ Current' = Current
      /\ \A u \in Threads \ {t} : pc'[u] = pc[u]
      /\ arrays' = arrays /\ migrated' = migrated
  BY DEF SwapBuckets, Resizing, IInv, Counted, Goto, Typed, StateTyped, lockVars, Current
<1>2. unmoved' = {} /\ remaining' = 0
  BY <1>1, FS_EmptySet DEF SwapBuckets, IInv, Counted
<1>3. \A x \in LockIds : migrated[x]
  BY <1>1 DEF IInv, Counted, Late, ArrayLocks
<1>4. /\ arrays' \in Seq(1 .. MaxNumLocks) /\ Len(arrays') \in 1 .. MaxHp + 1
      /\ migrated' \in [LockIds -> BOOLEAN] /\ maxHp' = maxHp
      /\ hp' = oldHp /\ oldHp' = hp /\ hp' \in 0 .. MaxHp /\ oldHp' \in 0 .. MaxHp
      /\ oldAlloc' = TRUE /\ pc'[t] = "grow"
  BY <1>1 DEF SwapBuckets, IInv, Typed, StateTyped, Goto
<1>5. ArraysExtended
  BY <1>1, ArraysFacts, LocksAssumption DEF ArraysExtended, IInv, Typed
<1>6. /\ LockCount(hp') <= arrays'[Current'] /\ LockCount(oldHp') <= arrays'[Current']
      /\ \E p \in 0 .. MaxHp : arrays'[Current'] = LockCount(p) /\ Current' <= p + 1
      /\ oldHp' + 1 <= MaxHp /\ LockCount(oldHp' + 1) <= arrays'[Current']
  BY <1>1, <1>4 DEF IInv, ArraysFit
<1> QED
  BY <1>1, <1>2, <1>3, <1>4, <1>5, <1>6, OwnedTableFits

\* The swap of the buckets at the end of rehash(n).
LEMMA ReplaceTableFits ==
  ASSUME IInv, NEW t \in Threads, ReplaceBuckets(t)
  PROVE  TableFits'
<1>1. /\ pc[t] \in Resizing /\ Late = {} /\ Current' = Current
      /\ \A u \in Threads \ {t} : pc'[u] = pc[u]
      /\ arrays' = arrays /\ migrated' = migrated /\ oldAlloc' = oldAlloc
  BY DEF ReplaceBuckets, Leave, Resizing, IInv, Counted, Goto, Typed, StateTyped, lockVars, Current
<1>2. unmoved' = {} /\ remaining' = 0
  BY <1>1, FS_EmptySet DEF ReplaceBuckets, IInv, Counted
<1>3. \A x \in LockIds : migrated[x]
  BY <1>1 DEF IInv, Counted, Late, ArrayLocks
<1>4. /\ arrays' \in Seq(1 .. MaxNumLocks) /\ Len(arrays') \in 1 .. MaxHp + 1
      /\ migrated' \in [LockIds -> BOOLEAN] /\ maxHp' = maxHp
      /\ hp' = my[t].hp /\ oldHp' = oldHp /\ hp' \in 0 .. MaxHp /\ oldHp' \in 0 .. MaxHp
      /\ oldAlloc' \in BOOLEAN /\ pc'[t] = "release"
  BY <1>1 DEF ReplaceBuckets, Leave, IInv, Typed, StateTyped, Goto, Locals
<1>5. ArraysExtended
  BY <1>1, ArraysFacts, LocksAssumption DEF ArraysExtended, IInv, Typed
<1>6. /\ LockCount(hp') <= arrays'[Current'] /\ LockCount(oldHp') <= arrays'[Current']
      /\ \E p \in 0 .. MaxHp : arrays'[Current'] = LockCount(p) /\ Current' <= p + 1
  BY <1>1, <1>4 DEF IInv, ArraysFit, ThreadFits, NeedsFit
<1> QED
  BY <1>1, <1>2, <1>3, <1>4, <1>5, <1>6, OwnedTableFits

\* cuckoo_clear.
LEMMA ClearTableFits ==
  ASSUME IInv, NEW t \in Threads, ClearTable(t)
  PROVE  TableFits'
<1>1. /\ OwnsTable(t) /\ FinishRehash /\ Current' = Current /\ arrays' = arrays
      /\ \A u \in Threads \ {t} : pc'[u] = pc[u]
      /\ maxHp' = maxHp /\ hp' = hp /\ oldHp' = oldHp /\ pc'[t] = "release"
  BY DEF ClearTable, Leave, IInv, Goto, Typed, StateTyped, Current
<1>2. /\ arrays' \in Seq(1 .. MaxNumLocks) /\ Len(arrays') \in 1 .. MaxHp + 1
      /\ hp \in 0 .. MaxHp /\ oldHp \in 0 .. MaxHp
  BY <1>1 DEF IInv, Typed, StateTyped
<1>3. ArraysExtended
  BY <1>1, ArraysFacts, LocksAssumption DEF ArraysExtended, IInv, Typed
<1>4. /\ LockCount(hp') <= arrays'[Current'] /\ LockCount(oldHp') <= arrays'[Current']
      /\ \E p \in 0 .. MaxHp : arrays'[Current'] = LockCount(p) /\ Current' <= p + 1
  BY <1>1 DEF IInv, ArraysFit
<1>5. pc'[t] \notin {"swap", "grow"}
  BY <1>1
<1> QED
  BY <1>1, <1>2, <1>3, <1>4, <1>5, FinishRehashFacts, OwnedTableFits

\* cuckoo_fast_double ends with all moved, or with every lock still to migrate.
LEMMA GrowTableFits ==
  ASSUME IInv, NEW t \in Threads, GrowBuckets(t)
  PROVE  TableFits'
<1> DEFINE n == arrays[Current]
<1>1. /\ pc[t] = "grow" /\ pc[t] \in Resizing /\ Late = {} /\ oldAlloc
      /\ Current' = Current /\ arrays' = arrays /\ maxHp' = maxHp /\ oldHp' = oldHp
      /\ hp' = oldHp + 1 /\ pc'[t] = "release" /\ \A u \in Threads \ {t} : pc'[u] = pc[u]
  BY DEF GrowBuckets, Leave, Resizing, IInv, Counted, Goto, Typed, StateTyped, Current
<1>2. unmoved = {} /\ remaining = 0 /\ \A x \in LockIds : migrated[x]
  <2>1. \A x \in LockIds : migrated[x]
    BY <1>1 DEF IInv, Counted, Late, ArrayLocks
  <2> QED
    BY <1>1, <2>1, FS_EmptySet DEF IInv, Counted
<1>3. /\ arrays' \in Seq(1 .. MaxNumLocks) /\ Len(arrays') \in 1 .. MaxHp + 1
      /\ oldHp' \in 0 .. MaxHp /\ hp' \in 0 .. MaxHp
      /\ LockCount(hp') <= arrays'[Current'] /\ LockCount(oldHp') <= arrays'[Current']
      /\ \E p \in 0 .. MaxHp : arrays'[Current'] = LockCount(p) /\ Current' <= p + 1
  BY <1>1, PowersAssumption DEF IInv, ArraysFit, Typed, StateTyped
<1>4. ArraysExtended
  BY <1>1, ArraysFacts, LocksAssumption DEF ArraysExtended, IInv, Typed
<1>5. CASE HashSize(oldHp) < MaxNumLocks
  <2>1. /\ unmoved' = {} /\ remaining' = 0 /\ migrated' = migrated /\ oldAlloc' = FALSE
        /\ migrated \in [LockIds -> BOOLEAN]
    BY <1>2, <1>5 DEF GrowBuckets, IInv, Typed, StateTyped
  <2>2. \A x \in LockIds : migrated'[x]
    BY <1>2, <2>1
  <2>3. pc'[t] \notin {"swap", "grow"} /\ oldAlloc' \in BOOLEAN
    BY <1>1, <2>1
  <2> QED
    BY <1>1, <1>3, <1>4, <2>1, <2>2, <2>3, OwnedTableFits
<1>6. CASE ~(HashSize(oldHp) < MaxNumLocks)
  <2>1. /\ unmoved' = 0 .. HashSize(oldHp) - 1 /\ remaining' = n /\ oldAlloc' = oldAlloc
        /\ migrated' = [x \in LockIds |-> migrated[x] /\ x[1] # Current]
    BY <1>6 DEF GrowBuckets
  <2>2. oldHp \in 0 .. MaxHp + 1 /\ MaxHp \in 0 .. MaxHp + 1 /\ oldHp <= MaxHp
    BY PowersAssumption DEF IInv, Typed, StateTyped
  <2>3. n \in 1 .. MaxNumLocks /\ Current \in Nat /\ \A l \in 0 .. n - 1 : <<Current, l>> \in LockIds
    BY ArraysFacts, LateFacts, PowersAssumption, LocksAssumption DEF IInv, Typed
  <2>4. n = MaxNumLocks /\ HashSize(oldHp) >= MaxNumLocks /\ LockCount(oldHp) = MaxNumLocks
    <3>1. HashSize(oldHp) \in Nat
      BY <2>2, SizeFacts
    <3>2. LockCount(oldHp) = MaxNumLocks /\ HashSize(oldHp) >= MaxNumLocks
      BY <1>6, <3>1, LocksAssumption DEF LockCount, MinOf
    <3> QED
      BY <2>3, <3>2, LocksAssumption DEF IInv, ArraysFit
  <2>5. Late' = 0 .. n - 1
    BY <1>1, <2>1, <2>3 DEF Late
  <2>6. Cardinality(Late') = n
    <3>1. Cardinality(0 .. n - 1) = n
      <4>1. n \in Int /\ n - 1 \in Int /\ 0 \in Int /\ n >= 1
        BY <2>3, LocksAssumption
      <4> HIDE DEF n
      <4>2. Cardinality(0 .. n - 1) = IF 0 > n - 1 THEN 0 ELSE (n - 1) - 0 + 1
        BY <4>1, FS_Interval
      <4> QED
        BY <4>1, <4>2
    <3> QED
      BY <2>5, <3>1
  <2>7. TableTyped'
    <3>1. unmoved' \subseteq 0 .. HashSize(MaxHp) - 1
      <4>1. HashSize(oldHp) <= HashSize(MaxHp) /\ HashSize(oldHp) \in Nat /\ HashSize(MaxHp) \in Nat
        BY <2>2, SizeFacts
      <4> QED
        BY <2>1, <4>1
    <3>2. migrated' \in [LockIds -> BOOLEAN]
      BY <2>1 DEF IInv, Typed, StateTyped
    <3>3. remaining' \in 0 .. MaxNumLocks
      BY <2>1, <2>3, LocksAssumption
    <3> QED
      BY <1>1, <1>3, <2>1, <3>1, <3>2, <3>3 DEF TableTyped, IInv, Typed, StateTyped
  <2>8. Counted'
    <3>1. unmoved' = {b \in 0 .. HashSize(oldHp') - 1 : LockInd(b) \in Late'}
      <4>1. \A b \in 0 .. HashSize(oldHp) - 1 : LockInd(b) \in 0 .. n - 1
        BY <2>2, <2>4, LockIndFacts
      <4> QED
        BY <1>1, <2>1, <2>5, <4>1
    <3>2. oldAlloc' /\ oldHp' + 1 = hp' /\ arrays'[Current'] = MaxNumLocks /\ HashSize(oldHp') >= MaxNumLocks
      BY <1>1, <2>1, <2>4
    <3>3. \A x \in LockIds \ ArrayLocks(Current)' : migrated'[x]
      <4> SUFFICES ASSUME NEW x \in LockIds, x \notin ArrayLocks(Current)' PROVE migrated'[x]
        OBVIOUS
      <4>1. x[1] # Current
        <5>1. x = <<x[1], x[2]>> /\ x[2] \in 0 .. n - 1
          BY <2>4 DEF LockIds
        <5> QED
          BY <1>1, <5>1 DEF ArrayLocks
      <4> QED
        BY <1>2, <2>1, <4>1
    <3>4. \A u \in Threads : pc'[u] \notin Resizing
      <4>1. \A u \in Threads \ {t} : pc[u] \notin Resizing
        BY <1>1, OneOwner
      <4> QED
        BY <1>1, <4>1 DEF Resizing
    <3> QED
      BY <2>1, <2>6, <3>1, <3>2, <3>3, <3>4 DEF Counted, Resizing
  <2>9. ArraysFit'
    <3>1. \A u \in Threads \ {t} : pc[u] \notin Resizing
      BY <1>1, OneOwner
    <3>2. \A u \in Threads : pc'[u] \notin {"swap", "grow"}
      BY <1>1, <3>1 DEF Resizing
    <3> QED
      BY <1>3, <3>2 DEF ArraysFit
  <2> QED
    BY <2>7, <2>8, <2>9 DEF TableFits
<1> QED
  BY <1>5, <1>6

\* Lazy migration under the locks of one operation.
LEMMA MigrateTableFits ==
  ASSUME IInv, NEW t \in Threads, MigrateAsReader(t) \/ MigrateAsWriter(t)
  PROVE  TableFits'
<1>1. my[t].goal # "all" /\ NeedsFit(t) /\ pc[t] \in Taking \cup Having
  BY DEF MigrateAsReader, MigrateAsWriter, IInv, ThreadFits, CallFits, Taking, Having
<1>2. /\ Inds(t) \subseteq 0 .. LockCount(my[t].hp) - 1
      /\ LockCount(my[t].hp) <= arrays[Current]
  BY <1>1, IndsFacts DEF NeedsFit, IInv, Typed
<1>3. Inds(t) \subseteq 0 .. arrays[Current] - 1
  <2>1. my[t].hp \in 0 .. MaxHp + 1
    BY PowersAssumption DEF IInv, Typed, Locals
  <2>2. LockCount(my[t].hp) \in Nat /\ arrays[Current] \in Nat
    BY <2>1, SizeFacts, ArraysFacts, LocksAssumption DEF IInv, Typed
  <2> QED
    BY <1>2, <2>2
<1>4. /\ maxHp' = maxHp /\ hp' = hp /\ oldHp' = oldHp /\ arrays' = arrays
      /\ \A u \in Threads : pc'[u] \in Resizing => pc'[u] = pc[u]
  BY DEF MigrateAsReader, MigrateAsWriter, Advance, Goto, Resizing, IInv, Typed, StateTyped
<1>5. CASE MigrateAsReader(t)
  <2>1. {Wanted(t)[2]} \subseteq 0 .. arrays[Current] - 1
    BY <1>1, <1>3, <1>5, WantedIsLock DEF MigrateAsReader, Taking, NeedsFit, IInv
  <2> QED
    BY <1>4, <1>5, <2>1, RehashLocksFits DEF MigrateAsReader
<1>6. CASE MigrateAsWriter(t)
  <2>1. RehashLocks(Inds(t))
    BY <1>6 DEF MigrateAsWriter, Inds
  <2> QED
    BY <1>3, <1>4, <2>1, RehashLocksFits
<1> QED
  BY <1>5, <1>6

\* Every step keeps the counts of the table.
LEMMA StepTable ==
  ASSUME IInv, NEW t \in Threads, Step(t)
  PROVE  TableFits'
<1>1. \/ UNCHANGED <<tableVars, arrays, migrated>>
      \/ DoubleLocks(t) \/ RehashLocksStep(t) \/ SwapBuckets(t) \/ GrowBuckets(t)
      \/ ReplaceBuckets(t) \/ ClearTable(t) \/ MigrateAsReader(t) \/ MigrateAsWriter(t)
  BY DEF Step, CompareHashpower, ReadHashpower, ReadArray, Claim, Enter, NextArray, Share,
     CheckHashpower, UpgradeToMigrate, EnterToMigrate, Release, FinishOperation, ChooseTarget,
     UpgradeLow, UpgradeHigh, TryUpgrade, FinishWriting, RunCuckoo, SearchBucket, Displace,
     DisplaceLast, TableFull, AskFor, LeavePath, LeaveLast, ResizeRejected, lockVars
<1>2. CASE UNCHANGED <<tableVars, arrays, migrated>>
  <2>1. CASE DoubleLocks(t) \/ RehashLocksStep(t) \/ SwapBuckets(t)
    BY <2>1, ResizeTableFits, SwapTableFits
  <2>2. CASE ~(DoubleLocks(t) \/ RehashLocksStep(t) \/ SwapBuckets(t))
    <3>1. pc'[t] \notin Resizing
      BY <2>2 DEF Step, CompareHashpower, ReadHashpower, ReadArray, Claim, Enter, NextArray, Share,
         CheckHashpower, UpgradeToMigrate, EnterToMigrate, MigrateAsReader, MigrateAsWriter,
         Release, FinishOperation, ChooseTarget, UpgradeLow, UpgradeHigh, TryUpgrade,
         FinishWriting, RunCuckoo, SearchBucket, Displace, DisplaceLast, TableFull, AskFor,
         LeavePath, LeaveLast, ResizeRejected, GrowBuckets, ReplaceBuckets, ClearTable,
         AfterShare, Advance, Leave, Goto, IInv, Typed, StateTyped, Resizing, Locals
    <3> QED
      BY <1>2, <3>1, StepLocals, QuietTableFits
  <2> QED
    BY <2>1, <2>2
<1>3. CASE DoubleLocks(t) \/ RehashLocksStep(t)
  BY <1>3, ResizeTableFits
<1>4. CASE SwapBuckets(t)
  BY <1>4, SwapTableFits
<1>5. CASE GrowBuckets(t)
  BY <1>5, GrowTableFits
<1>6. CASE ReplaceBuckets(t)
  BY <1>6, ReplaceTableFits
<1>7. CASE ClearTable(t)
  BY <1>7, ClearTableFits
<1>8. CASE MigrateAsReader(t) \/ MigrateAsWriter(t)
  BY <1>8, MigrateTableFits
<1> QED
  BY <1>1, <1>2, <1>3, <1>4, <1>5, <1>6, <1>7, <1>8

-----------------------------------------------------------------------------
(* The invariant.                                                          *)

\* Every step leaves the thread that takes it as the invariant says.
LEMMA StepThread ==
  ASSUME IInv, NEW t \in Threads, Step(t)
  PROVE  ThreadFits(t)'
BY CompareFits, ReadHashpowerFits, ReadArrayFits, ClaimFits, EnterFits, NextArrayFits, ShareFits,
   CheckHashpowerFits, UpgradeToMigrateFits, EnterToMigrateFits, MigrateAsReaderFits,
   MigrateAsWriterFits, ReleaseFits, LeavingFits, ChooseTargetFits, UpgradeLowFits,
   UpgradeHighFits, AskingFits, ResizeFits, SwapBucketsFits
DEF Step

\* The invariant is inductive ...
LEMMA StepIInv == IInv /\ [Steps]_core => IInv'
<1> SUFFICES ASSUME IInv, [Steps]_core PROVE IInv'
  OBVIOUS
<1>1. CASE UNCHANGED core
  <2>1. /\ maxHp' = maxHp /\ hp' = hp /\ oldHp' = oldHp /\ oldAlloc' = oldAlloc
        /\ unmoved' = unmoved /\ remaining' = remaining /\ arrays' = arrays /\ mode' = mode
        /\ migrated' = migrated /\ pc' = pc /\ my' = my
        /\ Current' = Current /\ Late' = Late /\ ArrayLocks(Current)' = ArrayLocks(Current)
    BY <1>1 DEF core, Current, Late, ArrayLocks
  <2>2. Typed' /\ StateTyped' /\ Compatible' /\ Counted' /\ ArraysFit'
    BY <2>1 DEF IInv, Typed, StateTyped, Compatible, Counted, ArraysFit
  <2>3. ArraysExtended
    BY <2>1, ArraysFacts, LocksAssumption DEF ArraysExtended, IInv, Typed
  <2>4. \A u \in Threads : ThreadFits(u)'
    BY <2>1, <2>2, <2>3, OtherFits DEF IInv
  <2> QED
    BY <2>2, <2>4 DEF IInv
<1>2. ASSUME NEW t \in Threads, Step(t) PROVE IInv'
  <2>1. TableFits'
    BY <1>2, StepTable
  <2>2. /\ mode' \in [LockIds -> [Threads -> Modes]] /\ Compatible'
        /\ \A x \in LockIds : \A u \in Threads \ {t} : mode'[x][u] = mode[x][u]
    BY <1>2, StepLocks, LocksStepKeeps
  <2>3. /\ ArraysExtended
        /\ arrays' \in Seq(1 .. MaxNumLocks) /\ Len(arrays') \in 1 .. MaxHp + 1
        /\ Current' = Current \/ OwnsTable(t)
    BY <1>2, StepArrays
  <2>4. pc' \in [Threads -> Places] /\ my' \in [Threads -> Locals]
    BY <1>2, PlacesKept
  <2>5. Typed'
    BY <2>1, <2>2, <2>3, <2>4 DEF TableFits, TableTyped, Typed, StateTyped, Modes
  <2>6. ASSUME NEW u \in Threads PROVE ThreadFits(u)'
    <3>1. CASE u = t
      BY <1>2, <3>1, StepThread
    <3>2. CASE u # t
      <4>1. Current' = Current \/ pc[u] \notin Resizing
        BY <2>3, <3>2, OneOwner
      <4>2. pc'[u] = pc[u] /\ my'[u] = my[u]
        BY <1>2, <3>2, StepLocals
      <4> QED
        BY <2>2, <2>3, <2>5, <3>2, <4>1, <4>2, OtherFits DEF IInv, Typed
    <3> QED
      BY <3>1, <3>2
  <2> QED
    BY <2>1, <2>2, <2>5, <2>6 DEF IInv, TableFits
<1> QED
  BY <1>1, <1>2 DEF Steps, core

\* ... and holds of every table that is constructed.
LEMMA InitIInv == Init => IInv
<1> SUFFICES ASSUME Init PROVE IInv
  OBVIOUS
<1>1. PICK w \in Workloads : my = [t \in Threads |-> Fresh(w[t])] /\ pc = [t \in Threads |-> Entry(w[t])]
  BY DEF Init
<1>2. w \in [Threads -> Jobs]
  BY <1>1, WorkAssumption
<1>3. hp \in 0 .. MaxHp /\ maxHp \in 0 .. MaxHp /\ 0 \in 0 .. MaxHp /\ hp \in 0 .. MaxHp + 1
  BY PowersAssumption DEF Init
<1>4. /\ arrays = <<LockCount(hp)>> /\ Len(arrays) = 1 /\ Current = 1 /\ arrays[Current] = LockCount(hp)
      /\ arrays[1] = LockCount(hp) /\ LockCount(hp) \in 1 .. MaxNumLocks /\ HashSize(MaxHp) \in Nat
      /\ LockCount(0) <= LockCount(hp) /\ LockCount(0) \in Nat
  BY <1>3, SizeFacts, PowersAssumption, LocksAssumption DEF Init, Current
<1>5. my \in [Threads -> Locals]
  <2>1. \A job \in Jobs : Fresh(job) \in Locals
    BY <1>3 DEF Fresh, Locals
  <2> QED
    BY <1>1, <1>2, <2>1
<1>6. pc \in [Threads -> Places]
  <2>1. \A job \in Jobs : Entry(job) \in Places
    BY DEF Entry, Jobs, Places
  <2> QED
    BY <1>1, <1>2, <2>1
<1>7. arrays \in Seq(1 .. MaxNumLocks)
  BY <1>4
<1>8. StateTyped
  BY <1>3, <1>4, <1>6, <1>7, PowersAssumption, LocksAssumption DEF StateTyped, Init
<1>9. ASSUME NEW t \in Threads PROVE ThreadFits(t)
  <2>1. /\ my[t] = Fresh(w[t]) /\ pc[t] = Entry(w[t]) /\ w[t] \in Jobs
    BY <1>1, <1>2
  <2>2. /\ my[t].job = w[t] /\ my[t].hp = 0 /\ my[t].then = "done"
        /\ my[t].goal = IF w[t][1] \in {"rehash", "clear"} THEN "all" ELSE "op"
        /\ my[t].kind = IF w[t][1] \in {"find", "upsert"} THEN "read" ELSE "write"
    BY <2>1 DEF Fresh
  <2>3. /\ pc[t] \in {"snapshot", "compare", "array", "done"}
        /\ pc[t] = "snapshot" => w[t][1] \in KeyJobs
        /\ pc[t] = "compare" => w[t][1] = "rehash"
        /\ pc[t] = "array" => w[t][1] = "clear"
    BY <2>1 DEF Entry, Jobs, KeyJobs
  <2>4. CallFits(t)
    BY <2>2, <2>3 DEF CallFits, Job, Taking, Having, Upping, Resizing
  <2>5. NeedsFit(t)
    BY <1>4, <2>2, <2>3 DEF NeedsFit, Taking, Having, Upping, Resizing
  <2>6. ModesFit(t)
    BY <2>3 DEF Init, ModesFit, ModeFits, Taking, Having, Upping, Resizing
  <2> QED
    BY <2>4, <2>5, <2>6 DEF ThreadFits
<1>10. Compatible
  BY DEF Init, Compatible, Claims
<1>11. \A t \in Threads : pc[t] \notin Resizing
  <2>1. \A job \in Jobs : Entry(job) \notin Resizing
    BY DEF Entry, Jobs, Resizing
  <2> QED
    BY <1>1, <1>2, <2>1
<1>12. Counted
  <2>1. \A l \in 0 .. arrays[Current] - 1 : <<Current, l>> \in LockIds
    BY <1>4, PowersAssumption, LocksAssumption DEF LockIds
  <2>2. Late = {}
    BY <2>1 DEF Late, Init
  <2> QED
    BY <1>11, <2>2, FS_EmptySet DEF Counted, Init, Resizing
<1>13. ArraysFit
  <2>1. arrays[Current] = LockCount(hp) /\ Current <= hp + 1 /\ oldHp = 0
    BY <1>3, <1>4 DEF Init
  <2> QED
    BY <1>3, <1>4, <1>11, <2>1 DEF ArraysFit, Resizing
<1> QED
  BY <1>5, <1>8, <1>9, <1>10, <1>12, <1>13 DEF IInv, Typed

\* The inductive invariant holds for every table, every set of threads and every
\* workload, without further hypotheses.
THEOREM Invariant == Spec => []IInv
BY InitIInv, StepIInv, NextSteps, PTL DEF Spec

\* A reader that has added a share over the bit of a writer does nothing but take it
\* back.
LEMMA TentativeRests ==
  ASSUME NEW t \in tentative, pc[t] = "lock", my[t].kind = "read"
  PROVE  ~Step(t)
BY DEF Step, CompareHashpower, ReadHashpower, ReadArray, Claim, Enter, NextArray, Share,
   CheckHashpower, UpgradeToMigrate, EnterToMigrate, MigrateAsReader, MigrateAsWriter, Release,
   FinishOperation, ChooseTarget, UpgradeLow, UpgradeHigh, TryUpgrade, FinishWriting, RunCuckoo,
   SearchBucket, Displace, DisplaceLast, TableFull, AskFor, LeavePath, LeaveLast, OwnsTable,
   ResizeRejected, DoubleLocks, SwapBuckets, GrowBuckets, RehashLocksStep, ReplaceBuckets,
   ClearTable

LEMMA SharesNumber ==
  ASSUME tentative \subseteq Threads, NEW x
  PROVE  Shares(x) \in Nat
<1> DEFINE S == {u \in Threads : mode[x][u] = "read"} \cup {u \in tentative : Wanted(u) = x}
<1>1. S \subseteq Threads
  OBVIOUS
<1>2. IsFiniteSet(S)
  BY <1>1, ThreadsAssumption, FS_Subset
<1> QED
  BY <1>2, FS_CardinalityType DEF Shares

\* Every variable keeps its type: the count of unmigrated locks stays between 0 and
\* kMaxNumLocks, and there is never an array of locks too many.
THEOREM TypeCorrect == Spec => []TypeOK
<1>1. Init => TypeOK
  <2> SUFFICES ASSUME Init PROVE TypeOK
    OBVIOUS
  <2>1. StateTyped
    BY InitIInv DEF IInv, Typed
  <2> QED
    BY <2>1 DEF TypeOK, Init, NotLoaded
<1>2. IInv /\ IInv' /\ TypeOK /\ [Next]_vars => TypeOK'
  <2> SUFFICES ASSUME IInv, IInv', TypeOK, [Next]_vars PROVE TypeOK'
    OBVIOUS
  <2>0. StateTyped' /\ my \in [Threads -> Locals]
    BY DEF IInv, Typed
  <2>1. CASE UNCHANGED vars
    BY <2>0, <2>1 DEF vars, TypeOK
  <2>2. ASSUME NEW t \in Threads, Forgetting(t) PROVE TypeOK'
    <3>1. seen' \in [Threads -> {NotLoaded} \cup Nat] /\ tentative' = tentative /\ Step(t)
      BY <2>2 DEF Forgetting, TypeOK
    <3>2. t \notin tentative
      BY <3>1, TentativeRests DEF TypeOK
    <3>3. \A u \in tentative : pc'[u] = pc[u] /\ my'[u] = my[u]
      BY <3>1, <3>2, StepLocals DEF TypeOK
    <3> QED
      BY <2>0, <3>1, <3>3 DEF TypeOK
  <2>3. ASSUME NEW t \in Threads, OnWord(t) PROVE TypeOK'
    <3>2. CASE LoadWord(t)
      <4>1. PICK x : seen' = [seen EXCEPT ![t] = Shares(x)]
        BY <3>2 DEF LoadWord
      <4>2. Shares(x) \in Nat
        BY SharesNumber DEF TypeOK
      <4> QED
        BY <2>0, <3>2, <4>1, <4>2 DEF LoadWord, TypeOK
    <3>3. CASE AddTentatively(t)
      BY <2>0, <3>3 DEF AddTentatively, TypeOK
    <3>4. CASE TakeBack(t)
      BY <2>0, <3>4 DEF TakeBack, TypeOK
    <3> QED
      BY <2>3, <3>2, <3>3, <3>4 DEF OnWord
  <2> QED
    BY <2>1, <2>2, <2>3 DEF Next, ThreadStep
<1> QED
  BY <1>1, <1>2, Invariant, PTL DEF Spec

\* num_remaining_lazy_rehash_locks_ is the number of unmigrated locks, old_buckets_ has
\* what is under them and its memory until the last is migrated (rehash_lock).
THEOREM OldBucketsAreCounted == Spec => []OldBucketsCounted
<1>1. IInv => OldBucketsCounted
  BY DEF IInv, Counted, Late, OldBucketsCounted
<1> QED
  BY <1>1, Invariant, PTL

\* All steps treat every lock as RWLock allows: nobody unlocks what it has not got,
\* and an upgrade or a degradation is made by a holder.
THEOREM LocksUsedAsRWLocks == Spec => UsedAsRWLocks
<1> DEFINE Used == \A x \in LockIds : x[1] <= Len(arrays) => OneLock(x)!Next \/ UNCHANGED mode[x]
<1>1. IInv /\ [Next]_vars => [Used]_vars
  <2> SUFFICES ASSUME IInv, [Steps]_core, NEW x \in LockIds, x[1] <= Len(arrays)
               PROVE  OneLock(x)!Next \/ UNCHANGED mode[x]
    BY NextSteps DEF Used
  <2>0. mode \in [LockIds -> [Threads -> Modes]]
    BY DEF IInv, Typed, StateTyped, Modes
  <2>1. CASE UNCHANGED core
    BY <2>1 DEF core
  <2>2. ASSUME NEW t \in Threads, Step(t) PROVE OneLock(x)!Next \/ UNCHANGED mode[x]
    <3>1. CASE mode' = mode
      BY <3>1
    <3>2. CASE \E y \in LockIds : \E m \in Modes : Transition(y, t, m) /\ Becomes(y, t, m)
      <4>1. PICK y \in LockIds, m \in Modes : Transition(y, t, m) /\ Becomes(y, t, m)
        BY <3>2
      <4>2. CASE x # y
        BY <2>0, <4>1, <4>2 DEF Becomes
      <4>3. CASE x = y
        <5>1. mode'[x] = [mode[x] EXCEPT ![t] = m] /\ Transition(x, t, m)
          BY <2>0, <4>1, <4>3 DEF Becomes
        <5> QED
          BY <5>1 DEF OneLock!Next, OneLock!AcquireRead, OneLock!Claim, OneLock!ClaimByUpgrade,
             OneLock!Enter, OneLock!Degrade, OneLock!Release, OneLock!Unclaimed, OneLock!Claims,
             OneLock!NoReader, Transition, Unclaimed, NoReader
      <4> QED
        BY <4>2, <4>3
    <3>3. CASE /\ Current' = Current + 1
               /\ mode' \in [LockIds -> [Threads -> Modes]]
               /\ \A y \in LockIds : \A u \in Threads :
                    mode'[y][u] = IF u = t /\ y \in ArrayLocks(Current)' THEN "write" ELSE mode[y][u]
      <4>1. x \notin ArrayLocks(Current)'
        BY <3>3, ArraysFacts DEF ArrayLocks, Current, IInv, Typed
      <4>2. \A u \in Threads : mode'[x][u] = mode[x][u]
        BY <3>3, <4>1
      <4> QED
        BY <2>0, <3>3, <4>2
    <3> QED
      BY <2>2, <3>1, <3>2, <3>3, StepLocks DEF LocksStep
  <2> QED
    BY <2>1, <2>2 DEF Steps, core
<1> QED
  BY <1>1, Invariant, PTL DEF Spec, UsedAsRWLocks

-----------------------------------------------------------------------------
(* What a thread may rely on that has its locks in the current array of    *)
(* locks: for tables of any size, and any calls.                           *)

\* Where a thread relies on its snapshot of the hashpower: from its first lock
\* and the comparison under it on.
Kept(t) == \/ pc[t] \in Having \cup {"upgrade", "upgraded", "migrating"}
           \/ pc[t] \in {"lock", "enter"} /\ my[t].todo # Inds(t)

\* Then its hashpower is that of the table.
Snap(t) == my[t].goal # "all" /\ Kept(t) => my[t].hp = hp

\* A reader has migrated the locks it has taken; a writer migrates all of its
\* locks before it goes on.
Mig(t) ==
  my[t].goal # "all" =>
    /\ pc[t] \in Taking \cup Having /\ my[t].kind = "read" =>
         \A l \in Inds(t) \ my[t].todo : migrated[<<my[t].array, l>>]
    /\ pc[t] = "hold" => \A l \in Inds(t) : migrated[<<my[t].array, l>>]

\* The stronger invariant.
CInv == IInv /\ \A t \in Threads : Mig(t) /\ (my[t].array = Current => Snap(t))

\* A new array is the work of one who has all the locks and is not done.
LEMMA StepAppends ==
  ASSUME IInv, NEW t \in Threads, Step(t)
  PROVE  arrays' = arrays \/ (OwnsTable(t) /\ pc'[t] \in Resizing)
<1>1. Step(t) => arrays' = arrays \/ DoubleLocks(t) \/ RehashLocksStep(t)
  BY DEF Step, CompareHashpower, ReadHashpower, ReadArray, Claim, Enter, NextArray, Share,
     CheckHashpower, UpgradeToMigrate, EnterToMigrate, MigrateAsReader, MigrateAsWriter, Release,
     FinishOperation, ChooseTarget, UpgradeLow, UpgradeHigh, TryUpgrade, FinishWriting, RunCuckoo,
     SearchBucket, Displace, DisplaceLast, TableFull, AskFor, LeavePath, LeaveLast,
     ResizeRejected, SwapBuckets, GrowBuckets, ReplaceBuckets, ClearTable, lockVars
<1>2. CASE DoubleLocks(t) \/ RehashLocksStep(t)
  BY <1>2 DEF DoubleLocks, RehashLocksStep, Goto, Resizing, IInv, Typed, StateTyped
<1> QED
  BY <1>1, <1>2

\* What a thread has taken of its locks it has.
LEMMA HeldFacts ==
  ASSUME IInv, NEW t \in Threads, my[t].goal # "all", pc[t] \in Taking \cup Having,
         NEW l \in Inds(t) \ my[t].todo
  PROVE  /\ <<my[t].array, l>> \in LockIds /\ <<my[t].array, l>> \in ArrayLocks(my[t].array)
         /\ pc[t] \notin Upping => mode[<<my[t].array, l>>][t] = my[t].kind
         /\ pc[t] \in Upping => UpMode(t, <<my[t].array, l>>)
         /\ mode[<<my[t].array, l>>][t] \in {"read", "upgrade", "write"}
<1>1. NeedsFit(t) /\ ModesFit(t) /\ my[t].kind \in {"read", "write"}
  BY DEF IInv, ThreadFits, Typed, Locals
<1>2. l \in 0 .. MaxNumLocks - 1 /\ my[t].array \in 1 .. MaxHp + 1
  BY <1>1, IndsFacts, ArraysFacts, PowersAssumption DEF IInv, Typed, NeedsFit
<1>3. <<my[t].array, l>> \in LockIds
  BY <1>2 DEF LockIds
<1>7. <<my[t].array, l>> \in ArrayLocks(my[t].array)
  <2>1. /\ LockCount(my[t].hp) \in Nat /\ arrays[my[t].array] \in Nat
        /\ LockCount(my[t].hp) <= arrays[my[t].array] /\ l \in 0 .. LockCount(my[t].hp) - 1
    BY <1>1, IndsFacts, ArraysFacts, SizeFacts, PowersAssumption, LocksAssumption
    DEF IInv, Typed, NeedsFit, Locals
  <2> QED
    BY <2>1 DEF ArrayLocks
<1>4. ModeFits(t, <<my[t].array, l>>)
  BY <1>1, <1>3 DEF ModesFit
<1>5. /\ pc[t] \notin Upping => mode[<<my[t].array, l>>][t] = my[t].kind
      /\ pc[t] \in Upping => UpMode(t, <<my[t].array, l>>)
  BY <1>4 DEF ModeFits
<1>6. mode[<<my[t].array, l>>][t] \in {"read", "upgrade", "write"}
  BY <1>1, <1>5 DEF UpMode, Upping
<1> QED
  BY <1>3, <1>5, <1>6, <1>7

\* So nobody else owns the table.
LEMMA HolderBlocks ==
  ASSUME IInv, NEW t \in Threads, OwnsTable(t) \/ pc[t] \in Resizing,
         NEW u \in Threads, u # t, NEW x \in ArrayLocks(Current)
  PROVE  x \in LockIds /\ mode[x][u] = "none"
<1>1. x \in LockIds /\ mode[x][t] = "write"
  BY OwnerFacts DEF ArrayLocks
<1>2. mode[x][u] \in {"none", "read", "claim", "upgrade", "write"}
  BY <1>1 DEF IInv, Typed, StateTyped
<1> QED
  BY <1>1, <1>2 DEF IInv, Compatible, Claims

\* Whoever relies on its snapshot has a lock.
LEMMA KeptHolds ==
  ASSUME IInv, NEW t \in Threads, my[t].goal # "all", Kept(t)
  PROVE  \E x \in ArrayLocks(my[t].array) : mode[x][t] # "none"
<1>1. NeedsFit(t)
  BY DEF IInv, ThreadFits
<1>2. CASE pc[t] \in {"upgrade", "upgraded", "migrating"}
  <2>1. /\ Wanted(t) \in ArrayLocks(my[t].array) /\ mode[Wanted(t)][t] = WantedMode(t)
    BY <1>1, <1>2, WantedHas, WantedIsLock DEF Taking, IInv, ArrayLocks
  <2> QED
    BY <1>2, <2>1 DEF WantedMode
<1>3. CASE pc[t] \in Having \cup {"lock", "enter"} /\ my[t].todo # Inds(t)
  <2>1. my[t].todo \subseteq Inds(t)
    BY <1>1, <1>3 DEF NeedsFit, Taking
  <2>2. PICK l \in Inds(t) \ my[t].todo : TRUE
    BY <1>3, <2>1
  <2>3. /\ <<my[t].array, l>> \in ArrayLocks(my[t].array)
        /\ mode[<<my[t].array, l>>][t] \in {"read", "upgrade", "write"}
    BY <1>3, <2>2, HeldFacts DEF Taking
  <2> QED
    BY <2>3
<1>4. CASE pc[t] \in Having /\ my[t].todo = Inds(t)
  BY <1>1, <1>4, IndsFacts DEF NeedsFit, IInv, Typed
<1> QED
  BY <1>2, <1>3, <1>4 DEF Kept

\* A thread comes to rely on its snapshot by comparing it.
LEMMA KeptFrom ==
  ASSUME IInv, NEW t \in Threads, Step(t), my'[t].goal # "all", Kept(t)'
  PROVE  /\ my'[t].hp = my[t].hp /\ my'[t].array = my[t].array /\ my[t].goal # "all"
         /\ hp' = hp /\ arrays' = arrays
         /\ Kept(t) \/ (pc[t] = "check" /\ my[t].hp = hp)
<1>0. /\ pc'[t] \in Having \cup {"upgrade", "upgraded", "migrating", "lock", "enter"}
      /\ pc'[t] \in {"lock", "enter"} => my'[t].todo # Inds(t)'
  <2>1. \/ pc'[t] \in Having \cup {"upgrade", "upgraded", "migrating"}
        \/ pc'[t] \in {"lock", "enter"} /\ my'[t].todo # Inds(t)'
    BY DEF Kept
  <2>2. "lock" \notin Having /\ "enter" \notin Having
    BY DEF Having, Upping
  <2> QED
    BY <2>1, <2>2
<1>12. arrays' = arrays
  BY <1>0, StepAppends DEF Having, Upping, Resizing
<1>1. CASE ReadArray(t)
  <2>1. /\ pc'[t] = "lock" /\ my'[t].goal = my[t].goal /\ my'[t].uses = my[t].uses
        /\ my'[t].todo = IF my[t].goal = "all" THEN 0 .. arrays[Current] - 1 ELSE Inds(t)
    BY <1>1 DEF ReadArray, Goto, Set, Inds, IInv, Typed, StateTyped, Locals
  <2>2. Inds(t)' = Inds(t)
    BY <2>1 DEF Inds
  <2> QED
    BY <1>0, <1>12, <2>1, <2>2
<1>2. ASSUME Advance(t)
      PROVE  my'[t].hp = my[t].hp /\ my'[t].array = my[t].array /\ my'[t].goal = my[t].goal
  BY <1>2 DEF Advance, Set, IInv, Typed, Locals
<1>3. CASE Enter(t) \/ Share(t)
  <2>1. ASSUME my[t].goal # "all", ~HasNone(t) PROVE Kept(t)
    BY <1>3, <2>1, HasNoneFacts DEF Enter, Share, Kept
  <2>2. pc'[t] # "check"
    BY <1>0 DEF Having, Upping
  <2>3. hp' = hp /\ (Advance(t) \/ my' = my) /\ (my[t].goal = "all" \/ ~HasNone(t))
    BY <1>3, <2>2 DEF Enter, Share, AfterShare, tableVars, Goto, IInv, Typed, StateTyped
  <2> QED
    BY <1>2, <1>12, <2>1, <2>3
<1>4. CASE Claim(t)
  <2>1. my' = my /\ hp' = hp /\ pc[t] = "lock" /\ pc'[t] = "enter" /\ Inds(t)' = Inds(t)
    BY <1>4 DEF Claim, Goto, IInv, Typed, StateTyped, tableVars, Inds
  <2> QED
    BY <1>0, <1>12, <2>1 DEF Kept
<1>5. CASE CheckHashpower(t)
  <2>1. pc[t] = "check" /\ hp = my[t].hp /\ hp' = hp /\ (Advance(t) \/ my' = my)
    BY <1>0, <1>5 DEF CheckHashpower, AfterShare, Goto, IInv, Typed, StateTyped, tableVars, Having, Upping
  <2> QED
    BY <1>2, <1>12, <2>1
<1>6. CASE UpgradeToMigrate(t) \/ EnterToMigrate(t) \/ MigrateAsReader(t) \/ MigrateAsWriter(t)
  <2>1. hp' = hp /\ (Advance(t) \/ my' = my) /\ Kept(t)
    BY <1>6 DEF UpgradeToMigrate, EnterToMigrate, MigrateAsReader, MigrateAsWriter, Kept, Having, tableVars
  <2> QED
    BY <1>2, <1>12, <2>1
<1>7. CASE ChooseTarget(t)
  BY <1>7, <1>12 DEF ChooseTarget, Set, Kept, Having, IInv, Typed, Locals, tableVars
<1>8. CASE UpgradeLow(t) \/ UpgradeHigh(t)
  <2>1. pc'[t] # "release"
    BY <1>0 DEF Having, Upping
  <2>2. my' = my /\ hp' = hp /\ pc[t] \in Upping
    BY <1>8, <2>1 DEF UpgradeLow, UpgradeHigh, TryUpgrade, Leave, Goto, Upping, IInv, Typed, StateTyped, tableVars
  <2> QED
    BY <1>12, <2>2 DEF Kept, Having, IInv, ThreadFits, CallFits
<1>9. CASE NextArray(t)
  BY <1>9 DEF NextArray, Set, IInv, Typed, Locals
<1>10. CASE Release(t)
  BY <1>0, <1>10 DEF Release, Goto, IInv, Typed, StateTyped, Having, Upping, Locals
<1>11. CASE \/ CompareHashpower(t) \/ ReadHashpower(t) \/ FinishOperation(t) \/ FinishWriting(t)
            \/ RunCuckoo(t) \/ LeavePath(t) \/ LeaveLast(t) \/ ResizeRejected(t) \/ SwapBuckets(t)
            \/ GrowBuckets(t) \/ ReplaceBuckets(t) \/ ClearTable(t)
            \/ SearchBucket(t) \/ Displace(t) \/ DisplaceLast(t) \/ TableFull(t)
            \/ DoubleLocks(t) \/ RehashLocksStep(t)
  BY <1>0, <1>11 DEF CompareHashpower, ReadHashpower, FinishOperation, FinishWriting, RunCuckoo,
     LeavePath, LeaveLast, ResizeRejected, SwapBuckets, GrowBuckets, ReplaceBuckets, ClearTable,
     SearchBucket, Displace, DisplaceLast, TableFull, AskFor, DoubleLocks, RehashLocksStep,
     Leave, Goto, IInv, Typed, StateTyped, Having, Upping
<1> QED
  BY <1>1, <1>3, <1>4, <1>5, <1>6, <1>7, <1>8, <1>9, <1>10, <1>11, <1>12 DEF Step

\* The hashpower changes, and locks become unmigrated again, only in the hands
\* of one who has all the locks.
LEMMA OwnerChanges ==
  ASSUME IInv, NEW t \in Threads, Step(t)
  PROVE  /\ hp' = hp \/ pc[t] \in Resizing
         /\ pc[t] \in Resizing \/ \A x \in LockIds : migrated[x] => migrated'[x]
<1> USE DEF Step, CompareHashpower, ReadHashpower, ReadArray, Claim, Enter, NextArray, Share,
    CheckHashpower, UpgradeToMigrate, EnterToMigrate, MigrateAsReader, MigrateAsWriter, Release,
    FinishOperation, ChooseTarget, UpgradeLow, UpgradeHigh, TryUpgrade, FinishWriting, RunCuckoo,
    SearchBucket, Displace, DisplaceLast, TableFull, AskFor, LeavePath, LeaveLast,
    ResizeRejected, DoubleLocks, RehashLocksStep, SwapBuckets, GrowBuckets, ReplaceBuckets,
    ClearTable
<1>1. hp' = hp \/ pc[t] \in Resizing
  BY DEF tableVars, Resizing
<1>2. pc[t] \in Resizing \/ \A x \in LockIds : migrated[x] => migrated'[x]
  BY DEF lockVars, Resizing, RehashLocks, FinishRehash
<1> QED
  BY <1>1, <1>2

\* So nobody can change the hashpower under a lock of the current array.
LEMMA SnapStep ==
  ASSUME CInv, NEW t \in Threads, Step(t), NEW u \in Threads, my'[u].array = Current'
  PROVE  Snap(u)'
<1> SUFFICES ASSUME my'[u].goal # "all", Kept(u)' PROVE my'[u].hp = hp'
  BY DEF Snap
<1>1. CASE u = t
  BY <1>1, KeptFrom DEF CInv, Snap, Current
<1>2. CASE u # t
  <2>1. pc'[u] = pc[u] /\ my'[u] = my[u]
    BY <1>2, StepLocals DEF CInv
  <2>2. Inds(u)' = Inds(u)
    BY <2>1 DEF Inds
  <2>3. Kept(u) /\ my[u].goal # "all"
    BY <2>1, <2>2 DEF Kept
  <2>4. my[u].array \in 1 .. Current /\ Current' >= Current /\ Current \in Nat
    BY <2>3, StepArrays, ArraysFacts
    DEF CInv, IInv, ThreadFits, NeedsFit, Kept, Taking, Typed, ArraysExtended
  <2>5. my[u].array = Current
    BY <2>1, <2>4, StepArrays DEF ArraysExtended, CInv, IInv, Typed, StateTyped, Current
  <2>6. PICK x \in ArrayLocks(Current) : mode[x][u] # "none"
    BY <2>3, <2>5, KeptHolds DEF CInv
  <2>7. pc[t] \notin Resizing
    BY <1>2, <2>6, HolderBlocks DEF CInv
  <2>8. my[u].hp = hp
    BY <2>3, <2>5 DEF CInv, Snap
  <2> QED
    BY <2>1, <2>7, <2>8, OwnerChanges DEF CInv
<1> QED
  BY <1>1, <1>2

\* The locks of a superseded array are migrated, once and for all.
LEMMA StaleMig ==
  ASSUME IInv', NEW t \in Threads, my'[t].array # Current'
  PROVE  Mig(t)'
<1> SUFFICES ASSUME pc'[t] \in Taking \cup Having, NEW l \in Inds(t)'
             PROVE  migrated'[<<my'[t].array, l>>]
  BY DEF Mig, Having
<1>1. my'[t].array \in 1 .. MaxHp + 1
  BY PowersAssumption DEF IInv, ThreadFits, NeedsFit, Typed, StateTyped, Current
<1>2. l \in 0 .. MaxNumLocks - 1
  BY LocksAssumption DEF Inds, LockInd, IInv, Typed, Locals
<1>3. <<my'[t].array, l>> \in LockIds \ ArrayLocks(Current)'
  BY <1>1, <1>2 DEF LockIds, ArrayLocks
<1> QED
  BY <1>3 DEF IInv, Counted

\* The lock of a reader that goes on is migrated, or a writer has done it.
LEMMA AdvanceMig ==
  ASSUME CInv, NEW t \in Threads, pc[t] \in Taking, Advance(t), my[t].goal # "all",
         arrays' = arrays,
         \A x \in LockIds : migrated[x] => migrated'[x],
         my[t].kind = "read" => migrated'[Wanted(t)]
  PROVE  Mig(t)'
<1> DEFINE left == my[t].todo \ {Wanted(t)[2]}
<1>1. /\ my'[t].todo = left /\ my'[t].uses = my[t].uses /\ my'[t].array = my[t].array
      /\ my'[t].kind = my[t].kind /\ my'[t].goal = my[t].goal /\ Inds(t)' = Inds(t)
      /\ pc'[t] = "hold" => left = {} /\ my[t].kind # "write"
  BY DEF Advance, Goto, Set, Inds, CInv, IInv, Typed, StateTyped, Locals
<1>2. NeedsFit(t) /\ Typed /\ my[t].kind \in {"read", "write"}
  BY DEF CInv, IInv, ThreadFits, Typed, Locals
<1>3. Wanted(t) = <<my[t].array, Wanted(t)[2]>>
  BY <1>2, WantedIsLock
<1>4. ASSUME my[t].kind = "read", NEW l \in Inds(t) \ left PROVE migrated'[<<my[t].array, l>>]
  <2>1. CASE l = Wanted(t)[2]
    BY <1>3, <1>4, <2>1
  <2>2. CASE l # Wanted(t)[2]
    <3>1. l \in Inds(t) \ my[t].todo
      BY <1>4, <2>2
    <3>2. <<my[t].array, l>> \in LockIds
      BY <3>1, HeldFacts DEF CInv
    <3> QED
      BY <1>4, <3>1, <3>2 DEF CInv, Mig
  <2> QED
    BY <2>1, <2>2
<1> HIDE DEF left
<1> QED
  BY <1>1, <1>2, <1>4 DEF Mig

\* ... or nothing of that kind has changed.
LEMMA SameMig ==
  ASSUME CInv, NEW t \in Threads, my[t].goal # "all",
         pc[t] \in Taking \cup Having, pc'[t] \in Taking \cup Having,
         pc'[t] # "hold",
         my'[t].todo = my[t].todo, my'[t].uses = my[t].uses, my'[t].array = my[t].array,
         my'[t].kind = my[t].kind, my'[t].goal = my[t].goal,
         \A x \in LockIds : migrated[x] => migrated'[x]
  PROVE  Mig(t)'
<1>1. Inds(t)' = Inds(t)
  BY DEF Inds
<1>2. NeedsFit(t)
  BY DEF CInv, IInv, ThreadFits
<1>3. \A l \in Inds(t) : <<my[t].array, l>> \in LockIds
  BY <1>2, IndsFacts, ArraysFacts, PowersAssumption DEF CInv, IInv, Typed, NeedsFit, LockIds
<1>4. CASE my[t].kind = "read"
  <2>1. \A l \in Inds(t) \ my[t].todo : migrated'[<<my[t].array, l>>]
    BY <1>3, <1>4 DEF CInv, Mig
  <2> QED
    BY <1>1, <2>1 DEF Mig
<1>5. CASE my[t].kind # "read"
  BY <1>1, <1>3, <1>5 DEF CInv, Mig
<1> QED
  BY <1>4, <1>5

\* A step of its own leaves a thread with its locks migrated.
LEMMA OwnMig ==
  ASSUME CInv, NEW t \in Threads, Step(t)
  PROVE  Mig(t)'
<1> SUFFICES ASSUME my'[t].goal # "all", pc'[t] \in Taking \cup Having, my'[t].array = Current'
             PROVE  Mig(t)'
  BY StepIInv, StaleMig DEF Mig, Having, Steps, CInv
<1>0. /\ arrays' = arrays /\ CallFits(t) /\ Typed /\ NeedsFit(t)
      /\ pc[t] \in Resizing \/ \A x \in LockIds : migrated[x] => migrated'[x]
      /\ pc'[t] \notin Idle /\ pc'[t] # "release" /\ pc'[t] \notin Resizing
  BY StepAppends, OwnerChanges DEF CInv, IInv, ThreadFits, Taking, Having, Idle, Upping, Resizing
<1>1. CASE ReadArray(t)
  <2>1. /\ pc'[t] = "lock" /\ my'[t].goal = my[t].goal /\ my'[t].uses = my[t].uses
        /\ my'[t].todo = IF my[t].goal = "all" THEN 0 .. arrays[Current] - 1 ELSE Inds(t)
    BY <1>0, <1>1 DEF ReadArray, Goto, Set, Inds, Typed, StateTyped, Locals
  <2>2. Inds(t)' = Inds(t)
    BY <2>1 DEF Inds
  <2> QED
    BY <2>1, <2>2 DEF Mig
<1>2. ASSUME Advance(t) PROVE my'[t].goal = my[t].goal /\ my'[t].array = my[t].array
  BY <1>0, <1>2 DEF Advance, Set, Typed, Locals
<1>3. ASSUME pc[t] \in Taking \cup Having, my' = my, pc'[t] # "hold" PROVE Mig(t)'
  <2>1. pc[t] \notin Resizing
    BY <1>3 DEF Taking, Having, Upping, Resizing
  <2> QED
    BY <1>0, <1>3, <2>1, SameMig
<1>4. CASE Claim(t) \/ UpgradeToMigrate(t) \/ EnterToMigrate(t)
  BY <1>0, <1>3, <1>4 DEF Claim, UpgradeToMigrate, EnterToMigrate, Goto, Typed, StateTyped, Taking
<1>5. CASE Enter(t)
  <2>1. pc[t] = "enter" /\ my[t].kind = "write" /\ pc[t] \notin Resizing
    BY <1>0, <1>5 DEF Enter, CallFits, Resizing
  <2>2. CASE Advance(t)
    BY <1>0, <1>2, <2>1, <2>2, AdvanceMig DEF Taking
  <2>3. CASE ~Advance(t)
    BY <1>0, <1>3, <1>5, <2>3 DEF Enter, Goto, Typed, StateTyped, Taking
  <2> QED
    BY <2>2, <2>3
<1>6. ASSUME pc[t] \in {"lock", "check"}, AfterShare(t), migrated' = migrated PROVE Mig(t)'
  <2>1. CASE migrated[Wanted(t)]
    BY <1>0, <1>2, <1>6, <2>1, AdvanceMig DEF AfterShare, Taking
  <2>2. CASE ~migrated[Wanted(t)]
    BY <1>0, <1>3, <1>6, <2>2 DEF AfterShare, Goto, Typed, StateTyped, Taking
  <2> QED
    BY <2>1, <2>2
<1>7. CASE Share(t)
  <2>1. CASE HasNone(t)
    BY <1>0, <1>3, <1>7, <2>1 DEF Share, Goto, Typed, StateTyped, Taking
  <2>2. CASE ~HasNone(t)
    BY <1>6, <1>7, <2>2 DEF Share
  <2> QED
    BY <2>1, <2>2
<1>8. CASE CheckHashpower(t)
  <2>1. hp = my[t].hp
    BY <1>0, <1>8 DEF CheckHashpower, Goto, Typed, StateTyped, Idle
  <2>2. CASE my[t].kind = "write"
    BY <1>0, <1>2, <1>8, <2>1, <2>2, AdvanceMig DEF CheckHashpower, Taking
  <2>3. CASE my[t].kind # "write"
    BY <1>6, <1>8, <2>1, <2>3 DEF CheckHashpower
  <2> QED
    BY <2>2, <2>3
<1>9. CASE MigrateAsReader(t)
  <2>1. Advance(t) /\ pc[t] \in Taking /\ pc[t] \notin Resizing
    BY <1>9 DEF MigrateAsReader, Taking, Resizing
  <2>2. /\ Wanted(t) \in LockIds /\ Wanted(t)[1] = Current /\ Wanted(t) = <<Current, Wanted(t)[2]>>
    BY <1>0, <1>2, <2>1, WantedIsLock DEF CInv, Current
  <2>3. migrated'[Wanted(t)]
    BY <1>9, <2>2 DEF MigrateAsReader, RehashLocks
  <2> QED
    BY <1>0, <1>2, <2>1, <2>3, AdvanceMig
<1>10. CASE MigrateAsWriter(t)
  <2>1. /\ pc'[t] = "hold" /\ my' = my /\ my[t].kind = "write" /\ my[t].goal # "all"
        /\ RehashLocks(Inds(t)) /\ pc[t] \in Having
    BY <1>0, <1>10 DEF MigrateAsWriter, Goto, Typed, StateTyped, CallFits, Inds, Having
  <2>2. /\ Inds(t) \subseteq 0 .. MaxNumLocks - 1 /\ my[t].array = Current
        /\ Inds(t)' = Inds(t)
    BY <1>0, <2>1, IndsFacts DEF CInv, Typed, Inds, Current
  <2>3. \A l \in Inds(t) : <<Current, l>> \in LockIds
    BY <1>0, <2>2, ArraysFacts DEF LockIds, Typed
  <2>4. \A l \in Inds(t) : migrated'[<<Current, l>>]
    BY <2>1, <2>3 DEF RehashLocks
  <2> QED
    BY <2>1, <2>2, <2>4 DEF Mig
<1>11. CASE ChooseTarget(t)
  <2>1. /\ pc[t] = "hold" /\ pc'[t] = "up1" /\ my'[t].todo = my[t].todo /\ my'[t].uses = my[t].uses
        /\ my'[t].array = my[t].array /\ my'[t].kind = my[t].kind /\ my'[t].goal = my[t].goal
    BY <1>0, <1>11 DEF ChooseTarget, Goto, Set, Typed, StateTyped, Locals
  <2> QED
    BY <1>0, <2>1, SameMig DEF Having, Upping, Resizing
<1>12. CASE UpgradeLow(t) \/ UpgradeHigh(t)
  <2>1. my' = my /\ pc[t] \in Upping /\ pc'[t] # "hold"
    BY <1>0, <1>12 DEF UpgradeLow, UpgradeHigh, TryUpgrade, Leave, Goto, Upping, Typed, StateTyped
  <2> QED
    BY <1>3, <2>1 DEF Having
<1>13. CASE NextArray(t)
  BY <1>0, <1>13 DEF NextArray, Set, Typed, Locals
<1>14. CASE Release(t)
  <2>1. /\ pc[t] = "release" /\ pc'[t] \in {"release", my[t].then}
        /\ my[t].then \in {"done", "snapshot", "cuckoo"}
    BY <1>0, <1>14 DEF Release, Goto, Typed, StateTyped, Locals
  <2> QED
    BY <1>0, <2>1 DEF Idle
<1>15. CASE \/ CompareHashpower(t) \/ ReadHashpower(t) \/ FinishOperation(t) \/ FinishWriting(t)
            \/ RunCuckoo(t) \/ LeavePath(t) \/ LeaveLast(t) \/ ResizeRejected(t) \/ SwapBuckets(t)
            \/ GrowBuckets(t) \/ ReplaceBuckets(t) \/ ClearTable(t)
            \/ SearchBucket(t) \/ Displace(t) \/ DisplaceLast(t) \/ TableFull(t)
            \/ DoubleLocks(t) \/ RehashLocksStep(t)
  BY <1>0, <1>15 DEF CompareHashpower, ReadHashpower, FinishOperation, FinishWriting, RunCuckoo,
     LeavePath, LeaveLast, ResizeRejected, SwapBuckets, GrowBuckets, ReplaceBuckets, ClearTable,
     SearchBucket, Displace, DisplaceLast, TableFull, AskFor, DoubleLocks, RehashLocksStep,
     Leave, Goto, Typed, StateTyped, Idle, Resizing
<1> QED
  BY <1>1, <1>4, <1>5, <1>7, <1>8, <1>9, <1>10, <1>11, <1>12, <1>13, <1>14, <1>15 DEF Step

\* What has been migrated stays so as long as someone has the lock.
LEMMA MigStep ==
  ASSUME CInv, NEW t \in Threads, Step(t), NEW u \in Threads
  PROVE  Mig(u)'
<1>1. CASE u = t
  BY <1>1, OwnMig
<1>2. CASE u # t
  <2>0. my'[u].array # Current' => Mig(u)'
    BY StepIInv, StaleMig DEF Steps, CInv
  <2> SUFFICES ASSUME my[u].goal # "all", pc[u] \in Taking \cup Having,
                      pc[u] = "hold" \/ my[u].kind = "read",
                      NEW l \in Inds(u) \ my[u].todo, my[u].array = Current'
               PROVE  migrated'[<<my[u].array, l>>]
    <3>1. pc'[u] = pc[u] /\ my'[u] = my[u]
      BY <1>2, StepLocals DEF CInv
    <3>2. Inds(u)' = Inds(u)
      BY <3>1 DEF Inds
    <3>3. pc[u] = "hold" => my[u].todo = {}
      BY DEF CInv, IInv, ThreadFits, NeedsFit, Having
    <3> QED
      BY <2>0, <3>1, <3>2, <3>3 DEF Mig, Having
  <2>1. migrated[<<my[u].array, l>>]
    BY DEF CInv, Mig
  <2>2. /\ <<my[u].array, l>> \in LockIds /\ <<my[u].array, l>> \in ArrayLocks(my[u].array)
        /\ mode[<<my[u].array, l>>][u] # "none"
    BY HeldFacts DEF CInv
  <2>4. my[u].array = Current
    BY StepArrays DEF ArraysExtended, CInv, IInv, ThreadFits, NeedsFit, Typed, StateTyped, Current
  <2>3. pc[t] \notin Resizing
    BY <1>2, <2>2, <2>4, HolderBlocks DEF CInv
  <2> QED
    BY <2>1, <2>2, <2>3, OwnerChanges DEF CInv
<1> QED
  BY <1>1, <1>2

\* The stronger invariant is inductive as well.
LEMMA StepCInv == CInv /\ [Steps]_core => CInv'
<1> SUFFICES ASSUME CInv, [Steps]_core PROVE CInv'
  OBVIOUS
<1>1. IInv'
  BY StepIInv DEF CInv
<1>2. CASE UNCHANGED core
  BY <1>1, <1>2 DEF core, CInv, Snap, Mig, Kept, Inds, Current
<1>3. ASSUME NEW t \in Threads, Step(t) PROVE CInv'
  BY <1>1, <1>3, SnapStep, MigStep DEF CInv
<1> QED
  BY <1>2, <1>3 DEF Steps, core

LEMMA InitCInv == Init => CInv
<1> SUFFICES ASSUME Init PROVE CInv
  OBVIOUS
<1>1. ASSUME NEW t \in Threads PROVE pc[t] \in Idle
  <2>1. PICK w \in Workloads : pc = [u \in Threads |-> Entry(w[u])]
    BY DEF Init
  <2>2. \A job \in Jobs : Entry(job) \in Idle
    BY DEF Jobs, Entry, Idle
  <2> QED
    BY <2>1, <2>2, WorkAssumption
<1>2. ASSUME NEW t \in Threads PROVE Snap(t) /\ Mig(t)
  BY <1>1 DEF Snap, Mig, Kept, Idle, Taking, Having, Upping
<1> QED
  BY <1>2, InitIInv DEF CInv

\* The invariant of threads with current locks, for every table and all calls.
LEMMA CurrentInvariant == Spec => []CInv
BY InitCInv, StepCInv, NextSteps, PTL DEF Spec

-----------------------------------------------------------------------------
(* What follows for threads that have their locks in the current array.    *)

\* They have the hashpower of the table.
CurrentSnapshots ==
  \A t \in Threads :
    my[t].goal # "all" /\ pc[t] \in Having \cup {"migrating"} /\ my[t].array = Current =>
      my[t].hp = hp

\* Those who have all the locks, up to the last array, and those who have the
\* locks of an operation in it.
UpToDate(t) == my[t].goal = "all" \/ my[t].array = Current

\* They exclude each other.
CurrentExclusion ==
  \A t, u \in Threads : t # u /\ UpToDate(t) /\ UpToDate(u) =>
    \A x \in Access(t), y \in Access(u) : x[1] = y[1] => x[2] = "read" /\ y[2] = "read"

\* They use no bucket that was not moved.
CurrentMoved ==
  \A t \in Threads :
    pc[t] \in {"hold"} \cup Upping /\ my[t].goal # "all" /\ my[t].array = Current =>
      \A x \in Access(t) : x[1] % HashSize(oldHp) \notin unmoved

\* All threads, current or not, ask for locks that there are.
WantedInRange == \A t \in Threads : pc[t] \in Taking => Wanted(t)[2] < arrays[my[t].array]

\* The cases of Access.
LEMMA AccessCases ==
  ASSUME NEW t
  PROVE  /\ pc[t] = "hold" /\ my[t].goal # "all" => Access(t) = my[t].uses \X {my[t].kind}
         /\ pc[t] \in Upping /\ pc[t] # "writing" => Access(t) = Own(t) \X {"read"}
         /\ pc[t] = "writing" =>
              Access(t) = (Own(t) \X {"read"}) \cup {<<my[t].target, "write">>}
         /\ pc[t] = "migrating" => Access(t) = Under(Wanted(t)[2]) \X {"write"}
         /\ pc[t] = "migrate" =>
              Access(t) = (UNION {Under(LockInd(b)) : b \in my[t].uses}) \X {"write"}
         /\ OwnsTable(t) \/ pc[t] \in Resizing => Access(t) = (0 .. HashSize(hp) - 1) \X {"write"}
         /\ ~(\/ pc[t] = "hold" /\ my[t].goal # "all"
              \/ pc[t] \in Upping \cup {"migrating", "migrate"} \cup Resizing
              \/ OwnsTable(t)) => Access(t) = {}
<1> USE DEF Upping, Resizing, OwnsTable
<1>1. pc[t] = "hold" /\ my[t].goal # "all" => Access(t) = my[t].uses \X {my[t].kind}
  BY DEF Access
<1>2. pc[t] \in Upping /\ pc[t] # "writing" => Access(t) = Own(t) \X {"read"}
  BY DEF Access
<1>3. pc[t] = "writing" =>
        Access(t) = (Own(t) \X {"read"}) \cup {<<my[t].target, "write">>}
  BY DEF Access
<1>4. pc[t] = "migrating" => Access(t) = Under(Wanted(t)[2]) \X {"write"}
  BY DEF Access
<1>5. pc[t] = "migrate" =>
        Access(t) = (UNION {Under(LockInd(b)) : b \in my[t].uses}) \X {"write"}
  BY DEF Access
<1>6. OwnsTable(t) \/ pc[t] \in Resizing => Access(t) = (0 .. HashSize(hp) - 1) \X {"write"}
  BY DEF Access
<1>7. ~(\/ pc[t] = "hold" /\ my[t].goal # "all"
        \/ pc[t] \in Upping \cup {"migrating", "migrate"} \cup Resizing
        \/ OwnsTable(t)) => Access(t) = {}
  BY DEF Access
<1> QED
  BY <1>1, <1>2, <1>3, <1>4, <1>5, <1>6, <1>7

\* Whoever is up to date and uses a bucket has the lock over it, as a writer if it
\* writes.
LEMMA AccessLocked ==
  ASSUME CInv, NEW t \in Threads, UpToDate(t), NEW x \in Access(t)
  PROVE  /\ <<Current, LockInd(x[1])>> \in LockIds
         /\ mode[<<Current, LockInd(x[1])>>][t] \in {"read", "upgrade", "write"}
         /\ x[2] = "read" \/ mode[<<Current, LockInd(x[1])>>][t] = "write"
<1> DEFINE y == <<Current, LockInd(x[1])>>
<1>1. /\ NeedsFit(t) /\ CallFits(t) /\ IInv /\ Typed /\ hp \in 0 .. MaxHp + 1
      /\ my[t].kind \in {"read", "write"}
  BY SMTT(60), PowersAssumption DEF CInv, IInv, ThreadFits, Typed, StateTyped, Locals
<1>2. CASE pc[t] = "hold" /\ my[t].goal # "all"
  <2>1. x[1] \in my[t].uses /\ x[2] = my[t].kind
    BY <1>2, AccessCases
  <2>2. LockInd(x[1]) \in Inds(t) \ my[t].todo /\ my[t].array = Current
    BY <1>1, <1>2, <2>1 DEF Inds, NeedsFit, Having, UpToDate
  <2> QED
    BY <1>1, <1>2, <2>1, <2>2, HeldFacts DEF Having, Upping
<1>3. CASE pc[t] \in Upping
  <2>1. x[1] \in Own(t) /\ (x[2] = "read" \/ (pc[t] = "writing" /\ x[1] = my[t].target))
    <3>1. CASE pc[t] # "writing"
      <4>1. x \in Own(t) \X {"read"}
        BY <1>3, <3>1, AccessCases
      <4> QED
        BY <4>1
    <3>2. CASE pc[t] = "writing"
      <4>1. my[t].target \in Own(t)
        BY <1>1, <3>2 DEF CallFits, Upping
      <4>2. x \in (Own(t) \X {"read"}) \cup {<<my[t].target, "write">>}
        BY <3>2, AccessCases
      <4>3. CASE x \in Own(t) \X {"read"}
        BY <4>3
      <4>4. CASE x = <<my[t].target, "write">>
        BY <3>2, <4>1, <4>4
      <4> QED
        BY <4>2, <4>3, <4>4
    <3> QED
      BY <3>1, <3>2
  <2>2. my[t].uses = Own(t) /\ my[t].todo = {} /\ my[t].array = Current /\ my[t].goal # "all"
    BY <1>1, <1>3, UppingFacts DEF CallFits, Having, UpToDate
  <2>3. LockInd(x[1]) \in Inds(t) \ my[t].todo
    BY <2>1, <2>2 DEF Inds
  <2>4. /\ y \in LockIds /\ mode[y][t] \in {"read", "upgrade", "write"} /\ UpMode(t, y)
    BY <1>1, <1>3, <2>2, <2>3, HeldFacts DEF Having
  <2>5. x[2] = "read" \/ mode[y][t] = "write"
    BY <2>1, <2>4 DEF UpMode
  <2> QED
    BY <2>4, <2>5
<1>4. CASE pc[t] = "migrating"
  <2>1. LockInd(x[1]) = Wanted(t)[2]
    BY <1>4, AccessCases DEF Under
  <2>2. /\ Wanted(t) \in LockIds /\ mode[Wanted(t)][t] = "write" /\ my[t].array = Current
        /\ Wanted(t) = <<my[t].array, Wanted(t)[2]>>
    BY <1>1, <1>4, WantedHas, WantedIsLock DEF Taking, WantedMode, CallFits, UpToDate
  <2> QED
    BY <2>1, <2>2
<1>5. CASE pc[t] = "migrate"
  <2>1. PICK b \in my[t].uses : LockInd(x[1]) = LockInd(b)
    <3>1. x[1] \in UNION {Under(LockInd(b)) : b \in my[t].uses}
      BY <1>5, AccessCases
    <3>2. PICK b \in my[t].uses : x[1] \in Under(LockInd(b))
      BY <3>1
    <3> QED
      BY <3>2 DEF Under
  <2>2. LockInd(x[1]) \in Inds(t) \ my[t].todo
    BY <1>1, <1>5, <2>1 DEF Inds, NeedsFit, Having
  <2>3. my[t].kind = "write" /\ my[t].goal # "all" /\ my[t].array = Current
    BY <1>1, <1>5 DEF CallFits, UpToDate
  <2> QED
    BY <1>1, <1>5, <2>2, <2>3, HeldFacts DEF Having, Upping
<1>6. CASE OwnsTable(t) \/ pc[t] \in Resizing
  <2>1. x[1] \in 0 .. HashSize(hp) - 1
    BY <1>6, AccessCases
  <2>2. LockInd(x[1]) \in 0 .. LockCount(hp) - 1
    BY <1>1, <2>1, LockIndFacts
  <2>3. LockCount(hp) \in Nat /\ arrays[Current] \in Nat /\ LockCount(hp) <= arrays[Current]
    BY <1>1, SizeFacts, ArraysFacts, LocksAssumption DEF IInv, ArraysFit, Typed
  <2>4. LockInd(x[1]) \in 0 .. arrays[Current] - 1
    BY <2>2, <2>3
  <2>5. x \in (0 .. HashSize(hp) - 1) \X {"write"}
    BY <1>6, AccessCases
  <2> QED
    BY <1>1, <1>6, <2>4, <2>5, OwnerFacts
<1>7. CASE ~(\/ pc[t] = "hold" /\ my[t].goal # "all"
             \/ pc[t] \in Upping \cup {"migrating", "migrate"} \cup Resizing
             \/ OwnsTable(t))
  BY <1>7, AccessCases
<1> QED
  BY <1>2, <1>3, <1>4, <1>5, <1>6, <1>7

\* Two threads with access to one bucket share the lock over it.
LEMMA ExclusionFacts == CInv => CurrentExclusion
<1> SUFFICES ASSUME CInv, NEW t \in Threads, NEW u \in Threads, t # u,
                    UpToDate(t), UpToDate(u),
                    NEW x \in Access(t), NEW y \in Access(u), x[1] = y[1]
             PROVE  x[2] = "read" /\ y[2] = "read"
  BY DEF CurrentExclusion
<1> DEFINE l == <<Current, LockInd(x[1])>>
<1>1. /\ l \in LockIds
      /\ mode[l][t] \in {"read", "upgrade", "write"} /\ mode[l][u] \in {"read", "upgrade", "write"}
      /\ x[2] = "read" \/ mode[l][t] = "write"
      /\ y[2] = "read" \/ mode[l][u] = "write"
  BY AccessLocked
<1>2. Compatible
  BY DEF CInv, IInv
<1> HIDE DEF l
<1> QED
  BY <1>1, <1>2 DEF Compatible, Claims

\* The old bucket of a bucket in use is under the same lock, which is migrated.
LEMMA MovedFacts == CInv => CurrentMoved
<1> SUFFICES ASSUME CInv, NEW t \in Threads, pc[t] \in {"hold"} \cup Upping, my[t].goal # "all",
                    my[t].array = Current, NEW x \in Access(t), x[1] % HashSize(oldHp) \in unmoved
             PROVE  FALSE
  BY DEF CurrentMoved, Upping
<1> DEFINE size == HashSize(oldHp)
           b    == x[1]
<1>1. /\ NeedsFit(t) /\ CallFits(t) /\ IInv /\ Typed
      /\ oldHp \in 0 .. MaxHp /\ oldHp \in 0 .. MaxHp + 1
  BY PowersAssumption DEF CInv, IInv, ThreadFits, Typed, StateTyped
<1>2. my[t].todo = {} /\ my[t].kind \in {"read", "write"}
      /\ (pc[t] \in Upping => my[t].kind = "read" /\ my[t].uses = Own(t))
  BY <1>1, UppingFacts DEF NeedsFit, Having, CallFits, Typed, Locals
<1>3. b \in my[t].uses
  <2>1. CASE pc[t] = "hold"
    BY <2>1, AccessCases
  <2>2. CASE pc[t] \in Upping
    <3>1. my[t].target \in Own(t)
      BY <1>1, <2>2 DEF CallFits
    <3> QED
      BY <1>2, <2>2, <3>1, AccessCases
  <2> QED
    BY <2>1, <2>2
<1>4. LockInd(b) \in Inds(t) /\ b \in Nat
  BY <1>1, <1>3 DEF Inds, Typed, Locals
<1>5. migrated[<<Current, LockInd(b)>>]
  BY <1>2, <1>4 DEF CInv, Mig, Having
<1>6. LockInd(b % size) \in Late /\ Late # {}
  BY <1>1 DEF IInv, Counted
<1>7. size \in Nat \ {0} /\ size % MaxNumLocks = 0
  BY <1>1, <1>6, SizeFacts, LocksAssumption DEF IInv, Counted, HashSize
<1>8. LockInd(b % size) = LockInd(b)
  BY <1>4, <1>7, RemainderOfRemainder, LocksAssumption DEF LockInd
<1> QED
  BY <1>5, <1>6, <1>8 DEF Late

\* The locks wanted are in the array they are wanted from.
LEMMA WantedFits == IInv => WantedInRange
<1> SUFFICES ASSUME IInv, NEW t \in Threads, pc[t] \in Taking
             PROVE  Wanted(t)[2] < arrays[my[t].array]
  BY DEF WantedInRange
<1>1. /\ Wanted(t)[2] \in 0 .. arrays[my[t].array] - 1
      /\ arrays[my[t].array] \in 1 .. MaxNumLocks
  BY WantedIsLock, ArraysFacts DEF IInv, ThreadFits, Typed
<1> QED
  BY <1>1, LocksAssumption

\* Whatever the table and the calls: a thread with its locks in the current array of
\* locks has a valid snapshot, excludes every other such thread and every resize from
\* its buckets, and finds them moved; and no thread asks for a lock beyond its array.
\* What can go wrong goes wrong with the locks of a superseded array.
THEOREM CurrentArrayHolds ==
  Spec => [](CurrentSnapshots /\ CurrentExclusion /\ CurrentMoved /\ WantedInRange)
<1>1. CInv => CurrentSnapshots
  BY DEF CInv, Snap, Kept, CurrentSnapshots
<1>2. CInv => WantedInRange
  BY WantedFits DEF CInv
<1>3. CInv => CurrentSnapshots /\ CurrentExclusion /\ CurrentMoved /\ WantedInRange
  BY <1>1, <1>2, ExclusionFacts, MovedFacts
<1> QED
  BY <1>3, CurrentInvariant, PTL

-----------------------------------------------------------------------------
(* Tables that get at most one more array of locks: those that begin with  *)
(* all their locks, as the default constructor makes them (2^18 buckets    *)
(* and 2^16 locks), and smaller ones that double once.                     *)

\* The hypothesis: a table is constructed with at least kMaxNumLocks buckets, or
\* it can double but once, and no call of rehash() changes its hashpower.
SteadyArrays ==
  \A size \in Tables :
    \/ HashSize(size[1]) >= MaxNumLocks
    \/ /\ size[2] <= size[1] + 1
       /\ \A w \in Workloads, t \in Threads : w[t][1] = "rehash" => w[t][2] > size[2]

\* There is the one array of locks of the constructor.
Full == arrays = <<MaxNumLocks>>

\* Or one for the first hashpower, which is less than it can be.
Small(p) ==
  /\ maxHp <= p + 1
  /\ arrays[1] = HashSize(p) /\ HashSize(p) < MaxNumLocks
  /\ \A t \in Threads : Job(t) = "rehash" => my[t].job[2] > maxHp
  /\ \A t \in Threads : pc[t] # "replace"

\* Then a second one, from a doubling by one who has all the locks of the first.
Doubler(t, p) ==
  /\ (pc[t] = "swap" /\ hp = p) \/ (pc[t] = "grow" /\ oldHp = p)
  /\ \A x \in ArrayLocks(1) : mode[x][t] = "write"

Before(p) == Current = 1 /\ hp = p /\ \A t \in Threads : pc[t] \notin Resizing
During(p) == Current = 2 /\ \E t \in Threads : Doubler(t, p)
After(p)  == Current = 2 /\ hp = p + 1 /\ \A t \in Threads : pc[t] \notin Resizing

Once(p) == Small(p) /\ (Before(p) \/ During(p) \/ After(p))

\* Whoever relies on its snapshot has its locks in the newest array.
Latest == \A t \in Threads : my[t].goal # "all" /\ Kept(t) => my[t].array = Current

\* The stronger invariant.
SInv == CInv /\ (Full \/ \E p \in 0 .. MaxHp : Once(p)) /\ Latest

\* No array is ever appended to a full one.
LEMMA FullKept ==
  ASSUME IInv, Full, NEW t \in Threads, Step(t)
  PROVE  arrays' = arrays
<1>0. Current = 1 /\ arrays[Current] = MaxNumLocks
  BY DEF Full, Current
<1>1. ASSUME OwnsTable(t), NEW p \in 0 .. MaxHp, AppendLocks(t, p) PROVE arrays' = arrays
  <2>1. p \in 0 .. MaxHp + 1
    BY PowersAssumption
  <2>2. ~(arrays[Current] < LockCount(p))
    BY <1>0, <2>1, SizeFacts, LocksAssumption
  <2> QED
    BY <1>1, <2>2 DEF AppendLocks
<1>2. CASE DoubleLocks(t)
  <2>1. hp + 1 \in 0 .. MaxHp
    BY <1>2, PowersAssumption DEF DoubleLocks, IInv, Typed, StateTyped
  <2> QED
    BY <1>1, <1>2, <2>1 DEF DoubleLocks
<1>3. CASE RehashLocksStep(t)
  <2>1. PICK p \in my[t].job[2] .. MaxHp : AppendLocks(t, p)
    BY <1>3 DEF RehashLocksStep
  <2>2. p \in 0 .. MaxHp
    BY <1>3, <2>1, TargetFacts DEF RehashLocksStep
  <2> QED
    BY <1>1, <1>3, <2>1, <2>2 DEF RehashLocksStep
<1>4. Step(t) => arrays' = arrays \/ DoubleLocks(t) \/ RehashLocksStep(t)
  BY DEF Step, CompareHashpower, ReadHashpower, ReadArray, Claim, Enter, NextArray, Share,
     CheckHashpower, UpgradeToMigrate, EnterToMigrate, MigrateAsReader, MigrateAsWriter, Release,
     FinishOperation, ChooseTarget, UpgradeLow, UpgradeHigh, TryUpgrade, FinishWriting, RunCuckoo,
     SearchBucket, Displace, DisplaceLast, TableFull, AskFor, LeavePath, LeaveLast,
     ResizeRejected, SwapBuckets, GrowBuckets, ReplaceBuckets, ClearTable, lockVars
<1> QED
  BY <1>2, <1>3, <1>4

\* The maximum and the calls do not change.
LEMMA JobsKept ==
  ASSUME IInv, NEW t \in Threads, Step(t)
  PROVE  maxHp' = maxHp /\ \A u \in Threads : my'[u].job = my[u].job
<1>1. maxHp' = maxHp
  BY DEF Step, CompareHashpower, ReadHashpower, ReadArray, Claim, Enter, NextArray, Share,
     CheckHashpower, UpgradeToMigrate, EnterToMigrate, MigrateAsReader, MigrateAsWriter, Release,
     FinishOperation, ChooseTarget, UpgradeLow, UpgradeHigh, TryUpgrade, FinishWriting, RunCuckoo,
     SearchBucket, Displace, DisplaceLast, TableFull, AskFor, LeavePath, LeaveLast,
     ResizeRejected, DoubleLocks, RehashLocksStep, SwapBuckets, GrowBuckets, ReplaceBuckets,
     ClearTable, tableVars
<1>2. my \in [Threads -> Locals]
  BY DEF IInv, Typed
<1>3. ASSUME \/ Advance(t) \/ AfterShare(t) \/ my' = my
               \/ \E to \in {"done", "snapshot", "cuckoo"} : Leave(t, to)
      PROVE  my'[t].job = my[t].job
  BY <1>2, <1>3 DEF Advance, AfterShare, Leave, Set, Locals
<1>4. ASSUME \/ CompareHashpower(t) \/ Claim(t) \/ Enter(t) \/ Share(t) \/ CheckHashpower(t)
             \/ UpgradeToMigrate(t) \/ EnterToMigrate(t) \/ MigrateAsReader(t) \/ MigrateAsWriter(t)
             \/ FinishOperation(t) \/ UpgradeLow(t) \/ UpgradeHigh(t) \/ FinishWriting(t)
             \/ LeavePath(t) \/ LeaveLast(t) \/ ResizeRejected(t) \/ DoubleLocks(t)
             \/ SwapBuckets(t) \/ GrowBuckets(t) \/ ReplaceBuckets(t) \/ ClearTable(t)
      PROVE  my'[t].job = my[t].job
  BY <1>3, <1>4 DEF CompareHashpower, Claim, Enter, Share, CheckHashpower, UpgradeToMigrate,
     EnterToMigrate, MigrateAsReader, MigrateAsWriter, FinishOperation, UpgradeLow, UpgradeHigh,
     TryUpgrade, FinishWriting, LeavePath, LeaveLast, ResizeRejected, DoubleLocks, SwapBuckets,
     GrowBuckets, ReplaceBuckets, ClearTable
<1>5. ASSUME ReadHashpower(t) \/ Release(t)
      PROVE  my'[t].job = my[t].job
  <2>1. CASE ReadHashpower(t)
    <3>1. my'[t] = [Fresh(my[t].job) EXCEPT !.hp = hp, !.uses = Buckets(Key(t), hp)]
      BY <1>2, <2>1 DEF ReadHashpower, Set
    <3> QED
      BY <3>1 DEF Fresh
  <2>2. CASE Release(t)
    <3>1. my' = my \/ my' = [my EXCEPT ![t] = Fresh(my[t].job)]
      BY <2>2 DEF Release, Set
    <3> QED
      BY <1>2, <3>1 DEF Fresh
  <2> QED
    BY <1>5, <2>1, <2>2
<1>6. ASSUME \/ ReadArray(t) \/ NextArray(t) \/ ChooseTarget(t) \/ RunCuckoo(t) \/ RehashLocksStep(t)
      PROVE  my'[t].job = my[t].job
  BY ZenonT(60), <1>2, <1>6 DEF ReadArray, NextArray, ChooseTarget, RunCuckoo, RehashLocksStep, Set, Locals
<1>7. ASSUME SearchBucket(t) \/ Displace(t) \/ DisplaceLast(t) \/ TableFull(t)
      PROVE  my'[t].job = my[t].job
  <2>1. ASSUME NEW goal, NEW kind, NEW buckets, AskFor(t, goal, kind, buckets)
        PROVE  my'[t].job = my[t].job
    BY <1>2, <2>1 DEF AskFor, Set, Locals
  <2> QED
    BY <1>7, <2>1 DEF SearchBucket, Displace, DisplaceLast, TableFull
<1>8. my'[t].job = my[t].job
  BY <1>4, <1>5, <1>6, <1>7 DEF Step
<1>9. \A u \in Threads : u # t => my'[u].job = my[u].job
  BY StepLocals
<1> QED
  BY <1>1, <1>8, <1>9

\* Where a resize is under way, and that it moves on.
LEMMA ResizingFrom ==
  ASSUME IInv, NEW t \in Threads, Step(t)
  PROVE  /\ pc'[t] \in Resizing => \/ DoubleLocks(t) \/ RehashLocksStep(t) \/ SwapBuckets(t)
         /\ arrays' = arrays \/ DoubleLocks(t) \/ RehashLocksStep(t)
         /\ hp' = hp \/ pc[t] \in Resizing
         /\ oldHp' = oldHp \/ pc[t] \in Resizing
         /\ pc[t] = "swap" => SwapBuckets(t)
         /\ pc[t] = "grow" => GrowBuckets(t)
<1> USE DEF Step, CompareHashpower, ReadHashpower, ReadArray, Claim, Enter, NextArray, Share,
    CheckHashpower, UpgradeToMigrate, EnterToMigrate, MigrateAsReader, MigrateAsWriter, Release,
    FinishOperation, ChooseTarget, UpgradeLow, UpgradeHigh, TryUpgrade, FinishWriting, RunCuckoo,
    SearchBucket, Displace, DisplaceLast, TableFull, AskFor, LeavePath, LeaveLast,
    ResizeRejected, ClearTable
<1>1. pc'[t] \in Resizing => \/ DoubleLocks(t) \/ RehashLocksStep(t) \/ SwapBuckets(t)
  BY DEF GrowBuckets, ReplaceBuckets, AfterShare, Advance, Leave, Goto, IInv, Typed, StateTyped,
         Resizing, Locals
<1>2. arrays' = arrays \/ DoubleLocks(t) \/ RehashLocksStep(t)
  BY DEF lockVars, SwapBuckets, GrowBuckets, ReplaceBuckets
<1>3. (hp' = hp \/ pc[t] \in Resizing) /\ (oldHp' = oldHp \/ pc[t] \in Resizing)
  BY DEF tableVars, Resizing, DoubleLocks, RehashLocksStep, SwapBuckets, GrowBuckets, ReplaceBuckets
<1>4. (pc[t] = "swap" => SwapBuckets(t)) /\ (pc[t] = "grow" => GrowBuckets(t))
  BY DEF DoubleLocks, RehashLocksStep, SwapBuckets, GrowBuckets, ReplaceBuckets, OwnsTable
<1> QED
  BY <1>1, <1>2, <1>3, <1>4

\* rehash() is refused when it asks for more than the maximum.
LEMMA RehashRefused ==
  ASSUME IInv, NEW t \in Threads, NEW p \in 0 .. MaxHp, Small(p)
  PROVE  ~RehashLocksStep(t)
<1>1. my[t].job \in Jobs /\ maxHp \in Nat
  BY PowersAssumption DEF IInv, Typed, StateTyped, Locals
<1>2. my[t].job[1] = "rehash" => my[t].job[2] \in 0 .. MaxHp
  BY <1>1 DEF Jobs
<1> QED
  BY <1>1, <1>2 DEF Small, RehashLocksStep, Job

\* A small table has room for more locks when it doubles.
LEMMA SmallFacts ==
  ASSUME NEW p \in 0 .. MaxHp, HashSize(p) < MaxNumLocks
  PROVE  LockCount(p) = HashSize(p) /\ LockCount(p + 1) > HashSize(p)
<1>1. HashSize(p + 1) = 2 * HashSize(p) /\ HashSize(p) \in Nat \ {0}
  BY ExponentAssumption, SizeFacts, PowersAssumption DEF HashSize
<1> QED
  BY <1>1, LocksAssumption DEF LockCount, MinOf

\* A table that doubles gets its new locks from one who has all the others.
LEMMA BeforeStep ==
  ASSUME IInv, NEW t \in Threads, Step(t), NEW p \in 0 .. MaxHp, Small(p), Before(p)
  PROVE  (Before(p) \/ During(p))' /\ pc'[t] # "replace"
<1>0. /\ \A u \in Threads : u # t => pc'[u] = pc[u]
      /\ hp' = hp /\ pc[t] \notin Resizing
  BY StepLocals, ResizingFrom DEF Before
<1>1. ~RehashLocksStep(t) /\ ~SwapBuckets(t)
  BY <1>0, RehashRefused DEF SwapBuckets, Resizing
<1>2. CASE DoubleLocks(t)
  <2>1. OwnsTable(t) /\ hp = p /\ AppendLocks(t, p + 1) /\ pc'[t] = "swap"
    BY <1>2 DEF DoubleLocks, Before, Goto, IInv, Typed, StateTyped
  <2>2. arrays[Current] < LockCount(p + 1)
    BY SmallFacts DEF Small, Before
  <2>3. /\ arrays' = Append(arrays, LockCount(p + 1))
        /\ \A x \in LockIds : x[1] # Current + 1 => mode'[x] = mode[x]
    BY <2>1, <2>2 DEF AppendLocks
  <2>4. Current' = 2 /\ arrays'[1] = arrays[1]
    <3>1. p + 1 \in 0 .. MaxHp
      BY <1>2, PowersAssumption DEF DoubleLocks, Before, IInv, Typed, StateTyped
    <3>2. /\ ArraysExtended /\ LockCount(p + 1) <= arrays'[Current']
          /\ Current' = Current \/ Current' = Current + 1
          /\ Current' = Current => arrays' = arrays
      BY <2>1, <3>1, AppendLocksFacts
    <3>3. LockCount(p + 1) \in Nat /\ arrays[Current] \in Nat
      BY SizeFacts, ArraysFacts, PowersAssumption, LocksAssumption DEF IInv, Typed
    <3> QED
      BY <2>2, <3>2, <3>3 DEF Before, ArraysExtended
  <2>5. ASSUME NEW l \in 0 .. arrays[1] - 1 PROVE mode'[<<1, l>>][t] = "write"
    <3>1. <<1, l>> \in LockIds /\ mode[<<1, l>>][t] = "write"
      BY <2>1, OwnerFacts DEF Before
    <3> QED
      BY <2>3, <3>1 DEF Before
  <2>6. \A x \in ArrayLocks(1)' : mode'[x][t] = "write"
    BY <2>4, <2>5 DEF ArrayLocks
  <2>7. Doubler(t, p)'
    BY <1>0, <2>1, <2>6 DEF Doubler
  <2> QED
    BY <2>1, <2>4, <2>7 DEF During
<1>3. CASE ~DoubleLocks(t)
  <2>1. pc'[t] \notin Resizing /\ arrays' = arrays
    BY <1>1, <1>3, ResizingFrom
  <2> QED
    BY <1>0, <2>1 DEF Before, Resizing, Current
<1> QED
  BY <1>2, <1>3

\* The doubling is the work of one thread alone.
LEMMA DuringStep ==
  ASSUME IInv, NEW t \in Threads, Step(t), NEW p \in 0 .. MaxHp, Small(p), During(p)
  PROVE  (During(p) \/ After(p))' /\ pc'[t] # "replace" /\ arrays' = arrays
<1>1. PICK u \in Threads : Doubler(u, p)
  BY DEF During
<1>2. pc[u] \in {"swap", "grow"} /\ pc[u] \in Resizing /\ Current = 2
  BY <1>1 DEF Doubler, Resizing, During
<1>3. \A v \in Threads : v # u => ~OwnsTable(v) /\ pc[v] \notin Resizing
  BY <1>2, OneOwner
<1>4. ~DoubleLocks(t) /\ ~RehashLocksStep(t)
  BY <1>2, <1>3 DEF DoubleLocks, RehashLocksStep, OwnsTable
<1>5. arrays' = arrays /\ \A v \in Threads : v # t => pc'[v] = pc[v]
  BY <1>4, ResizingFrom, StepLocals
<1>6. \A x \in ArrayLocks(1) : x \in LockIds
  BY <1>2, ArraysFacts, PowersAssumption, LocksAssumption DEF ArrayLocks, LockIds, IInv, Typed
<1>7. CASE t # u
  <2>1. \A x \in ArrayLocks(1) : mode'[x][u] = mode[x][u]
    BY <1>6, <1>7, StepLocks, LocksStepKeeps
  <2>2. pc[t] \notin Resizing /\ pc'[t] \notin Resizing
    BY <1>3, <1>4, <1>7, ResizingFrom DEF SwapBuckets, Resizing
  <2>3. hp' = hp /\ oldHp' = oldHp /\ pc'[u] = pc[u]
    BY <1>5, <1>7, <2>2, ResizingFrom
  <2>4. Doubler(u, p)' /\ Current' = 2
    BY <1>1, <1>2, <1>5, <2>1, <2>3 DEF Doubler, ArrayLocks, Current
  <2> QED
    BY <1>5, <2>2, <2>4 DEF During, Resizing
<1>8. CASE t = u /\ pc[u] = "swap"
  <2>1. SwapBuckets(t)
    BY <1>8, ResizingFrom
  <2>2. pc'[t] = "grow" /\ oldHp' = p /\ mode' = mode
    BY <1>1, <1>8, <2>1 DEF SwapBuckets, Doubler, Goto, lockVars, IInv, Typed, StateTyped
  <2>3. Doubler(t, p)' /\ Current' = 2
    BY <1>1, <1>2, <1>5, <1>8, <2>2 DEF Doubler, ArrayLocks, Current
  <2> QED
    BY <1>5, <2>2, <2>3 DEF During
<1>9. CASE t = u /\ pc[u] = "grow"
  <2>1. GrowBuckets(t)
    BY <1>9, ResizingFrom
  <2>2. pc'[t] = "release" /\ hp' = p + 1
    BY <1>1, <1>9, <2>1 DEF GrowBuckets, Doubler, Leave, Goto, IInv, Typed, StateTyped
  <2>3. \A v \in Threads : pc'[v] \notin Resizing
    BY <1>3, <1>5, <1>9, <2>2 DEF Resizing
  <2> QED
    BY <1>2, <1>5, <2>2, <2>3 DEF After, Current
<1> QED
  BY <1>2, <1>7, <1>8, <1>9

\* There is no second doubling.
LEMMA AfterStep ==
  ASSUME IInv, NEW t \in Threads, Step(t), NEW p \in 0 .. MaxHp, Small(p), After(p)
  PROVE  After(p)' /\ pc'[t] # "replace" /\ arrays' = arrays
<1>0. /\ \A u \in Threads : u # t => pc'[u] = pc[u]
      /\ hp' = hp /\ pc[t] \notin Resizing /\ maxHp \in Nat
  BY StepLocals, ResizingFrom DEF After, IInv, Typed, StateTyped
<1>1. ~RehashLocksStep(t) /\ ~SwapBuckets(t)
  BY <1>0, RehashRefused DEF SwapBuckets, Resizing
<1>2. ~DoubleLocks(t)
  BY <1>0 DEF DoubleLocks, Small, After
<1>3. pc'[t] \notin Resizing /\ arrays' = arrays
  BY <1>1, <1>2, ResizingFrom
<1> QED
  BY <1>0, <1>3 DEF After, Resizing, Current

\* So a table has one array of locks, or two.
LEMMA OnceStep ==
  ASSUME IInv, NEW t \in Threads, Step(t), NEW p \in 0 .. MaxHp, Once(p)
  PROVE  Once(p)'
<1>1. (Before(p) \/ During(p) \/ After(p))' /\ pc'[t] # "replace"
  BY BeforeStep, DuringStep, AfterStep DEF Once
<1>2. arrays'[1] = arrays[1]
  BY StepArrays, ArraysFacts DEF ArraysExtended, IInv, Typed
<1>3. Small(p)'
  BY <1>1, <1>2, JobsKept, StepLocals DEF Once, Small, Job
<1> QED
  BY <1>1, <1>3 DEF Once

\* The comparison of the hashpower fails for whoever has a lock of the first array
\* when there is a second.
LEMMA CheckedLatest ==
  ASSUME SInv, NEW t \in Threads, pc[t] = "check", my[t].hp = hp
  PROVE  my[t].array = Current
<1>0. /\ IInv /\ NeedsFit(t) /\ Typed /\ my[t].goal # "all" /\ pc[t] \in Taking
      /\ my[t].array \in 1 .. Current
  BY DEF SInv, CInv, IInv, ThreadFits, CallFits, NeedsFit, Taking
<1>1. CASE Full
  BY <1>0, <1>1 DEF Full, Current
<1>2. ASSUME NEW p \in 0 .. MaxHp, Once(p) PROVE my[t].array = Current
  <2>1. CASE Before(p)
    BY <1>0, <2>1 DEF Before
  <2>2. CASE During(p) /\ my[t].array = 1
    <3>1. PICK u \in Threads : Doubler(u, p)
      BY <2>2 DEF During
    <3>2. u # t /\ pc[u] \in Resizing
      BY <3>1 DEF Doubler, Resizing
    <3>3. Wanted(t) \in LockIds /\ Wanted(t) \in ArrayLocks(1)
      BY <1>0, <2>2, WantedIsLock DEF ArrayLocks
    <3>4. mode[Wanted(t)][t] \in {"read", "write"} /\ mode[Wanted(t)][u] = "write"
      BY <1>0, <3>1, <3>3, WantedHas DEF WantedMode, Doubler, Typed, Locals
    <3> QED
      BY <1>0, <3>2, <3>3, <3>4 DEF IInv, Compatible, Claims
  <2>3. CASE After(p) /\ my[t].array = 1
    <3>1. LockCount(p + 1) <= HashSize(p)
      BY <1>0, <1>2, <2>3 DEF NeedsFit, After, Once, Small
    <3>2. LockCount(p + 1) > HashSize(p) /\ HashSize(p) \in Nat /\ LockCount(p + 1) \in Nat
      BY <1>2, SmallFacts, SizeFacts, PowersAssumption, LocksAssumption DEF Once, Small
    <3> QED
      BY <3>1, <3>2
  <2> QED
    BY <1>0, <1>2, <2>1, <2>2, <2>3 DEF Once, During, After
<1> QED
  BY <1>1, <1>2 DEF SInv

\* Whoever gets to rely on its snapshot, and whoever does, has the newest locks.
LEMMA LatestStep ==
  ASSUME SInv, NEW t \in Threads, Step(t)
  PROVE  Latest'
<1>0. IInv
  BY DEF SInv, CInv
<1> SUFFICES ASSUME NEW u \in Threads, my'[u].goal # "all", Kept(u)'
             PROVE  my'[u].array = Current'
  BY DEF Latest
<1>1. CASE u = t
  BY <1>0, <1>1, KeptFrom, CheckedLatest DEF SInv, Latest, Current
<1>2. CASE u # t
  <2>1. pc'[u] = pc[u] /\ my'[u] = my[u]
    BY <1>0, <1>2, StepLocals
  <2>2. Inds(u)' = Inds(u)
    BY <2>1 DEF Inds
  <2>3. Kept(u) /\ my[u].goal # "all" /\ my[u].array = Current
    BY <2>1, <2>2 DEF Kept, SInv, Latest
  <2>4. PICK x \in ArrayLocks(Current) : mode[x][u] # "none"
    BY <1>0, <2>3, KeptHolds
  <2>5. ~OwnsTable(t)
    BY <1>0, <1>2, <2>4, HolderBlocks
  <2> QED
    BY <1>0, <2>1, <2>3, <2>5, StepAppends DEF Current
<1> QED
  BY <1>1, <1>2

\* The stronger invariant is inductive ...
LEMMA StepSInv == SInv /\ [Steps]_core => SInv'
<1> SUFFICES ASSUME SInv, [Steps]_core PROVE SInv'
  OBVIOUS
<1>1. CInv' /\ IInv
  BY StepCInv DEF SInv, CInv
<1>2. CASE UNCHANGED core
  <2>1. Current' = Current /\ ArrayLocks(1)' = ArrayLocks(1) /\ \A t \in Threads : Job(t)' = Job(t)
    BY <1>2 DEF core, Current, ArrayLocks, Job
  <2>2. Full' <=> Full
    BY <1>2 DEF core, Full
  <2>3. \A p \in 0 .. MaxHp : Once(p) => Once(p)'
    BY <1>2, <2>1 DEF core, Once, Small, Before, During, After, Doubler
  <2>4. Latest'
    BY <1>2, <2>1 DEF core, SInv, Latest, Kept, Inds
  <2> QED
    BY <1>1, <2>2, <2>3, <2>4 DEF SInv
<1>3. ASSUME NEW t \in Threads, Step(t) PROVE SInv'
  <2>1. Latest'
    BY <1>3, LatestStep
  <2>2. Full => Full'
    BY <1>1, <1>3, FullKept DEF Full
  <2>3. \A p \in 0 .. MaxHp : Once(p) => Once(p)'
    BY <1>1, <1>3, OnceStep
  <2> QED
    BY <1>1, <2>1, <2>2, <2>3 DEF SInv
<1> QED
  BY <1>2, <1>3 DEF Steps, core

\* ... and holds when the tables are as the hypothesis says.
LEMMA InitSInv ==
  ASSUME SteadyArrays
  PROVE  Init => SInv
<1> SUFFICES ASSUME Init PROVE SInv
  OBVIOUS
<1>1. CInv /\ IInv
  BY InitCInv DEF CInv
<1>2. PICK w \in Workloads : /\ my = [t \in Threads |-> Fresh(w[t])]
                             /\ pc = [t \in Threads |-> Entry(w[t])]
  BY DEF Init
<1>3. ASSUME NEW t \in Threads PROVE pc[t] \in Idle /\ my[t].job = w[t]
  <2>1. \A job \in Jobs : Entry(job) \in Idle /\ Fresh(job).job = job
    BY DEF Jobs, Entry, Idle, Fresh
  <2> QED
    BY <1>2, <2>1, WorkAssumption
<1>4. Latest
  BY <1>3 DEF Latest, Kept, Idle, Taking, Having, Upping
<1>5. hp \in 0 .. MaxHp /\ hp \in 0 .. MaxHp + 1 /\ arrays = <<LockCount(hp)>>
  BY <1>1, PowersAssumption DEF Init, IInv, Typed, StateTyped
<1>6. CASE HashSize(hp) >= MaxNumLocks
  <2>1. LockCount(hp) = MaxNumLocks
    BY <1>5, <1>6, SizeFacts, LocksAssumption DEF LockCount, MinOf
  <2> QED
    BY <1>1, <1>4, <1>5, <2>1 DEF SInv, Full
<1>7. CASE ~(HashSize(hp) >= MaxNumLocks)
  <2>1. maxHp <= hp + 1 /\ \A t \in Threads : w[t][1] = "rehash" => w[t][2] > maxHp
    BY <1>7 DEF Init, SteadyArrays
  <2>2. HashSize(hp) < MaxNumLocks /\ LockCount(hp) = HashSize(hp)
    BY <1>5, <1>7, SizeFacts, SmallFacts, LocksAssumption
  <2>3. \A t \in Threads : pc[t] \notin Resizing
    BY <1>3 DEF Idle, Resizing
  <2>4. Small(hp) /\ Before(hp)
    BY <1>3, <1>5, <2>1, <2>2, <2>3 DEF Small, Before, Current, Job, Resizing
  <2> QED
    BY <1>1, <1>4, <1>5, <2>4 DEF SInv, Once
<1> QED
  BY <1>6, <1>7

\* The stronger invariant, for such tables.
LEMMA SteadyInvariant ==
  ASSUME SteadyArrays
  PROVE  Spec => []SInv
BY InitSInv, StepSInv, NextSteps, PTL DEF Spec

-----------------------------------------------------------------------------
(* What follows for such tables.                                           *)

\* Whoever accesses a bucket is up to date.
LEMMA AccessCurrent ==
  ASSUME SInv, NEW t \in Threads, NEW x \in Access(t)
  PROVE  UpToDate(t)
<1>1. Access(t) # {} /\ CallFits(t)
  BY DEF SInv, CInv, IInv, ThreadFits
<1>2. \/ pc[t] \in Having \cup {"migrating"} /\ my[t].goal # "all"
      \/ OwnsTable(t) \/ pc[t] \in Resizing
  BY <1>1, AccessCases DEF CallFits, Having, Upping
<1> QED
  BY <1>1, <1>2 DEF UpToDate, SInv, Latest, Kept, OwnsTable, CallFits, Resizing

\* Snapshots are kept.
LEMMA SnapshotFacts == SInv => SnapshotHolds
<1> SUFFICES ASSUME SInv, NEW t \in Threads,
                    \/ pc[t] = "hold" /\ my[t].goal # "all"
                    \/ pc[t] \in Upping \cup {"migrate", "migrating"}
             PROVE  my[t].hp = hp /\ my[t].array = Current
  BY DEF SnapshotHolds, Upping
<1>1. my[t].goal # "all"
  BY DEF SInv, CInv, IInv, ThreadFits, CallFits, Upping
<1>2. Kept(t)
  BY DEF Having, Kept
<1> QED
  BY <1>1, <1>2 DEF SInv, CInv, Latest, Snap

\* Indexes are in range.
LEMMA RangeFacts == SInv => LockInRange
<1> SUFFICES ASSUME SInv, NEW t \in Threads
             PROVE  /\ pc[t] \in Taking => Wanted(t)[2] < arrays[my[t].array]
                    /\ pc[t] = "hold" /\ my[t].goal # "all" =>
                         \A b \in my[t].uses : b < HashSize(hp)
  BY DEF LockInRange, Taking
<1>1. NeedsFit(t) /\ Typed /\ WantedInRange
  BY WantedFits DEF SInv, CInv, IInv, ThreadFits
<1>2. ASSUME pc[t] = "hold", my[t].goal # "all", NEW b \in my[t].uses PROVE b < HashSize(hp)
  <2>1. my[t].hp = hp
    BY <1>2, SnapshotFacts DEF SnapshotHolds
  <2>2. hp \in 0 .. MaxHp + 1
    BY <1>1, PowersAssumption DEF Typed, StateTyped
  <2>3. b \in 0 .. HashSize(hp) - 1 /\ HashSize(hp) \in Nat
    BY <1>1, <1>2, <2>1, <2>2, SizeFacts DEF NeedsFit, Having
  <2> QED
    BY <2>3
<1> QED
  BY <1>1, <1>2 DEF WantedInRange

\* Buckets are used under exclusion, and after they were moved.
LEMMA AccessFacts == SInv => BucketExclusion /\ MovedBeforeUse
<1> SUFFICES ASSUME SInv PROVE BucketExclusion /\ MovedBeforeUse
  OBVIOUS
<1>1. CurrentExclusion /\ CurrentMoved
  BY ExclusionFacts, MovedFacts DEF SInv
<1>2. BucketExclusion
  BY <1>1, AccessCurrent DEF CurrentExclusion, BucketExclusion
<1>3. MovedBeforeUse
  BY <1>1, AccessCurrent DEF CurrentMoved, MovedBeforeUse, UpToDate, Upping
<1> QED
  BY <1>2, <1>3

\* A thread that has passed check_hashpower has the hashpower and the locks of the
\* present table as long as it holds its locks.
THEOREM SnapshotsHold ==
  ASSUME SteadyArrays
  PROVE  Spec => []SnapshotHolds
BY SteadyInvariant, SnapshotFacts, PTL

\* No lock index and no bucket index read from an old snapshot is out of range.
THEOREM IndexesInRange ==
  ASSUME SteadyArrays
  PROVE  Spec => []LockInRange
BY SteadyInvariant, RangeFacts, PTL

\* No bucket is written while another thread reads or writes it: across shared locks,
\* upgrades, lazy migration, doubling, rehash and clear.
THEOREM BucketsExclusive ==
  ASSUME SteadyArrays
  PROVE  Spec => []BucketExclusion
<1>1. SInv => BucketExclusion
  BY AccessFacts
<1> QED
  BY <1>1, SteadyInvariant, PTL

\* No operation uses a bucket whose elements are still in old_buckets_.
THEOREM BucketsMovedBeforeUse ==
  ASSUME SteadyArrays
  PROVE  Spec => []MovedBeforeUse
<1>1. SInv => MovedBeforeUse
  BY AccessFacts
<1> QED
  BY <1>1, SteadyInvariant, PTL

-----------------------------------------------------------------------------
(* Waiting for each other.                                                 *)

\* The indexes of the locks a thread takes from its array.
Asked(t) == IF my[t].goal = "all" THEN 0 .. arrays[my[t].array] - 1 ELSE Inds(t)

\* It takes them upwards.
Ordered ==
  \A t \in Threads : pc[t] \in Taking =>
    \A l \in Asked(t) \ my[t].todo, m \in my[t].todo : l < m

\* The lock wanted is the lowest of those that are needed.
LEMMA WantedLeast ==
  ASSUME NEW t, my[t].todo \subseteq Nat, my[t].todo # {}, NEW m \in my[t].todo
  PROVE  Wanted(t)[2] <= m
<1> DEFINE least == CHOOSE l \in my[t].todo : \A k \in my[t].todo : l <= k
<1>1. \E l \in my[t].todo : \A k \in my[t].todo : l <= k
  BY LeastElement
<1>2. \A k \in my[t].todo : least <= k
  BY <1>1
<1>3. Wanted(t)[2] = least
  BY DEF Wanted
<1> HIDE DEF least
<1> QED
  BY <1>2, <1>3

\* A thread comes to take locks with all of them before it.
LEMMA TakingFrom ==
  ASSUME IInv, NEW t \in Threads, Step(t), pc'[t] \in Taking
  PROVE  \/ my'[t].todo = Asked(t)'
         \/ pc[t] \in Taking /\ arrays' = arrays /\ (Advance(t) \/ my' = my)
<1>1. CASE ReadArray(t)
  <2>1. /\ my'[t].goal = my[t].goal /\ my'[t].uses = my[t].uses
        /\ my'[t].array = Current /\ arrays' = arrays
        /\ my'[t].todo = IF my[t].goal = "all" THEN 0 .. arrays[Current] - 1 ELSE Inds(t)
    BY <1>1 DEF ReadArray, Set, Inds, IInv, Typed, Locals, lockVars
  <2> QED
    BY <2>1 DEF Asked, Inds
<1>2. CASE NextArray(t)
  <2>1. /\ my[t].goal = "all" /\ my'[t].goal = "all" /\ my'[t].array = my[t].array + 1
        /\ my'[t].todo = 0 .. arrays[my[t].array + 1] - 1 /\ arrays' = arrays
    BY <1>2 DEF NextArray, Set, IInv, Typed, Locals, lockVars
  <2> QED
    BY <2>1 DEF Asked
<1>3. CASE \/ Claim(t) \/ Enter(t) \/ Share(t) \/ CheckHashpower(t)
           \/ UpgradeToMigrate(t) \/ EnterToMigrate(t) \/ MigrateAsReader(t)
  BY <1>3 DEF Claim, Enter, Share, CheckHashpower, AfterShare, UpgradeToMigrate, EnterToMigrate,
     MigrateAsReader, Taking
<1>4. CASE \/ CompareHashpower(t) \/ ReadHashpower(t) \/ FinishOperation(t) \/ FinishWriting(t)
           \/ RunCuckoo(t) \/ LeavePath(t) \/ LeaveLast(t) \/ ResizeRejected(t) \/ SwapBuckets(t)
           \/ GrowBuckets(t) \/ ReplaceBuckets(t) \/ ClearTable(t) \/ MigrateAsWriter(t)
           \/ SearchBucket(t) \/ Displace(t) \/ DisplaceLast(t) \/ TableFull(t)
           \/ DoubleLocks(t) \/ RehashLocksStep(t) \/ ChooseTarget(t)
           \/ UpgradeLow(t) \/ UpgradeHigh(t) \/ Release(t)
  BY ZenonT(60), <1>4 DEF CompareHashpower, ReadHashpower, FinishOperation, FinishWriting, RunCuckoo,
     LeavePath, LeaveLast, ResizeRejected, SwapBuckets, GrowBuckets, ReplaceBuckets, ClearTable,
     MigrateAsWriter, SearchBucket, Displace, DisplaceLast, TableFull, AskFor, DoubleLocks,
     RehashLocksStep, ChooseTarget, UpgradeLow, UpgradeHigh, TryUpgrade, Release, Leave, Goto,
     IInv, Typed, StateTyped, Locals, Taking
<1> QED
  BY <1>1, <1>2, <1>3, <1>4 DEF Step

\* So the order of the indexes is kept.
LEMMA OrderedStep == IInv /\ Ordered /\ [Steps]_core => Ordered'
<1> SUFFICES ASSUME IInv, Ordered, [Steps]_core, NEW t \in Threads, pc'[t] \in Taking,
                    NEW l \in Asked(t)' \ my'[t].todo, NEW m \in my'[t].todo
             PROVE  l < m
  BY DEF Ordered
<1>1. ASSUME pc[t] \in Taking, my'[t] = my[t], Asked(t)' = Asked(t) PROVE l < m
  BY <1>1 DEF Ordered
<1>2. CASE UNCHANGED core
  BY <1>1, <1>2 DEF core, Asked, Inds
<1>3. ASSUME Step(t) PROVE l < m
  <2>1. pc[t] \in Taking /\ arrays' = arrays /\ (Advance(t) \/ my' = my)
    BY <1>3, TakingFrom
  <2>2. CASE my' = my
    BY <1>1, <2>1, <2>2 DEF Asked, Inds
  <2>3. CASE Advance(t)
    <3>1. /\ my'[t].todo = my[t].todo \ {Wanted(t)[2]} /\ my'[t].uses = my[t].uses
          /\ my'[t].array = my[t].array /\ my'[t].goal = my[t].goal
      BY <2>3 DEF Advance, Set, IInv, Typed, Locals
    <3>2. Asked(t)' = Asked(t)
      BY <2>1, <3>1 DEF Asked, Inds
    <3>3. my[t].todo \subseteq Nat /\ my[t].todo # {} /\ Wanted(t)[2] \in my[t].todo
      BY <2>1, WantedIsLock DEF IInv, ThreadFits, NeedsFit, Typed, Locals
    <3>4. m \in my[t].todo /\ m # Wanted(t)[2] /\ Wanted(t)[2] <= m
      BY <3>1, <3>3, WantedLeast
    <3>5. CASE l = Wanted(t)[2]
      BY <3>3, <3>4, <3>5
    <3>6. CASE l # Wanted(t)[2]
      <4>1. l \in Asked(t) \ my[t].todo
        BY <3>1, <3>2, <3>6
      <4> QED
        BY <2>1, <3>4, <4>1 DEF Ordered
    <3> QED
      BY <3>5, <3>6
  <2> QED
    BY <2>1, <2>2, <2>3
<1>4. ASSUME NEW u \in Threads, u # t, Step(u) PROVE l < m
  <2>1. pc'[t] = pc[t] /\ my'[t] = my[t]
    BY <1>4, StepLocals
  <2>2. arrays'[my[t].array] = arrays[my[t].array]
    BY <1>4, <2>1, StepArrays DEF ArraysExtended, IInv, ThreadFits, NeedsFit
  <2> QED
    BY <1>1, <2>1, <2>2 DEF Asked, Inds
<1> QED
  BY <1>2, <1>3, <1>4 DEF Steps, core

LEMMA InitOrdered == Init => Ordered
<1> SUFFICES ASSUME Init, NEW t \in Threads PROVE pc[t] \notin Taking
  BY DEF Ordered
<1>1. PICK w \in Workloads : pc = [u \in Threads |-> Entry(w[u])]
  BY DEF Init
<1>2. \A job \in Jobs : Entry(job) \notin Taking
  BY DEF Jobs, Entry, Taking
<1> QED
  BY <1>1, <1>2, WorkAssumption

\* Every thread takes its locks upwards, array by array.
LEMMA OrderKept == Spec => [](IInv /\ Ordered)
<1>1. Init => IInv /\ Ordered
  BY InitIInv, InitOrdered
<1>2. IInv /\ Ordered /\ [Steps]_core => (IInv /\ Ordered)'
  BY StepIInv, OrderedStep
<1> QED
  BY <1>1, <1>2, NextSteps, PTL DEF Spec

\* The lock a thread waits for.
Waiting == {"lock", "enter", "upgraded", "up1_wait", "up2_wait"}
Awaited(t) ==
  CASE pc[t] = "up1_wait" -> LowLock(t)
    [] pc[t] = "up2_wait" -> HighLock(t)
    [] OTHER -> Wanted(t)

\* The one place where a thread waits for a lock with one of a higher index in
\* its hands: uprase_fn, with shares of two locks, upgrades the lower one.
UpgradesLower(t) == pc[t] = "up1_wait" /\ LowLock(t) # HighLock(t)

\* What keeps a thread waiting.
LEMMA BlockersFacts ==
  ASSUME NEW t, NEW u \in Blockers(t)
  PROVE  /\ u \in Threads /\ u # t /\ pc[t] \in Waiting
         /\ pc[t] = "lock" => mode[Awaited(t)][u] \in Claims
         /\ pc[t] # "lock" => mode[Awaited(t)][u] = "read"
<1>1. pc[t] \in Waiting
  BY DEF Blockers, Waiting
<1>2. CASE pc[t] = "lock"
  BY <1>1, <1>2 DEF Blockers, Awaited, Claims
<1>3. CASE pc[t] \in {"enter", "upgraded"}
  BY <1>1, <1>3 DEF Blockers, Awaited
<1>4. CASE pc[t] = "up1_wait"
  BY <1>1, <1>4 DEF Blockers, Awaited
<1>5. CASE pc[t] = "up2_wait"
  BY <1>1, <1>5 DEF Blockers, Awaited
<1> QED
  BY <1>1, <1>2, <1>3, <1>4, <1>5 DEF Waiting

\* The lower of the locks of uprase_fn is the lower.
LEMMA LowIsLower ==
  ASSUME IInv, NEW t \in Threads, pc[t] \in Upping
  PROVE  LowLock(t)[2] \in Nat /\ HighLock(t)[2] \in Nat /\ LowLock(t)[2] <= HighLock(t)[2]
<1>1. my[t].goal = "op" /\ Job(t) = "upsert"
  BY DEF IInv, ThreadFits, CallFits
<1>2. /\ LowLock(t) \in LockIds /\ HighLock(t) \in LockIds
      /\ Inds(t) = {LowLock(t)[2], HighLock(t)[2]} /\ my[t].uses = Own(t)
  BY <1>1, UppingFacts
<1>3. LowLock(t)[2] \in Nat /\ HighLock(t)[2] \in Nat
  BY <1>2 DEF LockIds
<1> DEFINE low == CHOOSE l \in {LockInd(b) : b \in Own(t)} : \A b \in Own(t) : l <= LockInd(b)
<1>4. \E l \in {LockInd(b) : b \in Own(t)} : \A k \in {LockInd(b) : b \in Own(t)} : l <= k
  <2>1. {LockInd(b) : b \in Own(t)} = {LowLock(t)[2], HighLock(t)[2]}
    BY <1>2 DEF Inds
  <2> QED
    BY <1>3, <2>1, LeastElement
<1>5. \A b \in Own(t) : low <= LockInd(b)
  BY <1>4
<1>6. LowLock(t)[2] = low
  BY DEF LowLock
<1> HIDE DEF low
<1>7. PICK b \in Own(t) : HighLock(t)[2] = LockInd(b)
  BY <1>2 DEF Inds
<1> QED
  BY <1>3, <1>5, <1>6, <1>7

\* What uprase_fn has are its two locks.
LEMMA UppingOwns ==
  ASSUME IInv, NEW t \in Threads, pc[t] \in Upping, NEW x \in LockIds, mode[x][t] # "none"
  PROVE  x = LowLock(t) \/ x = HighLock(t)
<1>1. my[t].goal = "op" /\ Job(t) = "upsert" /\ ModeFits(t, x)
  BY DEF IInv, ThreadFits, CallFits, ModesFit
<1>2. /\ Inds(t) = {LowLock(t)[2], HighLock(t)[2]}
      /\ LowLock(t) = <<my[t].array, LowLock(t)[2]>>
      /\ HighLock(t) = <<my[t].array, HighLock(t)[2]>>
  BY <1>1, UppingFacts
<1>3. x[1] = my[t].array /\ x[2] \in Inds(t) /\ x = <<x[1], x[2]>>
  BY <1>1 DEF ModeFits, Having, LockIds
<1> QED
  BY <1>2, <1>3

\* Elsewhere a thread waits for the highest lock it has to do with.
LEMMA AwaitedFacts ==
  ASSUME IInv, Ordered, NEW t \in Threads, pc[t] \in Waiting
  PROVE  /\ Awaited(t) \in LockIds
         /\ mode[Awaited(t)][t] \in {"none", "claim", "upgrade"}
         /\ mode[Awaited(t)][t] = "none" <=> pc[t] = "lock"
         /\ ~UpgradesLower(t) =>
              \A y \in LockIds : mode[y][t] # "none" => ~Below(Awaited(t), y)
<1>1. CASE pc[t] \in {"lock", "enter", "upgraded"}
  <2>1. Awaited(t) = Wanted(t) /\ pc[t] \in Taking /\ ~UpgradesLower(t)
    BY <1>1 DEF Awaited, Taking, UpgradesLower
  <2>2. Wanted(t) \in LockIds /\ mode[Wanted(t)][t] = WantedMode(t)
    BY <2>1, WantedHas
  <2>3. /\ WantedMode(t) \in {"none", "claim", "upgrade"}
        /\ WantedMode(t) = "none" <=> pc[t] = "lock"
    BY <1>1 DEF WantedMode
  <2>4. ASSUME NEW y \in LockIds, mode[y][t] # "none", Below(Wanted(t), y) PROVE FALSE
    <3>1. NeedsFit(t) /\ ModeFits(t, y) /\ y[1] \in Nat /\ y[2] \in Nat
      BY DEF IInv, ThreadFits, ModesFit, LockIds
    <3>2. /\ Wanted(t)[1] = my[t].array /\ Wanted(t)[2] \in my[t].todo
          /\ my[t].array \in 1 .. Current
          /\ Wanted(t)[2] \in 0 .. arrays[my[t].array] - 1
      BY <2>1, <3>1, WantedIsLock DEF IInv
    <3>3. arrays[my[t].array] \in Nat /\ my[t].array \in Nat
      BY <3>2, ArraysFacts, LocksAssumption DEF IInv, Typed
    <3>4. y[1] <= my[t].array
      <4>1. CASE my[t].goal = "all"
        BY <2>1, <2>4, <3>1, <3>3, <4>1 DEF ModeFits
      <4>2. CASE my[t].goal # "all"
        BY <2>1, <2>4, <3>1, <3>3, <4>2 DEF ModeFits
      <4> QED
        BY <4>1, <4>2
    <3>5. y[1] = my[t].array /\ Wanted(t)[2] < y[2]
      BY <2>4, <3>1, <3>2, <3>3, <3>4 DEF Below
    <3>6. y # Wanted(t) /\ y[2] \in Asked(t)
      <4>1. y # Wanted(t)
        BY <3>1, <3>5
      <4>2. CASE my[t].goal = "all"
        BY <2>1, <2>4, <3>1, <3>3, <3>5, <4>2 DEF ModeFits, Asked
      <4>3. CASE my[t].goal # "all"
        BY <2>1, <2>4, <3>1, <3>3, <3>5, <4>3 DEF ModeFits, Asked
      <4> QED
        BY <4>1, <4>2, <4>3
    <3>7. y[2] \notin my[t].todo
      BY <2>1, <2>4, <3>1, <3>5, <3>6 DEF ModeFits
    <3>8. y[2] < Wanted(t)[2]
      BY <2>1, <3>2, <3>6, <3>7 DEF Ordered
    <3> QED
      BY <3>1, <3>2, <3>3, <3>5, <3>8
  <2> QED
    BY <2>1, <2>2, <2>3, <2>4
<1>2. CASE pc[t] \in {"up1_wait", "up2_wait"}
  <2>1. pc[t] \in Upping
    BY <1>2 DEF Upping
  <2>2. /\ LowLock(t) \in LockIds /\ HighLock(t) \in LockIds
        /\ UpMode(t, LowLock(t)) /\ UpMode(t, HighLock(t))
    BY <2>1, UppingHas
  <2>3. Awaited(t) \in LockIds /\ mode[Awaited(t)][t] = "upgrade"
    BY <1>2, <2>2 DEF Awaited, UpMode
  <2>4. my[t].goal = "op" /\ Job(t) = "upsert"
    BY <2>1 DEF IInv, ThreadFits, CallFits
  <2>5. LowLock(t)[1] = my[t].array /\ HighLock(t)[1] = my[t].array /\ my[t].array \in Nat
    BY <2>1, <2>4, UppingFacts, ArraysFacts DEF IInv, Typed
  <2>6. LowLock(t)[2] \in Nat /\ HighLock(t)[2] \in Nat /\ LowLock(t)[2] <= HighLock(t)[2]
    BY <2>1, LowIsLower
  <2>7. ~Below(HighLock(t), LowLock(t)) /\ ~Below(HighLock(t), HighLock(t))
    BY <2>5, <2>6 DEF Below
  <2>8. ~UpgradesLower(t) => Awaited(t) = HighLock(t)
    BY <1>2 DEF Awaited, UpgradesLower
  <2>9. ~UpgradesLower(t) => \A y \in LockIds : mode[y][t] # "none" => ~Below(Awaited(t), y)
    BY <2>1, <2>7, <2>8, UppingOwns
  <2> QED
    BY <1>2, <2>3, <2>9
<1> QED
  BY <1>1, <1>2 DEF Waiting

\* Among the locks that some threads wait for there is a highest.
LEMMA HighestAwaited ==
  ASSUME IInv, Ordered, NEW S \in SUBSET Threads, S # {}, \A t \in S : pc[t] \in Waiting
  PROVE  \E t \in S : \A u \in S : ~Below(Awaited(t), Awaited(u))
<1>1. \A t \in S : /\ Awaited(t)[1] \in Nat /\ Awaited(t)[1] <= MaxHp + 1
                   /\ Awaited(t)[2] \in Nat /\ Awaited(t)[2] <= MaxNumLocks
  BY AwaitedFacts, PowersAssumption, LocksAssumption DEF LockIds
<1> DEFINE As == {Awaited(t)[1] : t \in S}
<1>2. PICK a \in As : \A b \in As : b <= a
  <2>1. As \subseteq Nat /\ As # {} /\ MaxHp + 1 \in Nat /\ \A b \in As : b <= MaxHp + 1
    BY <1>1, PowersAssumption
  <2> HIDE DEF As
  <2> QED
    BY <2>1, GreatestElement
<1> DEFINE T == {t \in S : Awaited(t)[1] = a}
           Ls == {Awaited(t)[2] : t \in T}
<1>3. PICK l \in Ls : \A k \in Ls : k <= l
  <2>1. Ls \subseteq Nat /\ Ls # {} /\ MaxNumLocks \in Nat /\ \A k \in Ls : k <= MaxNumLocks
    BY <1>1, LocksAssumption
  <2> HIDE DEF Ls
  <2> QED
    BY <2>1, GreatestElement
<1>4. PICK t \in T : Awaited(t)[2] = l
  OBVIOUS
<1>5. ASSUME NEW u \in S PROVE ~Below(Awaited(t), Awaited(u))
  <2>1. Awaited(u)[1] <= a /\ Awaited(t)[1] = a
    BY <1>2
  <2>2. Awaited(u)[1] = a => Awaited(u)[2] <= l
    BY <1>3
  <2> QED
    BY <1>1, <1>4, <2>1, <2>2 DEF Below
<1> QED
  BY <1>5

\* Every wait cycle goes through an upgrade of the lower of two locks.
WaitsAtUpgrade ==
  \A S \in (SUBSET Threads) \ {{}} :
    (\A t \in S : Blockers(t) \cap S # {}) => \E t \in S : UpgradesLower(t)

LEMMA CycleFacts == IInv /\ Ordered => WaitsAtUpgrade
<1> SUFFICES ASSUME IInv, Ordered, NEW S \in (SUBSET Threads) \ {{}},
                    \A t \in S : Blockers(t) \cap S # {}, ~ \E t \in S : UpgradesLower(t)
             PROVE  FALSE
  BY DEF WaitsAtUpgrade
<1>0. S \in SUBSET Threads /\ S # {}
  OBVIOUS
<1>1. \A t \in S : pc[t] \in Waiting
  BY BlockersFacts
<1>2. PICK t \in S : \A u \in S : ~Below(Awaited(t), Awaited(u))
  BY <1>0, <1>1, HighestAwaited
<1> DEFINE x == Awaited(t)
<1>3. x \in LockIds
  BY <1>1, AwaitedFacts
<1>4. ASSUME NEW u \in S, mode[x][u] # "none"
      PROVE  Awaited(u) = x /\ mode[x][u] \in {"claim", "upgrade"} /\ pc[u] # "lock"
  <2>1. /\ Awaited(u) \in LockIds /\ ~Below(Awaited(u), x) /\ ~Below(x, Awaited(u))
        /\ mode[Awaited(u)][u] \in {"none", "claim", "upgrade"}
        /\ mode[Awaited(u)][u] = "none" <=> pc[u] = "lock"
    BY <1>1, <1>2, <1>3, <1>4, AwaitedFacts
  <2> HIDE DEF x
  <2>2. Awaited(u) = x
    BY <1>3, <2>1 DEF Below, LockIds
  <2> QED
    BY <1>4, <2>1, <2>2
<1>5. ASSUME NEW u \in S, Awaited(u) = x, pc[u] # "lock" PROVE FALSE
  <2>1. PICK v \in S : v \in Blockers(u)
    OBVIOUS
  <2>2. mode[x][v] = "read"
    BY <1>5, <2>1, BlockersFacts
  <2> QED
    BY <1>4, <2>2
<1>6. CASE pc[t] = "lock"
  <2>1. PICK u \in S : u \in Blockers(t)
    OBVIOUS
  <2>2. mode[x][u] # "none"
    BY <1>6, <2>1, BlockersFacts DEF Claims
  <2> QED
    BY <1>4, <1>5, <2>2
<1> QED
  BY <1>5, <1>6

\* Locking in the order of the indexes avoids deadlock: whatever the table and the
\* calls, threads that wait for each other in a cycle have among them an insertion that
\* has shares of two locks and upgrades the lower one (TwoBuckets::try_upgrade).
THEOREM WaitCyclesUpgrade == Spec => []WaitsAtUpgrade
BY OrderKept, CycleFacts, PTL

\* A reader that goes to migrate a lock finds it unmigrated still.
Unmoved ==
  \A t \in Threads : pc[t] \in {"upgrade", "upgraded", "migrating"} => ~migrated[Wanted(t)]

\* What a thread migrates it has for itself.
LEMMA Migrates ==
  ASSUME SInv, NEW t \in Threads, Step(t), NEW x \in ArrayLocks(Current),
         x \in LockIds, ~migrated[x], migrated'[x]
  PROVE  mode[x][t] = "write"
<1>0. IInv /\ CallFits(t) /\ NeedsFit(t) /\ Typed /\ x = <<Current, x[2]>>
  BY DEF SInv, CInv, IInv, ThreadFits, ArrayLocks
<1>1. CASE MigrateAsReader(t)
  <2>1. pc[t] = "migrating" /\ pc[t] \in Taking /\ x[2] = Wanted(t)[2]
    BY <1>1 DEF MigrateAsReader, RehashLocks, Taking
  <2>2. my[t].array = Current
    BY <1>0, <2>1 DEF SInv, Latest, Kept, CallFits
  <2>3. Wanted(t) = <<my[t].array, Wanted(t)[2]>> /\ mode[Wanted(t)][t] = "write"
    BY <1>0, <2>1, WantedIsLock, WantedHas DEF WantedMode
  <2> QED
    BY <1>0, <2>1, <2>2, <2>3
<1>2. CASE MigrateAsWriter(t)
  <2>1. pc[t] = "migrate" /\ pc[t] \in Having /\ pc[t] \notin Upping /\ x[2] \in Inds(t)
    BY <1>2 DEF MigrateAsWriter, RehashLocks, Inds, Having, Upping
  <2>2. my[t].array = Current /\ my[t].goal # "all" /\ my[t].kind = "write" /\ my[t].todo = {}
    BY <1>0, <2>1 DEF SInv, Latest, Kept, CallFits, NeedsFit
  <2> QED
    BY <1>0, <2>1, <2>2, HeldFacts
<1>3. CASE DoubleLocks(t) \/ RehashLocksStep(t) \/ ClearTable(t)
  <2>1. OwnsTable(t)
    BY <1>3 DEF DoubleLocks, RehashLocksStep, ClearTable
  <2> QED
    BY <1>0, <2>1, OwnerFacts DEF ArrayLocks
<1>4. CASE \/ UNCHANGED migrated
           \/ GrowBuckets(t)
  BY <1>4 DEF GrowBuckets
<1>5. \/ UNCHANGED migrated \/ GrowBuckets(t)
      \/ MigrateAsReader(t) \/ MigrateAsWriter(t)
      \/ DoubleLocks(t) \/ RehashLocksStep(t) \/ ClearTable(t)
  BY DEF Step, CompareHashpower, ReadHashpower, ReadArray, Claim, Enter, NextArray, Share,
     CheckHashpower, UpgradeToMigrate, EnterToMigrate, Release, FinishOperation, ChooseTarget,
     UpgradeLow, UpgradeHigh, TryUpgrade, FinishWriting, RunCuckoo, SearchBucket, Displace,
     DisplaceLast, TableFull, AskFor, LeavePath, LeaveLast, ResizeRejected, SwapBuckets,
     ReplaceBuckets, lockVars
<1> QED
  BY <1>1, <1>2, <1>3, <1>4, <1>5

\* It went there because it was.
LEMMA UnmovedFrom ==
  ASSUME IInv, Unmoved, NEW t \in Threads, Step(t),
         pc'[t] \in {"upgrade", "upgraded", "migrating"}
  PROVE  my' = my /\ migrated' = migrated /\ ~migrated[Wanted(t)]
<1>0. /\ ~Advance(t) /\ pc'[t] \notin Idle \cup {"release", "lock", "hold"}
  BY DEF Advance, Goto, IInv, Typed, StateTyped, Idle
<1>1. CASE Share(t) \/ CheckHashpower(t)
  BY <1>0, <1>1 DEF Share, CheckHashpower, AfterShare, Goto, IInv, Typed, StateTyped, Idle
<1>2. CASE UpgradeToMigrate(t) \/ EnterToMigrate(t)
  BY <1>0, <1>2 DEF UpgradeToMigrate, EnterToMigrate, Unmoved
<1>3. CASE Release(t)
  <2>1. pc'[t] \in {"release", my[t].then} /\ my[t].then \in Idle
    BY <1>3 DEF Release, Goto, IInv, Typed, StateTyped, Locals, Idle
  <2> QED
    BY <1>0, <2>1
<1>4. CASE \/ Claim(t) \/ Enter(t) \/ MigrateAsReader(t) \/ MigrateAsWriter(t) \/ ReadArray(t)
           \/ NextArray(t) \/ ChooseTarget(t) \/ UpgradeLow(t) \/ UpgradeHigh(t)
           \/ CompareHashpower(t) \/ ReadHashpower(t) \/ FinishOperation(t) \/ FinishWriting(t)
           \/ RunCuckoo(t) \/ LeavePath(t) \/ LeaveLast(t) \/ ResizeRejected(t) \/ SwapBuckets(t)
           \/ GrowBuckets(t) \/ ReplaceBuckets(t) \/ ClearTable(t)
           \/ SearchBucket(t) \/ Displace(t) \/ DisplaceLast(t) \/ TableFull(t)
           \/ DoubleLocks(t) \/ RehashLocksStep(t)
  BY <1>0, <1>4 DEF Claim, Enter, MigrateAsReader, MigrateAsWriter, ReadArray, NextArray,
     ChooseTarget, UpgradeLow, UpgradeHigh, TryUpgrade, CompareHashpower, ReadHashpower,
     FinishOperation, FinishWriting, RunCuckoo, LeavePath, LeaveLast, ResizeRejected, SwapBuckets,
     GrowBuckets, ReplaceBuckets, ClearTable, SearchBucket, Displace, DisplaceLast, TableFull,
     AskFor, DoubleLocks, RehashLocksStep, Leave, Goto, IInv, Typed, StateTyped, Idle
<1> QED
  BY <1>1, <1>2, <1>3, <1>4 DEF Step

\* Nobody else can have migrated it in the meantime.
LEMMA UnmovedStep == SInv /\ Unmoved /\ [Steps]_core => Unmoved'
<1> SUFFICES ASSUME SInv, Unmoved, [Steps]_core, NEW t \in Threads,
                    pc'[t] \in {"upgrade", "upgraded", "migrating"}
             PROVE  ~migrated'[Wanted(t)']
  BY DEF Unmoved
<1>0. IInv
  BY DEF SInv, CInv
<1>1. CASE UNCHANGED core
  BY <1>1 DEF core, Wanted, Unmoved
<1>2. CASE Step(t)
  BY <1>0, <1>2, UnmovedFrom DEF Wanted
<1>3. ASSUME NEW u \in Threads, u # t, Step(u), migrated'[Wanted(t)'] PROVE FALSE
  <2>1. pc[t] \in {"upgrade", "upgraded", "migrating"} /\ Wanted(t)' = Wanted(t)
    BY <1>0, <1>3, StepLocals DEF Wanted
  <2>2. ~migrated[Wanted(t)] /\ pc[t] \in Taking
    BY <2>1 DEF Unmoved, Taking
  <2>3. my[t].array = Current
    BY <1>0, <2>1 DEF SInv, Latest, Kept, IInv, ThreadFits, CallFits
  <2>4. Wanted(t) \in LockIds /\ Wanted(t) \in ArrayLocks(Current)
    BY <1>0, <2>2, <2>3, WantedIsLock DEF IInv, ThreadFits, ArrayLocks
  <2>5. mode[Wanted(t)][t] \in {"read", "upgrade", "write"}
    BY <1>0, <2>1, <2>2, WantedHas DEF WantedMode
  <2>6. mode[Wanted(t)][u] = "write"
    BY <1>3, <2>1, <2>2, <2>4, Migrates
  <2> QED
    BY <1>0, <1>3, <2>4, <2>5, <2>6 DEF IInv, Compatible, Claims
<1> QED
  BY <1>1, <1>2, <1>3 DEF Steps, core

LEMMA InitUnmoved == Init => Unmoved
<1> SUFFICES ASSUME Init, NEW t \in Threads PROVE pc[t] \notin {"upgrade", "upgraded", "migrating"}
  BY DEF Unmoved
<1>1. PICK w \in Workloads : pc = [u \in Threads |-> Entry(w[u])]
  BY DEF Init
<1>2. \A job \in Jobs : Entry(job) \notin {"upgrade", "upgraded", "migrating"}
  BY DEF Jobs, Entry
<1> QED
  BY <1>1, <1>2, WorkAssumption

\* No two threads wait for each other.
NoMutualWait == \A t, u \in Threads : ~(u \in Blockers(t) /\ t \in Blockers(u))

\* A thread blocked by an insertion that upgrades does not keep it waiting.
LEMMA UpgradeCase ==
  ASSUME SInv, Unmoved, Ordered, NEW t \in Threads, NEW u \in Threads, UpgradesLower(t),
         u \in Blockers(t), t \in Blockers(u)
  PROVE  FALSE
<1> DEFINE low == LowLock(t)
           high == HighLock(t)
<1>0. IInv /\ pc[t] = "up1_wait" /\ pc[t] \in Upping /\ low # high /\ t # u
  BY BlockersFacts DEF SInv, CInv, UpgradesLower, Upping
<1>1. low \in LockIds /\ high \in LockIds /\ mode[low][t] = "upgrade" /\ mode[high][t] = "read"
  BY <1>0, UppingHas DEF UpMode
<1>2. mode[low][u] = "read"
  BY <1>0, BlockersFacts DEF Awaited
<1>3. /\ pc[u] \in Waiting
      /\ pc[u] = "lock" => mode[Awaited(u)][t] \in Claims
      /\ pc[u] # "lock" => mode[Awaited(u)][t] = "read"
      /\ Awaited(u) \in LockIds /\ mode[Awaited(u)][u] \in {"none", "claim", "upgrade"}
  BY <1>0, BlockersFacts, AwaitedFacts
<1>4. Awaited(u) = low \/ Awaited(u) = high
  BY <1>0, <1>3, UppingOwns DEF Claims
<1>5. Awaited(u) = high /\ pc[u] # "lock"
  <2> HIDE DEF low, high
  <2>1. Awaited(u) # low
    BY <1>2, <1>3
  <2>2. Awaited(u) = high /\ mode[high][t] \notin Claims
    BY <1>1, <1>4, <2>1 DEF Claims
  <2> QED
    BY <1>3, <2>2
<1>6. mode[high][u] \in {"claim", "upgrade"}
  BY <1>0, <1>3, <1>5, AwaitedFacts
<1>7. CallFits(u) /\ NeedsFit(u) /\ ModeFits(u, low) /\ ModeFits(u, high)
  BY <1>0, <1>1 DEF IInv, ThreadFits, ModesFit
<1>8. CASE pc[u] = "enter"
  <2>1. my[u].kind = "write" /\ pc[u] \in Taking /\ pc[u] \notin Upping
    BY <1>7, <1>8 DEF CallFits, Taking, Upping
  <2>2. low # Wanted(u) /\ Wanted(u) = <<my[u].array, Wanted(u)[2]>>
    BY <1>0, <1>5, <1>7, <1>8, <2>1, WantedIsLock DEF Awaited, IInv
  <2>3. CASE my[u].goal # "all"
    BY <1>2, <1>7, <2>1, <2>2, <2>3 DEF ModeFits
  <2>4. CASE my[u].goal = "all"
    <3>1. low[1] \in Nat /\ low[2] \in Nat /\ my[u].array \in Nat /\ arrays[my[u].array] \in Nat
      BY <1>0, <1>1, <1>7, <2>1, WantedIsLock, ArraysFacts, LocksAssumption DEF LockIds, IInv, Typed
    <3> QED
      BY <1>2, <1>7, <2>1, <2>2, <2>4, <3>1 DEF ModeFits
  <2> QED
    BY <2>3, <2>4
<1>9. CASE pc[u] = "upgraded"
  <2>1. ~migrated[high]
    BY <1>5, <1>9 DEF Unmoved, Awaited
  <2>2. my[t].goal = "op" /\ Job(t) = "upsert"
    BY <1>0 DEF IInv, ThreadFits, CallFits
  <2>3. /\ my[t].todo = {} /\ my[t].kind = "read" /\ high[2] \in Inds(t)
        /\ high = <<my[t].array, high[2]>>
    BY <1>0, <2>2, UppingFacts
  <2>4. migrated[<<my[t].array, high[2]>>]
    BY <1>0, <2>2, <2>3 DEF SInv, CInv, Mig, Having
  <2> QED
    BY <2>1, <2>3, <2>4
<1>10. CASE pc[u] = "up1_wait"
  <2>1. pc[u] \in Upping /\ LowLock(u) = high
    BY <1>5, <1>10 DEF Awaited, Upping
  <2>2. low = HighLock(u)
    BY <1>0, <1>1, <1>2, <2>1, UppingOwns
  <2>3. /\ low[2] \in Nat /\ high[2] \in Nat /\ low[2] <= high[2] /\ high[2] <= low[2]
    BY <1>0, <2>1, <2>2, LowIsLower
  <2>4. low = <<my[t].array, low[2]>> /\ high = <<my[t].array, high[2]>>
    BY <1>0, UppingFacts DEF IInv, ThreadFits, CallFits
  <2> QED
    BY <1>0, <2>3, <2>4
<1>11. CASE pc[u] = "up2_wait"
  <2>1. pc[u] \in Upping /\ HighLock(u) = high
    BY <1>5, <1>11 DEF Awaited, Upping
  <2>2. low = LowLock(u) /\ low # HighLock(u)
    BY <1>0, <1>1, <1>2, <2>1, UppingOwns
  <2>3. mode[low][u] = "write"
    BY <1>0, <1>11, <2>1, <2>2, UppingHas DEF UpMode
  <2> QED
    BY <1>2, <2>3
<1> QED
  BY <1>3, <1>5, <1>8, <1>9, <1>10, <1>11 DEF Waiting

LEMMA MutualFacts == SInv /\ Unmoved /\ Ordered => NoMutualWait
<1> SUFFICES ASSUME SInv, Unmoved, Ordered, NEW t \in Threads, NEW u \in Threads,
                    u \in Blockers(t), t \in Blockers(u)
             PROVE  FALSE
  BY DEF NoMutualWait
<1>1. WaitsAtUpgrade
  BY CycleFacts DEF SInv, CInv
<1>2. /\ {t, u} \in (SUBSET Threads) \ {{}}
      /\ \A v \in {t, u} : Blockers(v) \cap {t, u} # {}
  OBVIOUS
<1>3. UpgradesLower(t) \/ UpgradesLower(u)
  BY <1>1, <1>2 DEF WaitsAtUpgrade
<1> QED
  BY <1>3, UpgradeCase

\* The invariant of both.
LEMMA UnmovedInvariant ==
  ASSUME SteadyArrays
  PROVE  Spec => [](SInv /\ Unmoved /\ Ordered)
<1>1. Init => Unmoved
  BY InitUnmoved
<1>2. SInv /\ Unmoved /\ [Steps]_core => Unmoved'
  BY UnmovedStep
<1> QED
  BY <1>1, <1>2, SteadyInvariant, OrderKept, NextSteps, PTL DEF Spec

\* No two threads wait for each other: in particular an upgrade to migrate and an
\* upgrade to write never do, for the lock of the one is migrated and that of the other
\* is not.
THEOREM NoTwoWait ==
  ASSUME SteadyArrays
  PROVE  Spec => []NoMutualWait
BY UnmovedInvariant, MutualFacts, PTL

-----------------------------------------------------------------------------
(* Which calls cannot wait for each other in a cycle.                      *)

\* Each thread has the call of one of the workloads.
JobsFit == \E w \in Workloads : \A t \in Threads : my[t].job = w[t]

LEMMA JobsFitStep == IInv /\ JobsFit /\ [Steps]_core => JobsFit'
<1> SUFFICES ASSUME IInv, JobsFit, [Steps]_core PROVE JobsFit'
  OBVIOUS
<1>1. \A t \in Threads : my'[t].job = my[t].job
  <2>1. CASE UNCHANGED core
    BY <2>1 DEF core
  <2>2. ASSUME NEW t \in Threads, Step(t) PROVE \A u \in Threads : my'[u].job = my[u].job
    BY <2>2, JobsKept
  <2> QED
    BY <2>1, <2>2 DEF Steps, core
<1> QED
  BY <1>1 DEF JobsFit

LEMMA InitJobsFit == Init => JobsFit
<1> SUFFICES ASSUME Init PROVE JobsFit
  OBVIOUS
<1>1. PICK w \in Workloads : my = [t \in Threads |-> Fresh(w[t])]
  BY DEF Init
<1>2. \A job : Fresh(job).job = job
  BY DEF Fresh
<1> QED
  BY <1>1, <1>2 DEF JobsFit

LEMMA JobsFitInvariant == Spec => []JobsFit
<1>1. IInv /\ JobsFit /\ [Steps]_core => JobsFit'
  BY JobsFitStep
<1> QED
  BY <1>1, InitJobsFit, OrderKept, NextSteps, PTL DEF Spec

\* The calls that write under no lock but those they migrate (find, find_KV), and the
\* calls that hold shares of their locks: these and uprase_fn.
Finds   == {"find", "none"}
Readers == {"find", "upsert"}

\* Who waits has a call, and who upgrades has an insertion.
LEMMA WaitingCalls ==
  ASSUME IInv, NEW t \in Threads, pc[t] \in Waiting
  PROVE  /\ Job(t) # "none"
         /\ UpgradesLower(t) => Job(t) = "upsert"
         /\ Job(t) = "find" => my[t].kind = "read" /\ pc[t] \in {"lock", "upgraded"}
<1>1. CallFits(t) /\ my[t].goal \in {"op", "path", "last", "all"} /\ my[t].kind \in {"read", "write"}
  BY DEF IInv, ThreadFits, Typed, Locals
<1>2. pc[t] \in Taking \cup Having
  BY DEF Waiting, Taking, Having, Upping
<1>3. UpgradesLower(t) => pc[t] \in Upping
  BY DEF UpgradesLower, Upping
<1>4. Job(t) = "find" => my[t].kind = "read"
  BY <1>1, <1>2 DEF CallFits
<1>5. Job(t) = "find" => pc[t] \notin Upping /\ pc[t] # "enter"
  BY <1>1, <1>4 DEF CallFits
<1> QED
  BY <1>1, <1>2, <1>3, <1>4, <1>5 DEF CallFits, KeyJobs, Waiting, Upping

\* Who waits with a share in its hands has one of the calls that take shares.
LEMMA WaitingReaders ==
  ASSUME IInv, NEW t \in Threads, pc[t] \in Waiting, NEW x \in LockIds, mode[x][t] = "read"
  PROVE  Job(t) \in Readers
<1>1. /\ CallFits(t) /\ NeedsFit(t) /\ ModeFits(t, x)
      /\ my[t].goal \in {"op", "path", "last", "all"} /\ my[t].kind \in {"read", "write"}
      /\ Typed
  BY DEF IInv, ThreadFits, ModesFit, Typed, Locals
<1>2. CASE pc[t] \in Upping
  BY <1>1, <1>2 DEF CallFits, Readers
<1>3. CASE pc[t] \in Taking
  <2>1. WantedMode(t) # "read"
    BY <1>3 DEF Waiting, WantedMode, Taking
  <2>2. CASE my[t].goal # "all"
    <3>1. my[t].kind = "read"
      BY <1>1, <1>3, <2>1, <2>2 DEF ModeFits, Taking, Upping
    <3> QED
      BY <1>1, <1>3, <2>2, <3>1 DEF CallFits, KeyJobs, Readers
  <2>3. CASE my[t].goal = "all"
    <3>1. /\ x[1] \in Nat /\ x[2] \in Nat /\ my[t].array \in Nat
          /\ arrays[my[t].array] \in Nat /\ my[t].todo \subseteq 0 .. arrays[my[t].array] - 1
      BY <1>1, <1>3, <2>3, ArraysFacts, LocksAssumption DEF NeedsFit, LockIds, IInv, Typed, Locals
    <3> QED
      BY <1>1, <1>3, <2>1, <2>3, <3>1 DEF ModeFits
  <2> QED
    BY <2>2, <2>3
<1> QED
  BY <1>2, <1>3 DEF Waiting, Taking, Upping

\* One kind of workload: beside an insertion nobody takes shares.
NoReaderBeside ==
  \A w \in Workloads : \A t, u \in Threads :
    t # u => ~(w[t][1] = "upsert" /\ w[u][1] \in Readers)

\* There is nobody that the insertion could wait for when it upgrades.
LEMMA NoReaderFacts ==
  ASSUME NoReaderBeside, IInv, JobsFit, WaitsAtUpgrade
  PROVE  NoWaitCycle
<1> SUFFICES ASSUME NEW S \in (SUBSET Threads) \ {{}}, \A t \in S : Blockers(t) \cap S # {}
             PROVE  FALSE
  BY DEF NoWaitCycle
<1>1. PICK t \in S : UpgradesLower(t)
  BY DEF WaitsAtUpgrade
<1>2. PICK u \in S : u \in Blockers(t)
  BY <1>1
<1>3. /\ t \in Threads /\ u \in Threads /\ u # t /\ pc[t] \in Waiting /\ pc[t] # "lock"
      /\ pc[u] \in Waiting /\ mode[Awaited(t)][u] = "read"
  <2>1. pc[t] # "lock"
    BY <1>1 DEF UpgradesLower
  <2> QED
    BY <1>2, <2>1, BlockersFacts
<1>4. Job(t) = "upsert"
  BY <1>1, <1>3, WaitingCalls
<1>5. Awaited(t) \in LockIds
  BY <1>1, <1>3, UppingHas DEF UpgradesLower, Upping, Awaited
<1>6. Job(u) \in Readers
  BY <1>3, <1>5, WaitingReaders
<1> QED
  BY <1>3, <1>4, <1>6 DEF NoReaderBeside, JobsFit, Job

\* The other hypothesis: of an insertion, one more thread that takes shares, and a third
\* that takes locks for writing, a workload has not all three.
NoThreeKinds ==
  \A w \in Workloads : \A t, u, v \in Threads :
    t # u /\ u # v /\ v # t =>
      ~(w[t][1] = "upsert" /\ w[u][1] \in Readers /\ w[v][1] \notin Finds)

\* One insertion among finds: the highest lock that the finds wait for is none that
\* another find has, and what the insertion has of it keeps no find waiting.
LEMMA AmongFinds ==
  ASSUME SInv, Unmoved, Ordered, NEW S \in SUBSET Threads, NEW t \in S, UpgradesLower(t),
         \A u \in S : Blockers(u) \cap S # {},
         \A u \in S \ {t} : Job(u) = "find"
  PROVE  FALSE
<1> DEFINE low == LowLock(t)
           high == HighLock(t)
<1>0. IInv /\ pc[t] = "up1_wait" /\ pc[t] \in Upping /\ low # high
  BY DEF SInv, CInv, UpgradesLower, Upping
<1>1. low \in LockIds /\ high \in LockIds /\ mode[low][t] = "upgrade" /\ mode[high][t] = "read"
  BY <1>0, UppingHas DEF UpMode
<1>2. \A u \in S : u \in Threads /\ pc[u] \in Waiting
  BY BlockersFacts
<1>3. \A u \in S \ {t} : pc[u] \in {"lock", "upgraded"} /\ ~UpgradesLower(u)
  BY <1>0, <1>2, WaitingCalls
<1>4. PICK u \in S : u \in Blockers(t)
  BY <1>0
<1>5. u # t /\ mode[low][u] = "read"
  BY <1>0, <1>4, BlockersFacts DEF Awaited
<1>6. S \ {t} \in SUBSET Threads /\ S \ {t} # {} /\ \A v \in S \ {t} : pc[v] \in Waiting
  BY <1>2, <1>5
<1>7. PICK p \in S \ {t} : \A v \in S \ {t} : ~Below(Awaited(p), Awaited(v))
  BY <1>0, <1>6, HighestAwaited DEF SInv
<1> DEFINE x == Awaited(p)
<1> HIDE DEF low, high, x
<1>8. x \in LockIds
  BY <1>0, <1>6, AwaitedFacts DEF x
<1>9. ASSUME NEW v \in S \ {t}, mode[x][v] # "none"
      PROVE  Awaited(v) = x /\ mode[x][v] \in {"claim", "upgrade"} /\ pc[v] = "upgraded"
  <2>1. /\ Awaited(v) \in LockIds /\ ~Below(Awaited(v), x) /\ ~Below(x, Awaited(v))
        /\ mode[Awaited(v)][v] \in {"none", "claim", "upgrade"}
        /\ mode[Awaited(v)][v] = "none" <=> pc[v] = "lock"
    BY <1>0, <1>3, <1>6, <1>7, <1>8, <1>9, AwaitedFacts DEF x
  <2>2. Awaited(v) = x
    BY <1>8, <2>1 DEF Below, LockIds
  <2> QED
    BY <1>3, <1>9, <2>1, <2>2
\* The insertion has migrated what it has shares of, and the find has not yet.
<1>10. ASSUME NEW v \in S \ {t}, Awaited(v) = x, pc[v] = "upgraded" PROVE FALSE
  <2>1. PICK q \in S : q \in Blockers(v)
    BY <1>10
  <2>2. mode[x][q] = "read"
    BY <1>10, <2>1, BlockersFacts
  <2>3. q = t
    BY <1>9, <2>2
  <2>4. x = high
    BY <1>0, <1>1, <1>8, <2>2, <2>3, UppingOwns DEF low, high
  <2>5. ~migrated[high]
    BY <1>6, <1>10, <2>4 DEF Unmoved, Awaited
  <2>6. my[t].goal = "op" /\ Job(t) = "upsert"
    BY <1>0, <1>2 DEF IInv, ThreadFits, CallFits
  <2>7. /\ my[t].todo = {} /\ my[t].kind = "read" /\ high[2] \in Inds(t)
        /\ high = <<my[t].array, high[2]>>
    BY <1>0, <1>2, <2>6, UppingFacts DEF high
  <2>8. migrated[<<my[t].array, high[2]>>]
    BY <1>0, <1>2, <2>6, <2>7 DEF SInv, CInv, Mig, Having
  <2> QED
    BY <2>5, <2>7, <2>8
<1>11. CASE pc[p] = "lock"
  <2>1. PICK q \in S : q \in Blockers(p)
    BY <1>7
  <2>2. mode[x][q] \in Claims
    BY <1>11, <2>1, BlockersFacts DEF x
  <2>3. q = t
    BY <1>9, <1>10, <2>2 DEF Claims
  <2>4. x = low
    BY <1>0, <1>1, <1>8, <2>2, <2>3, UppingOwns DEF low, high, Claims
  <2> QED
    BY <1>4, <1>5, <1>9, <2>4
<1> QED
  BY <1>3, <1>7, <1>10, <1>11 DEF x

\* So a cycle has all three.
LEMMA ThreeKindsFacts ==
  ASSUME NoThreeKinds, SInv, Unmoved, Ordered, JobsFit
  PROVE  NoWaitCycle
<1> SUFFICES ASSUME NEW S \in (SUBSET Threads) \ {{}}, \A t \in S : Blockers(t) \cap S # {}
             PROVE  FALSE
  BY DEF NoWaitCycle
<1>0. IInv /\ WaitsAtUpgrade /\ NoMutualWait
  BY CycleFacts, MutualFacts DEF SInv, CInv
<1>1. PICK t \in S : UpgradesLower(t)
  BY <1>0 DEF WaitsAtUpgrade
<1>2. \A p \in S : p \in Threads /\ pc[p] \in Waiting /\ Job(p) # "none"
  BY <1>0, BlockersFacts, WaitingCalls
<1>3. Job(t) = "upsert"
  BY <1>0, <1>1, <1>2, WaitingCalls
<1>4. PICK u \in S : u \in Blockers(t)
  BY <1>1
<1>5. u # t /\ Job(u) \in Readers
  <2>1. pc[t] # "lock" /\ Awaited(t) \in LockIds
    BY <1>0, <1>1, <1>2, UppingHas DEF UpgradesLower, Upping, Awaited
  <2>2. u # t /\ mode[Awaited(t)][u] = "read"
    BY <1>4, <2>1, BlockersFacts
  <2> QED
    BY <1>0, <1>2, <2>1, <2>2, WaitingReaders
<1>6. PICK w \in Workloads : \A p \in Threads : Job(p) = w[p][1]
  BY DEF JobsFit, Job
<1>7. \A v \in S \ {t, u} : Job(v) = "find"
  BY <1>2, <1>3, <1>5, <1>6 DEF NoThreeKinds, Finds
<1>8. PICK v \in S : v \in Blockers(u)
  BY <1>4
<1>9. v \in S \ {t, u}
  BY <1>0, <1>2, <1>4, <1>8, BlockersFacts DEF NoMutualWait
<1>10. Job(u) = "find"
  BY <1>2, <1>3, <1>5, <1>6, <1>7, <1>9 DEF NoThreeKinds, Readers, Finds
<1> QED
  BY <1>1, <1>2, <1>7, <1>10, AmongFinds

\* Without another call that takes shares beside it an insertion deadlocks with no call,
\* however many threads there are and however the table begins. In particular update,
\* erase, rehash and clear never deadlock, whoever calls them: they take their locks in
\* the order of the indexes, array after array.
THEOREM NoDeadlockWithoutReaders ==
  ASSUME NoReaderBeside
  PROVE  Spec => []NoWaitCycle
<1>1. IInv /\ JobsFit /\ WaitsAtUpgrade => NoWaitCycle
  BY NoReaderFacts
<1> QED
  BY <1>1, OrderKept, JobsFitInvariant, WaitCyclesUpgrade, PTL

\* Nor do insertions deadlock with one other call, nor one insertion with any number of
\* calls of find.  It takes three: an insertion that upgrades the lower of its locks and
\* waits there for the readers (TwoBuckets::try_upgrade), a reader that has a share of
\* that lock and asks for a higher one, and a writer that has claimed the higher lock
\* and waits for the share the insertion has of it.
THEOREM NoDeadlock ==
  ASSUME SteadyArrays, NoThreeKinds
  PROVE  Spec => []NoWaitCycle
<1>1. SInv /\ Unmoved /\ Ordered /\ JobsFit => NoWaitCycle
  BY ThreeKindsFacts
<1> QED
  BY <1>1, UnmovedInvariant, JobsFitInvariant, PTL

=============================================================================
