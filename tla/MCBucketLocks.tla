--------------------------- MODULE MCBucketLocks ---------------------------
(* Instances of BucketLocks for TLC.                                       *)
EXTENDS BucketLocks, TLC

CONSTANTS t1, t2, t3, k1, k2

ThreeThreads == {t1, t2, t3}
TwoKeys      == {k1, k2}

\* With two locks, k1 has a bucket under each at every hashpower but 0, and k2
\* has both its buckets under the lock of index 1.
HashOne == k1 :> 0 @@ k2 :> 1
HashTwo == k1 :> 3 @@ k2 :> 3

\* A table that doubles once and gets more locks, and one that has all its
\* locks from the beginning and doubles lazily.
SmallAndLarge == {<<0, 1>>, <<1, 2>>}

Calls(a, b, c) == t1 :> a @@ t2 :> b @@ t3 :> c

Nothing == <<"none", 0>>
Find(k) == <<"find", k>>
Write(k) == <<"write", k>>
Upsert(k) == <<"upsert", k>>

\* Any two calls side by side, the table only growing, and some three: no insertion,
\* one among readers, one among writers.
GrowingCalls ==
  <<Find(k1), Write(k1), Upsert(k1), Upsert(k2), <<"clear", 0>>, <<"rehash", 2>>>>

GrowingWork ==
  {Calls(GrowingCalls[p[1]], GrowingCalls[p[2]], Nothing) :
     p \in {q \in (1 .. 6) \X (1 .. 6) : q[1] <= q[2]}}
  \cup {Calls(Find(k1), Write(k1), Write(k2)),
        Calls(Find(k1), Write(k2), <<"rehash", 2>>),
        Calls(Upsert(k1), Find(k1), Find(k2)),
        Calls(Upsert(k1), Write(k1), Write(k2))}

\* An insertion that upgrades the lower of its two locks, a reader of the same
\* two and a writer under the higher one.
OnlyLarge == {<<1, 1>>}
CycleWork == {Calls(Upsert(k1), Find(k1), Write(k2))}
=============================================================================
