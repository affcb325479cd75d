--------------------------- MODULE MCCuckooTable ---------------------------
(* Instances of CuckooTable for TLC.                                       *)
EXTENDS CuckooTable, TLC

CONSTANTS t1, t2, k1, k2, k3, k4, k5, v1, v2

TwoThreads == {t1, t2}
FourKeys   == {k1, k2, k3, k4}
FiveKeys   == FourKeys \cup {k5}
TwoValues  == {v1, v2}

H(low, mult) == [low |-> low, mult |-> mult, rest |-> 0]

With(op, k, v) == [op |-> op, key |-> k, val |-> v]
On(op, k) == [op |-> op, key |-> k]

\* One slot per bucket and two locks.  In the two buckets of the first table k4
\* belongs to 0, k2 to 1, and the others can be anywhere.  With four buckets k4
\* and k2 stay, k1 can be in 0 and 3, k3 in 3 and 2 and k5 in 1 and 2.  If 2 is
\* free, there is a path of three elements that makes room for k4 and one of two
\* that makes room for k2, and each of them takes the free slot of the other.
ChainHash ==
  k1 :> H(0, 3) @@ k2 :> H(1, 0) @@ k3 :> H(3, 1) @@ k4 :> H(0, 0) @@ k5 :> H(1, 3)

ChainWork ==
  {With("insert_or_assign", k1, v1), With("insert", k2, v1), With("insert", k3, v1),
   With("insert_or_assign", k4, v2), With("insert", k5, v1), On("erase", k1),
   [op |-> "clear"]}

\* In four buckets k4 finds k1 in one of its buckets, 0 and 1, and k2 in the
\* other, and moves k1 under the other lock.
SizeHash == k1 :> H(0, 3) @@ k2 :> H(1, 0) @@ k3 :> H(3, 1) @@ k4 :> H(0, 1)

SizeWork ==
  {With("insert", k1, v1), With("insert", k2, v1), With("insert", k4, v1),
   On("erase", k1), On("erase", k2), [op |-> "size"]}

\* Two slots per bucket, two locks, at first one bucket, which any three keys
\* overfill.  k1 and k2 have the same hash; with two buckets these two can be
\* in both, k3 in bucket 0 and k4 in bucket 1 alone.
PairHash == k1 :> H(0, 1) @@ k2 :> H(0, 1) @@ k3 :> H(0, 0) @@ k4 :> H(1, 0)

PairWork ==
  {With("insert", k1, v1), With("insert", k2, v1), With("uprase", k3, v1),
   With("insert", k4, v1), With("update", k1, v2), On("erase", k2), On("find", k1),
   [op |-> "size"]}
=============================================================================
