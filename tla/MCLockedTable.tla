--------------------------- MODULE MCLockedTable ---------------------------
(* Instances of LockedTable for TLC.                                       *)
EXTENDS LockedTable, TLC

CONSTANTS t1, t2, k1, k2, k3, v1

OneThread  == {t1}
TwoThreads == {t1, t2}
ThreeKeys  == {k1, k2, k3}
OneValue   == {v1}
Element(k) == [key |-> k, val |-> v1]
FirstThree == {Element(k) : k \in ThreeKeys}
FirstTwo   == {Element(k1), Element(k2)}
Emptied    == Element(k3)

H(low, mult) == [low |-> low, mult |-> mult, rest |-> 0]
Insertion(k) == [op |-> "insert", key |-> k, val |-> v1]
On(op, k)    == [op |-> op, key |-> k]
Plain(op)    == [op |-> op]
Rehash(n)    == [op |-> "rehash", hp |-> n]
Reserve(n)   == [op |-> "reserve", num |-> n]

\* One slot per bucket, two locks.  Of two buckets k1 and k3 can be in both and
\* k2 in the second alone: three keys do not fit.  Of four, k1 can be in 0 and
\* 3, k2 in 1, k3 in 0 and 1, and k3 may have to displace k1.
SplitHash == k1 :> H(0, 3) @@ k2 :> H(1, 0) @@ k3 :> H(0, 1)

SharedWork == {Insertion(k3), Plain("lock"), Rehash(0)}

SharedSession ==
  {Plain("unlock"), Plain("begin"), Plain("next"), Plain("erase_at"), Plain("size"),
   On("erase", k2), Reserve(2), Rehash(3)}

\* Two slots per bucket, two locks.  Of two buckets k1 can be in both, k2 in the
\* first and k3 in the second alone.
PairHash == k1 :> H(0, 1) @@ k2 :> H(0, 0) @@ k3 :> H(1, 0)

AloneWork == {Plain("lock")}

AloneSession ==
  {Plain(op) : op \in {"unlock", "begin", "end", "next", "prev", "erase_at",
                       "save", "load", "clear", "size"}}
    \cup {On("find", k1), On("erase", k1), Rehash(0)}

\* k1 and k2 have one bucket each, the same up to hashpower 5 but not at 6; k3
\* stands for what a move leaves behind.
FarHash == k1 :> H(0, 0) @@ k2 :> H(32, 0) @@ k3 :> H(1, 0)

ShrinkWork == {Rehash(5)}
=============================================================================
