--------------------------- MODULE PathCodeProofs ---------------------------
(***************************************************************************)
(* Proofs about PathCode.tla for any number of slots, any length of paths  *)
(* and any width of the codes.                                             *)
(***************************************************************************)
EXTENDS PathCode, NumberFacts

-----------------------------------------------------------------------------
(* Powers and sums of powers.                                              *)

Power(k) == SlotPerBucket ^ k

\* 1 + S + ... + S^(k-1), in the closed form of b_queue.
Sum(k) ==
  IF SlotPerBucket = 1 THEN k ELSE ((SlotPerBucket ^ k) - 1) \div (SlotPerBucket - 1)

\* Packing a digit and unpacking it are inverse.
LEMMA DigitFacts ==
  ASSUME NEW m \in Nat \ {0}, NEW a \in Nat, NEW d \in 0 .. m - 1
  PROVE  /\ (a * m + d) % m = d
         /\ (a * m + d) \div m = a
<1>1. (m * a + d) % m = d /\ (m * a + d) \div m = a
  OBVIOUS
<1> QED
  BY <1>1

\* Quotient and remainder.
LEMMA DivisionFacts ==
  ASSUME NEW m \in Nat \ {0}, NEW n \in Nat
  PROVE  /\ n \div m \in Nat /\ n % m \in 0 .. m - 1
         /\ n = (n \div m) * m + (n % m)
<1> DEFINE q == n \div m
           r == n % m
<1>1. q \in Nat /\ r \in 0 .. m - 1 /\ n = m * q + r
  OBVIOUS
<1> HIDE DEF q, r
<1>2. n = q * m + r
  BY <1>1
<1> QED
  BY <1>1, <1>2 DEF q, r

\* Powers are positive, and each is S times the one before.
LEMMA PowerFacts ==
  /\ Power(0) = 1
  /\ \A k \in 0 .. MaxPathLen : Power(k) \in Nat \ {0}
  /\ \A k \in 0 .. MaxPathLen - 1 : Power(k + 1) = SlotPerBucket * Power(k)
<1>1. /\ Power(0) = 1
      /\ \A k \in 0 .. MaxPathLen - 1 : Power(k + 1) = SlotPerBucket * Power(k)
  BY ExponentAssumption DEF Power
<1>2. \A k \in 0 .. MaxPathLen : Power(k) \in Nat \ {0}
  <2> DEFINE T == {k \in 0 .. MaxPathLen : Power(k) \notin Nat \ {0}}
  <2> SUFFICES ASSUME T # {} PROVE FALSE
    OBVIOUS
  <2>1. PICK k \in T : \A j \in T : k <= j
    <3> T \subseteq Nat
      OBVIOUS
    <3> HIDE DEF T
    <3> QED
      BY LeastElement
  <2>2. k # 0
    BY <1>1
  <2>3. k - 1 \in 0 .. MaxPathLen - 1 /\ k - 1 \notin T
    BY <2>1, <2>2, SizeAssumption
  <2>4. Power(k - 1) \in Nat \ {0} /\ Power((k - 1) + 1) = SlotPerBucket * Power(k - 1)
    BY <1>1, <2>3, SizeAssumption
  <2> QED
    BY <2>3, <2>4, SizeAssumption
<1> QED
  BY <1>1, <1>2

\* The sums grow by the powers.
LEMMA SumFacts ==
  /\ Sum(0) = 0
  /\ \A k \in 0 .. MaxPathLen - 1 : Sum(k + 1) = Sum(k) + Power(k)
  /\ \A k \in 0 .. MaxPathLen : Sum(k) \in Nat
<1> DEFINE S == SlotPerBucket
<1>0. S \in Nat \ {0} /\ MaxPathLen \in Nat \ {0}
  BY SizeAssumption
<1>1. CASE S = 1
  <2>1. \A k \in 0 .. MaxPathLen : Power(k) = 1
    <3> DEFINE T == {k \in 0 .. MaxPathLen : Power(k) # 1}
    <3> SUFFICES ASSUME T # {} PROVE FALSE
      OBVIOUS
    <3>1. PICK k \in T : \A j \in T : k <= j
      <4> T \subseteq Nat
        OBVIOUS
      <4> HIDE DEF T
      <4> QED
        BY LeastElement
    <3>2. k # 0
      BY PowerFacts
    <3>3. k - 1 \in 0 .. MaxPathLen - 1 /\ k - 1 \notin T
      BY <1>0, <3>1, <3>2
    <3>4. Power((k - 1) + 1) = 1 * Power(k - 1)
      BY <1>1, <3>3, PowerFacts
    <3> QED
      BY <1>0, <3>3, <3>4
  <2> QED
    BY <1>0, <1>1, <2>1 DEF Sum
<1>2. CASE S # 1
  <2> DEFINE m == S - 1
  <2>1. m \in Nat \ {0}
    BY <1>0, <1>2
  <2>2. \A k : Sum(k) = (Power(k) - 1) \div m
    BY <1>2 DEF Sum, Power
  <2> HIDE DEF m
  <2>3. Sum(0) = 0
    <3>1. (0 * m + 0) \div m = 0
      BY <2>1, DigitFacts
    <3> QED
      BY <2>1, <2>2, <3>1, PowerFacts
  <2>4. ASSUME NEW k \in 0 .. MaxPathLen - 1 PROVE Sum(k + 1) = Sum(k) + Power(k)
    <3> DEFINE a == Power(k)
    <3>1. a \in Nat \ {0} /\ Power(k + 1) = S * a
      BY <1>0, PowerFacts
    <3> HIDE DEF a
    <3>2. S * a - 1 = m * a + (a - 1)
      BY <1>0, <3>1 DEF m
    <3>3. (m * a + (a - 1)) \div m = a + ((a - 1) \div m)
      <4> DEFINE n == a - 1
                 q == n \div m
                 r == n % m
      <4>0. n \in Nat
        BY <3>1
      <4>1. q \in Nat /\ r \in 0 .. m - 1 /\ n = q * m + r
        <5> HIDE DEF n
        <5> QED
          BY <2>1, <4>0, DivisionFacts
      <4> HIDE DEF q, r
      <4>2. m * a + (a - 1) = (a + q) * m + r
        BY <2>1, <3>1, <4>1
      <4>3. ((a + q) * m + r) \div m = a + q
        <5>1. a + q \in Nat
          BY <3>1, <4>1
        <5> QED
          BY <2>1, <4>1, <5>1, DigitFacts
      <4> QED
        BY <4>2, <4>3 DEF q
    <3>4. Sum(k) = (a - 1) \div m /\ Sum(k + 1) = (S * a - 1) \div m
      BY <2>2, <3>1 DEF a
    <3>5. (a - 1) \div m \in Nat
      <4> DEFINE n == a - 1
      <4>1. n \in Nat
        BY <3>1
      <4>2. n \div m \in Nat
        <5> HIDE DEF n
        <5> QED
          BY <2>1, <4>1, DivisionFacts
      <4> QED
        BY <4>2
    <3> QED
      BY <3>1, <3>2, <3>3, <3>4, <3>5 DEF a
  <2>5. ASSUME NEW k \in 0 .. MaxPathLen PROVE Sum(k) \in Nat
    <3>1. Power(k) - 1 \in Nat
      BY PowerFacts
    <3> QED
      BY <2>1, <2>2, <3>1, DivisionFacts
  <2> QED
    BY <2>3, <2>4, <2>5
<1> QED
  BY <1>1, <1>2

\* A larger level has the larger sum.
LEMMA SumGrows ==
  ASSUME NEW j \in 0 .. MaxPathLen
  PROVE  Sum(j) <= Sum(MaxPathLen)
<1> DEFINE T == {k \in j .. MaxPathLen : ~(Sum(j) <= Sum(k))}
<1> SUFFICES ASSUME ~(Sum(j) <= Sum(MaxPathLen)) PROVE FALSE
  OBVIOUS
<1>1. PICK k \in T : \A i \in T : k <= i
  <2> T \subseteq Nat /\ T # {}
    BY SizeAssumption
  <2> HIDE DEF T
  <2> QED
    BY LeastElement
<1>2. k # j
  BY SumFacts
<1>3. k - 1 \in j .. MaxPathLen - 1 /\ k - 1 \notin T
  BY <1>1, <1>2, SizeAssumption
<1>4. /\ Sum((k - 1) + 1) = Sum(k - 1) + Power(k - 1)
      /\ Sum(k - 1) \in Nat /\ Power(k - 1) \in Nat /\ Sum(j) \in Nat
  BY <1>3, SumFacts, PowerFacts, SizeAssumption
<1> QED
  BY <1>3, <1>4, SizeAssumption

LEMMA CountIsSum == MaxCuckooCount = 2 * Sum(MaxPathLen)
BY DEF MaxCuckooCount, Sum

-----------------------------------------------------------------------------
(* Types.                                                                  *)

\* The unpacking ends before it has more slots than the path has.
Typed ==
  /\ TypeOK
  /\ pc = "search" => unpacked = <<>>
  /\ pc = "unpack" => Len(unpacked) <= x.depth + 1

\* The width of the codes.
LEMMA CodeFacts ==
  /\ 2 ^ CodeBits \in Nat \ {0}
  /\ \A c \in Nat : c % 2 ^ CodeBits \in Codes
<1>1. 2 ^ CodeBits \in Nat \ {0}
  <2>1. Doubling(CodeBits)
    BY ExponentAssumption DEF Doubling
  <2>2. CodeBits \in Nat /\ CodeBits \in 0 .. CodeBits
    BY SizeAssumption
  <2> QED
    BY <2>1, <2>2, PowersPositive
<1> QED
  BY <1>1, DivisionFacts DEF Codes

\* The slot looked at is a slot of the bucket, and so the next way is a way.
LEMMA ScanFacts ==
  ASSUME NEW y \in Items, NEW i \in Slots
  PROVE  /\ ScannedSlot(y, i) \in Slots
         /\ Packed(y, i) \in Codes
         /\ Further(y, i) \in Ways
         /\ Further(y, i).root = y.way.root
         /\ Further(y, i).slots = Append(y.way.slots, ScannedSlot(y, i))
<1>1. y.code \in Nat /\ y.way \in Ways /\ i \in Nat /\ SlotPerBucket \in Nat \ {0}
  BY CodeFacts, SizeAssumption DEF Items, Codes, Slots
<1>2. ScannedSlot(y, i) \in Slots /\ ScannedSlot(y, i) \in Nat
  <2>1. y.code % SlotPerBucket \in Nat
    BY <1>1, DivisionFacts
  <2>2. (y.code % SlotPerBucket) + i \in Nat
    BY <1>1, <2>1
  <2> QED
    BY <1>1, <2>2, DivisionFacts DEF ScannedSlot, Slots
<1>3. Packed(y, i) \in Codes
  <2>1. y.code * SlotPerBucket + ScannedSlot(y, i) \in Nat
    BY <1>1, <1>2
  <2> QED
    BY <2>1, CodeFacts DEF Packed
<1>4. Append(y.way.slots, ScannedSlot(y, i)) \in Seq(Slots)
  BY <1>1, <1>2 DEF Ways
<1> QED
  BY <1>1, <1>2, <1>3, <1>4 DEF Further, Way, Ways

\* The items enqueued are items, one level deeper.
LEMMA ChildrenFacts ==
  ASSUME NEW y \in Items, NEW n \in 0 .. SlotPerBucket
  PROVE  /\ Children(y, n) \in Seq(Items)
         /\ Len(Children(y, n)) = IF y.depth < MaxPathLen - 1 THEN n ELSE 0
         /\ \A i \in 1 .. Len(Children(y, n)) :
              /\ Children(y, n)[i] = Item(Packed(y, i - 1), y.depth + 1, Further(y, i - 1))
              /\ i - 1 \in Slots
<1>1. y.depth \in 0 .. MaxPathLen - 1 /\ n \in Nat /\ n <= SlotPerBucket
      /\ SlotPerBucket \in Nat /\ MaxPathLen \in Nat
  BY SizeAssumption DEF Items
<1>2. CASE Extensible(y)
  <2>1. Children(y, n) = [i \in 1 .. n |-> Item(Packed(y, i - 1), y.depth + 1, Further(y, i - 1))]
    BY <1>2 DEF Children
  <2>2. ASSUME NEW i \in 1 .. n
        PROVE  i - 1 \in Slots /\ Item(Packed(y, i - 1), y.depth + 1, Further(y, i - 1)) \in Items
    <3>1. i - 1 \in Slots
      BY <1>1 DEF Slots
    <3>2. y.depth + 1 \in 0 .. MaxPathLen - 1
      BY <1>1, <1>2 DEF Extensible
    <3> QED
      BY <3>1, <3>2, ScanFacts DEF Item, Items
  <2>3. Children(y, n) \in Seq(Items) /\ Len(Children(y, n)) = n
    BY <1>1, <2>1, <2>2
  <2> QED
    BY <1>2, <2>1, <2>2, <2>3 DEF Extensible
<1>3. CASE ~Extensible(y)
  <2>1. Children(y, n) = <<>>
    BY <1>3 DEF Children
  <2> QED
    BY <1>1, <1>3, <2>1 DEF Extensible
<1> QED
  BY <1>2, <1>3

LEMMA TypedInit == Init => Typed
<1> SUFFICES ASSUME Init PROVE Typed
  OBVIOUS
<1>1. 0 \in Codes /\ 1 \in Codes
  <2>1. SlotPerBucket ^ MaxPathLen \in Nat \ {0}
    BY PowerFacts, SizeAssumption DEF Power
  <2> QED
    BY <2>1, CodeFacts, SizeAssumption DEF Codes
<1>2. \A r \in Roots : Item(r, 0, Way(r, <<>>)) \in Items
  <2>1. 0 \in 0 .. MaxPathLen - 1 /\ <<>> \in Seq(Slots)
    BY SizeAssumption
  <2> QED
    BY <1>1, <2>1 DEF Item, Items, Way, Ways, Roots
<1>3. queue \in Seq(Items) /\ x \in Items
  BY <1>2 DEF Init, Roots
<1> QED
  BY <1>3, SizeAssumption DEF Init, Typed, TypeOK

LEMMA TypedStep == Typed /\ [Next]_vars => Typed'
<1> SUFFICES ASSUME Typed, [Next]_vars PROVE Typed'
  OBVIOUS
<1>0. /\ queue \in Seq(Items) /\ x \in Items /\ last \in Nat /\ unpacked \in Seq(Slots)
      /\ SlotPerBucket \in Nat \ {0} /\ MaxPathLen \in Nat \ {0}
  BY SizeAssumption DEF Typed, TypeOK
<1>1. CASE VisitFull
  <2> DEFINE y == Head(queue)
             children == Children(y, SlotPerBucket)
  <2>1. y \in Items /\ Tail(queue) \in Seq(Items)
    BY <1>0, <1>1 DEF VisitFull
  <2>2. children \in Seq(Items)
    BY <1>0, <2>1, ChildrenFacts
  <2>3. Tail(queue) \o children \in Seq(Items) /\ Len(children) \in Nat
    BY <2>1, <2>2
  <2> QED
    BY <1>0, <1>1, <2>3 DEF VisitFull, Typed, TypeOK
<1>2. CASE VisitFree
  <2> DEFINE y == Head(queue)
  <2>1. y \in Items
    BY <1>0, <1>2 DEF VisitFree
  <2>2. PICK n \in Slots : /\ last' = last + Len(Children(y, n))
                           /\ x' = Item(Packed(y, n), y.depth, Further(y, n))
    BY <1>2 DEF VisitFree
  <2>3. last' \in Nat
    <3>1. n \in 0 .. SlotPerBucket
      BY <1>0 DEF Slots
    <3>2. Len(Children(y, n)) \in Nat
      BY <2>1, <3>1, ChildrenFacts
    <3> QED
      BY <1>0, <2>2, <3>2
  <2>4. x' \in Items
    BY <2>1, <2>2, ScanFacts DEF Item, Items
  <2>5. x'.depth \in Nat
    BY <2>4 DEF Items
  <2> QED
    BY <1>0, <1>2, <2>3, <2>4, <2>5 DEF VisitFree, Typed, TypeOK
<1>3. CASE Unpack
  <2> DEFINE y == x
  <2>1. x.code \in Nat /\ x.depth \in 0 .. MaxPathLen - 1 /\ x.code <= 2 ^ CodeBits - 1
    BY <1>0, CodeFacts DEF Items, Codes
  <2>2. x.code % SlotPerBucket \in Slots
    BY <1>0, <2>1, DivisionFacts DEF Slots
  <2>3. x.code \div SlotPerBucket \in Codes
    <3> DEFINE c == x.code
               q == c \div SlotPerBucket
               r == c % SlotPerBucket
    <3>1. q \in Nat /\ r \in Nat /\ c = q * SlotPerBucket + r
      <4> HIDE DEF c
      <4>1. c \in Nat
        BY <2>1 DEF c
      <4>2. q \in Nat /\ r \in 0 .. SlotPerBucket - 1 /\ c = q * SlotPerBucket + r
        BY <1>0, <4>1, DivisionFacts
      <4> QED
        BY <4>2
    <3> HIDE DEF q, r
    <3>2. q <= q * SlotPerBucket
      BY <1>0, <3>1
    <3>3. q * SlotPerBucket \in Nat
      BY <1>0, <3>1
    <3>4. q <= x.code
      BY <2>1, <3>1, <3>2, <3>3
    <3>5. q \in Codes
      BY <2>1, <3>1, <3>4, CodeFacts DEF Codes
    <3> QED
      BY <3>5 DEF q
  <2>4. x' \in Items /\ x'.depth = x.depth
    <3>1. x' = [y EXCEPT !.code = x.code \div SlotPerBucket] /\ y \in Items
      BY <1>0, <1>3 DEF Unpack
    <3> HIDE DEF y
    <3>2. x' \in Items /\ x'.depth = y.depth
      BY <2>3, <3>1 DEF Items
    <3> QED
      BY <3>2 DEF y
  <2>5. /\ unpacked' = Append(unpacked, x.code % SlotPerBucket)
        /\ unpacked' \in Seq(Slots) /\ Len(unpacked') = Len(unpacked) + 1
    BY <1>0, <1>3, <2>2 DEF Unpack
  <2>6. Len(unpacked') <= x'.depth + 1 /\ Len(unpacked') <= MaxPathLen
    BY <1>0, <1>3, <2>1, <2>4, <2>5 DEF Unpack
  <2> QED
    BY <1>0, <1>3, <2>4, <2>5, <2>6 DEF Unpack, Typed, TypeOK
<1>4. CASE Fail \/ UnpackRoot \/ Finished \/ UNCHANGED vars
  BY <1>0, <1>4 DEF Fail, UnpackRoot, Finished, vars, Typed, TypeOK
<1> QED
  BY <1>1, <1>2, <1>3, <1>4 DEF Next

\* Every variable keeps its type: codes fit their width and no item is deeper
\* than the asserts of b_slot allow, so the path has room in CuckooRecords.
THEOREM TypeCorrect == Spec => []TypeOK
<1>1. Spec => []Typed
  BY TypedInit, TypedStep, PTL DEF Spec
<1>2. Typed => TypeOK
  BY DEF Typed
<1> QED
  BY <1>1, <1>2, PTL

-----------------------------------------------------------------------------
(* The search goes level by level, and each level has a known size.        *)

\* The items enqueued on the next level by v items of level d.
Opened(d, v) == IF d < MaxPathLen - 1 THEN v * SlotPerBucket ELSE 0

\* v of the 2 S^d items of level d have been visited, all of them full.
LevelFits(d, v) ==
  /\ d \in 0 .. MaxPathLen - 1 /\ v \in 0 .. 2 * Power(d)
  /\ v < 2 * Power(d) \/ d = MaxPathLen - 1
  /\ last = 2 * Sum(d + 1) + Opened(d, v)
  /\ Len(queue) = 2 * Power(d) - v + Opened(d, v)
  /\ \A i \in 1 .. Len(queue) : queue[i].depth = IF i <= 2 * Power(d) - v THEN d ELSE d + 1

CountInv ==
  /\ Typed
  /\ pc = "search" => \E d, v \in Nat : LevelFits(d, v)
  /\ last <= 2 * Sum(MaxPathLen)
  /\ pc = "failed" => last = 2 * Sum(MaxPathLen)

\* The sizes of a level and of the next one.
LEMMA LevelFacts ==
  ASSUME NEW d \in 0 .. MaxPathLen - 1
  PROVE  /\ Power(d) \in Nat \ {0} /\ Sum(d + 1) \in Nat /\ Sum(d + 1) <= Sum(MaxPathLen)
         /\ d < MaxPathLen - 1 => /\ d + 1 \in 0 .. MaxPathLen - 1
                                  /\ Power(d + 1) = SlotPerBucket * Power(d)
                                  /\ Sum(d + 2) = Sum(d + 1) + SlotPerBucket * Power(d)
                                  /\ Sum(d + 2) <= Sum(MaxPathLen)
<1>1. MaxPathLen \in Nat /\ d + 1 \in 0 .. MaxPathLen /\ d \in 0 .. MaxPathLen
  BY SizeAssumption
<1>2. CASE d < MaxPathLen - 1
  <2>1. d + 1 \in 0 .. MaxPathLen - 1 /\ d + 2 \in 0 .. MaxPathLen /\ (d + 1) + 1 = d + 2
    BY <1>1, <1>2
  <2>2. Sum((d + 1) + 1) = Sum(d + 1) + Power(d + 1)
    BY <2>1, SumFacts
  <2>3. Sum(d + 2) = Sum(d + 1) + Power(d + 1)
    BY <2>1, <2>2
  <2>4. Power(d + 1) = SlotPerBucket * Power(d)
    BY PowerFacts
  <2> QED
    BY <1>1, <2>1, <2>3, <2>4, PowerFacts, SumFacts, SumGrows
<1>3. CASE ~(d < MaxPathLen - 1)
  BY <1>1, <1>3, PowerFacts, SumFacts, SumGrows
<1> QED
  BY <1>2, <1>3

LEMMA CountInit == Init => CountInv
<1> SUFFICES ASSUME Init PROVE CountInv
  OBVIOUS
<1>1. /\ Power(0) = 1 /\ Sum(0) = 0 /\ Sum(1) = 1 /\ 0 \in 0 .. MaxPathLen - 1
      /\ Sum(1) <= Sum(MaxPathLen) /\ Sum(MaxPathLen) \in Nat
  <2>1. 0 \in 0 .. MaxPathLen - 1 /\ 1 \in 0 .. MaxPathLen /\ MaxPathLen \in 0 .. MaxPathLen
    BY SizeAssumption
  <2>2. Sum(0 + 1) = Sum(0) + Power(0)
    BY <2>1, SumFacts
  <2>3. Sum(1) = 1
    BY <2>2, SumFacts, PowerFacts
  <2> QED
    BY <2>1, <2>3, SumFacts, PowerFacts, SumGrows
<1>2. LevelFits(0, 0)
  <2>1. Opened(0, 0) = 0
    BY SizeAssumption DEF Opened
  <2>2. last = 2 /\ Len(queue) = 2 /\ \A i \in 1 .. 2 : queue[i].depth = 0
    BY DEF Init, Item
  <2>3. 0 + 1 = 1
    OBVIOUS
  <2> QED
    BY <1>1, <2>1, <2>2, <2>3 DEF LevelFits
<1>3. last <= 2 * Sum(MaxPathLen) /\ pc = "search"
  BY <1>1 DEF Init
<1> QED
  BY <1>2, <1>3, TypedInit DEF CountInv

\* One item leaves the front of the queue, deeper ones join its end.
LEMMA QueueMoves ==
  ASSUME NEW q \in Seq(Items), NEW ch \in Seq(Items), NEW d \in Nat, NEW r \in Nat \ {0},
         r <= Len(q),
         \A i \in 1 .. Len(q) : q[i].depth = IF i <= r THEN d ELSE d + 1,
         \A i \in 1 .. Len(ch) : ch[i].depth = d + 1
  PROVE  /\ Len(Tail(q) \o ch) = (Len(q) - 1) + Len(ch)
         /\ \A i \in 1 .. Len(Tail(q) \o ch) :
              (Tail(q) \o ch)[i].depth = IF i <= r - 1 THEN d ELSE d + 1
<1> DEFINE t == Tail(q)
<1>1. /\ q # <<>> /\ Len(q) \in Nat \ {0}
      /\ t \in Seq(Items) /\ Len(t) = Len(q) - 1
      /\ \A i \in 1 .. Len(q) - 1 : t[i] = q[i + 1]
  OBVIOUS
<1> HIDE DEF t
<1> DEFINE z == t \o ch
<1>2. /\ Len(z) = Len(t) + Len(ch) /\ Len(ch) \in Nat
      /\ \A i \in 1 .. Len(t) : z[i] = t[i]
      /\ \A i \in 1 .. Len(ch) : z[Len(t) + i] = ch[i]
  <2>1. Len(z) = Len(t) + Len(ch) /\ Len(ch) \in Nat /\ Len(t) \in Nat
    <3>1. t \in Seq(Items) /\ ch \in Seq(Items)
      BY <1>1
    <3>2. Len(ch) \in Nat /\ Len(t) \in Nat
      BY <3>1
    <3>3. \A a, b \in Seq(Items) : Len(a \o b) = Len(a) + Len(b)
      OBVIOUS
    <3> QED
      BY <3>1, <3>2, <3>3
  <2>2. \A i \in 1 .. Len(t) : z[i] = t[i]
    BY <1>1
  <2>3. ASSUME NEW i \in 1 .. Len(ch) PROVE z[Len(t) + i] = ch[i]
    <3>1. Len(t) + i \in 1 .. Len(t) + Len(ch) /\ ~(Len(t) + i <= Len(t))
          /\ (Len(t) + i) - Len(t) = i
      BY <2>1
    <3> QED
      BY <1>1, <3>1
  <2> QED
    BY <2>1, <2>2, <2>3
<1> HIDE DEF z
<1>3. ASSUME NEW i \in 1 .. Len(z)
      PROVE  z[i].depth = IF i <= r - 1 THEN d ELSE d + 1
  <2>1. CASE i <= Len(t)
    <3>1. z[i] = q[i + 1] /\ i + 1 \in 1 .. Len(q)
      BY <1>1, <1>2, <2>1
    <3> QED
      BY <3>1
  <2>2. CASE ~(i <= Len(t))
    <3> DEFINE j == i - Len(t)
    <3>1. j \in 1 .. Len(ch) /\ i = Len(t) + j
      BY <1>1, <1>2, <2>2
    <3> HIDE DEF j
    <3>2. z[i].depth = d + 1
      BY <1>2, <3>1
    <3> QED
      BY <1>1, <2>2, <3>2
  <2> QED
    BY <2>1, <2>2
<1> QED
  BY <1>1, <1>2, <1>3 DEF z, t

\* The v+1-st of the items of a level opens as many as the others.
LEMMA OneMore ==
  ASSUME NEW S \in Nat \ {0}, NEW p \in Nat, NEW v \in Nat, v < 2 * p
  PROVE  /\ v * S + S = (v + 1) * S /\ v * S \in Nat /\ (v + 1) * S \in Nat
         /\ S * p \in Nat /\ (v + 1) * S <= 2 * (S * p)
         /\ v + 1 = 2 * p => (v + 1) * S = 2 * (S * p)
<1>1. \A a, b, c \in Nat : a <= b => a * c <= b * c
  <2> SUFFICES ASSUME NEW a \in Nat, NEW b \in Nat, NEW c \in Nat, a <= b
               PROVE  a * c <= b * c
    OBVIOUS
  <2> DEFINE e == b - a
  <2>1. e \in Nat /\ b = a + e
    OBVIOUS
  <2> HIDE DEF e
  <2>2. b * c = a * c + e * c /\ e * c \in Nat /\ a * c \in Nat
    BY <2>1
  <2> QED
    BY <2>2
<1>2. v + 1 \in Nat /\ 2 * p \in Nat /\ v + 1 <= 2 * p
  OBVIOUS
<1>3. (v + 1) * S <= (2 * p) * S
  <2> DEFINE a == v + 1
             b == 2 * p
  <2> HIDE DEF a, b
  <2>1. a \in Nat /\ b \in Nat /\ a <= b
    BY <1>2 DEF a, b
  <2>2. a * S <= b * S
    BY <1>1, <2>1
  <2> QED
    BY <2>2 DEF a, b
<1>4. (2 * p) * S = 2 * (S * p)
  OBVIOUS
<1>5. v * S + S = (v + 1) * S
  OBVIOUS
<1>6. v * S \in Nat /\ (v + 1) * S \in Nat /\ S * p \in Nat
  OBVIOUS
<1> QED
  BY <1>3, <1>4, <1>5, <1>6

\* The bucket at the front is one of the level not yet visited, and the queue
\* has room for what it opens.
LEMMA FrontFacts ==
  ASSUME CountInv, pc = "search", queue # <<>>,
         NEW d \in Nat, NEW v \in Nat, LevelFits(d, v)
  PROVE  /\ v < 2 * Power(d) /\ Head(queue).depth = d
         /\ Opened(d, v) \in Nat
         /\ last + (IF d < MaxPathLen - 1 THEN SlotPerBucket ELSE 0) <= 2 * Sum(MaxPathLen)
<1> DEFINE y == Head(queue)
           S == SlotPerBucket
           total == 2 * Sum(MaxPathLen)
           p == Power(d)
           sum == Sum(d + 1)
           opened == Opened(d, v)
           depths(q, r) == \A i \in 1 .. Len(q) : q[i].depth = IF i <= r THEN d ELSE d + 1
<1>2. /\ queue \in Seq(Items) /\ queue # <<>> /\ Len(queue) \in Nat \ {0}
      /\ y = queue[1] /\ y \in Items
      /\ S \in Nat \ {0} /\ MaxPathLen \in Nat \ {0} /\ last \in Nat
  BY SizeAssumption DEF CountInv, Typed, TypeOK
<1>3. /\ d \in 0 .. MaxPathLen - 1 /\ v \in 0 .. 2 * p /\ p \in Nat \ {0}
      /\ v < 2 * p \/ d = MaxPathLen - 1
      /\ last = 2 * sum + opened
      /\ Len(queue) = 2 * p - v + opened
      /\ depths(queue, 2 * p - v)
      /\ sum \in Nat /\ sum <= Sum(MaxPathLen) /\ Sum(MaxPathLen) \in Nat
  BY LevelFacts, SumFacts, SizeAssumption DEF LevelFits
<1>4. d < MaxPathLen - 1 =>
        /\ d + 1 \in 0 .. MaxPathLen - 1 /\ Power(d + 1) = S * p
        /\ Sum(d + 2) = sum + S * p /\ Sum(d + 2) <= Sum(MaxPathLen)
  BY <1>3, LevelFacts
<1>5. opened = IF d < MaxPathLen - 1 THEN v * S ELSE 0
  BY DEF Opened
<1>6. v < 2 * p /\ opened \in Nat
  <2> HIDE DEF p, opened, sum, S
  <2>1. v < 2 * p
    BY <1>2, <1>3, <1>5
  <2>2. v * S \in Nat
    BY <1>2
  <2> QED
    BY <1>5, <2>1, <2>2
<1>7. y.depth = d
  <2> HIDE DEF p, opened, y
  <2>1. 1 <= 2 * p - v /\ 1 \in 1 .. Len(queue)
    BY <1>2, <1>3, <1>6
  <2> QED
    BY <1>2, <1>3, <2>1
<1> DEFINE next == (v + 1) * S
           prod == S * p
<1>8. v * S + S = next /\ v * S \in Nat /\ next \in Nat /\ prod \in Nat /\ next <= 2 * prod
  <2> HIDE DEF p
  <2> QED
    BY <1>2, <1>3, <1>6, OneMore
<1>9. last + (IF d < MaxPathLen - 1 THEN S ELSE 0) <= total
  <2> DEFINE before == v * S
  <2>1. /\ before + S = next /\ before \in Nat
        /\ opened = IF d < MaxPathLen - 1 THEN before ELSE 0
    BY <1>5, <1>8
  <2>2. d < MaxPathLen - 1 => sum + prod <= Sum(MaxPathLen)
    BY <1>4
  <2> HIDE DEF before, next, prod, opened, p, sum
  <2>3. last = 2 * sum + opened /\ sum \in Nat /\ sum <= Sum(MaxPathLen)
        /\ Sum(MaxPathLen) \in Nat /\ S \in Nat
    BY <1>2, <1>3
  <2> QED
    BY <1>8, <2>1, <2>2, <2>3
<1> QED
  BY <1>6, <1>7, <1>9

\* A full bucket moves the search on by one item of its level.
LEMMA VisitFullCounts ==
  ASSUME CountInv, VisitFull
  PROVE  (\E d, v \in Nat : LevelFits(d, v))' /\ last' <= 2 * Sum(MaxPathLen)
<1> DEFINE y == Head(queue)
           children == Children(y, SlotPerBucket)
           S == SlotPerBucket
           total == 2 * Sum(MaxPathLen)
<1>0. pc = "search" /\ queue # <<>>
  BY DEF VisitFull
<1>1. PICK d \in Nat, v \in Nat : LevelFits(d, v)
  BY <1>0 DEF CountInv
<1> DEFINE p == Power(d)
           sum == Sum(d + 1)
           opened == Opened(d, v)
           depths(q, r) == \A i \in 1 .. Len(q) : q[i].depth = IF i <= r THEN d ELSE d + 1
<1>2. /\ queue \in Seq(Items) /\ queue # <<>> /\ Len(queue) \in Nat \ {0}
      /\ y = queue[1] /\ y \in Items
      /\ S \in Nat \ {0} /\ MaxPathLen \in Nat \ {0} /\ last \in Nat
  BY <1>0, SizeAssumption DEF CountInv, Typed, TypeOK
<1>3. /\ d \in 0 .. MaxPathLen - 1 /\ v \in 0 .. 2 * p /\ p \in Nat \ {0}
      /\ v < 2 * p \/ d = MaxPathLen - 1
      /\ last = 2 * sum + opened
      /\ Len(queue) = 2 * p - v + opened
      /\ depths(queue, 2 * p - v)
      /\ sum \in Nat /\ sum <= Sum(MaxPathLen) /\ Sum(MaxPathLen) \in Nat
  BY <1>1, LevelFacts, SumFacts, SizeAssumption DEF LevelFits
<1>4. d < MaxPathLen - 1 =>
        /\ d + 1 \in 0 .. MaxPathLen - 1 /\ Power(d + 1) = S * p
        /\ Sum(d + 2) = sum + S * p /\ Sum(d + 2) <= Sum(MaxPathLen)
  BY <1>3, LevelFacts
<1>5. opened = IF d < MaxPathLen - 1 THEN v * S ELSE 0
  BY DEF Opened
<1>6. v < 2 * p /\ opened \in Nat
  BY <1>0, <1>1, FrontFacts
<1>7. y.depth = d
  BY <1>0, <1>1, FrontFacts
<1>8. /\ children \in Seq(Items)
      /\ Len(children) = IF d < MaxPathLen - 1 THEN S ELSE 0
      /\ \A i \in 1 .. Len(children) : children[i].depth = d + 1
  <2>1. S \in 0 .. SlotPerBucket
    BY <1>2
  <2>2. /\ children \in Seq(Items)
        /\ Len(children) = IF y.depth < MaxPathLen - 1 THEN S ELSE 0
        /\ \A i \in 1 .. Len(children) :
             children[i] = Item(Packed(y, i - 1), y.depth + 1, Further(y, i - 1))
    BY <1>2, <2>1, ChildrenFacts
  <2>3. \A c, e, w : Item(c, e, w).depth = e
    BY DEF Item
  <2> HIDE DEF children, y
  <2> QED
    BY <1>7, <2>2, <2>3
<1>9. queue' = Tail(queue) \o children /\ last' = last + Len(children)
  BY DEF VisitFull
<1>10. /\ Len(queue') = (Len(queue) - 1) + Len(children)
       /\ depths(queue', 2 * p - (v + 1))
  <2> DEFINE r == 2 * p - v
  <2>1. /\ r \in Nat \ {0} /\ r <= Len(queue) /\ r - 1 = 2 * p - (v + 1)
        /\ depths(queue, r)
    <3> HIDE DEF p, opened
    <3> QED
      BY <1>2, <1>3, <1>6
  <2> HIDE DEF r, children, y, p
  <2>2. \A i \in 1 .. Len(queue) : queue[i].depth = IF i <= r THEN d ELSE d + 1
    BY <2>1
  <2>3. /\ Len(Tail(queue) \o children) = (Len(queue) - 1) + Len(children)
        /\ \A i \in 1 .. Len(Tail(queue) \o children) :
             (Tail(queue) \o children)[i].depth = IF i <= r - 1 THEN d ELSE d + 1
    <3>1. /\ queue \in Seq(Items) /\ children \in Seq(Items) /\ r \in Nat \ {0}
          /\ r <= Len(queue) /\ \A i \in 1 .. Len(children) : children[i].depth = d + 1
      BY <1>2, <1>8, <2>1
    <3> QED
      BY <2>2, <3>1, QueueMoves
  <2>4. /\ Len(queue') = (Len(queue) - 1) + Len(children)
        /\ depths(queue', r - 1)
    BY <1>9, <2>3
  <2> QED
    BY <2>1, <2>4
<1> DEFINE next == (v + 1) * S
           prod == S * p
           new == IF d < MaxPathLen - 1 THEN next ELSE 0
<1>11. /\ v * S + S = next /\ v * S \in Nat /\ next \in Nat
       /\ prod \in Nat /\ next <= 2 * prod
       /\ v + 1 = 2 * p => next = 2 * prod
  <2> HIDE DEF p
  <2> QED
    BY <1>2, <1>3, <1>6, OneMore
<1>12. /\ last' = 2 * sum + new
       /\ Len(queue') = (2 * p - (v + 1)) + new
       /\ last' <= total
  <2>0. last' <= total
    BY <1>0, <1>1, <1>8, <1>9, FrontFacts
  <2> DEFINE before == v * S
  <2>1. /\ before + S = next /\ before \in Nat
        /\ opened = IF d < MaxPathLen - 1 THEN before ELSE 0
    BY <1>5, <1>11
  <2> HIDE DEF before, next, prod, opened, p, sum, children
  <2>3. CASE d < MaxPathLen - 1
    <3>0. /\ Len(children) = S /\ opened = before /\ S \in Nat /\ v \in Nat /\ p \in Nat
          /\ sum \in Nat /\ Len(queue) = 2 * p - v + opened /\ last = 2 * sum + opened
          /\ last' = last + Len(children) /\ Len(queue') = (Len(queue) - 1) + Len(children)
      BY <1>2, <1>3, <1>8, <1>9, <1>10, <2>1, <2>3
    <3>1. last' = 2 * sum + next /\ Len(queue') = (2 * p - (v + 1)) + next
      BY <1>11, <2>1, <3>0
    <3> QED
      BY <2>0, <2>3, <3>1
  <2>4. CASE ~(d < MaxPathLen - 1)
    BY <1>2, <1>3, <1>8, <1>9, <1>10, <2>0, <2>1, <2>4
  <2> QED
    BY <2>3, <2>4
<1>13. Opened(d, v + 1) = new
  BY DEF Opened
<1>14. CASE v + 1 < 2 * p \/ d = MaxPathLen - 1
  <2>1. v + 1 \in Nat /\ v + 1 \in 0 .. 2 * p
    <3> HIDE DEF p
    <3> QED
      BY <1>3, <1>6
  <2>2. LevelFits(d, v + 1)'
    <3> HIDE DEF next
    <3>1. LevelFits(d, v + 1)' <=>
            /\ d \in 0 .. MaxPathLen - 1 /\ v + 1 \in 0 .. 2 * p
            /\ v + 1 < 2 * p \/ d = MaxPathLen - 1
            /\ last' = 2 * sum + Opened(d, v + 1)
            /\ Len(queue') = 2 * p - (v + 1) + Opened(d, v + 1)
            /\ depths(queue', 2 * p - (v + 1))
      BY DEF LevelFits, Opened, Power, Sum
    <3> HIDE DEF p, sum, depths
    <3> QED
      BY <1>3, <1>10, <1>12, <1>13, <1>14, <2>1, <3>1
  <2> QED
    BY <1>3, <1>12, <2>1, <2>2
<1>15. CASE ~(v + 1 < 2 * p \/ d = MaxPathLen - 1)
  <2>1. v + 1 = 2 * p /\ d < MaxPathLen - 1
    <3> HIDE DEF p
    <3> QED
      BY <1>2, <1>3, <1>6, <1>15
  <2>2. Power(d + 1) \in Nat \ {0}
    BY <1>4, <2>1, LevelFacts
  <2>3. last' = 2 * Sum(d + 2) /\ Len(queue') = 2 * Power(d + 1)
    <3> DEFINE s2 == Sum(d + 2)
               p2 == Power(d + 1)
    <3>1. s2 = sum + prod /\ p2 = prod
      BY <1>4, <2>1
    <3>2. last' = 2 * sum + next /\ Len(queue') = (2 * p - (v + 1)) + next
      BY <1>12, <2>1
    <3> HIDE DEF s2, p2, sum, prod, p, next
    <3>3. sum \in Nat /\ prod \in Nat /\ next = 2 * prod /\ p \in Nat /\ v \in Nat
      BY <1>3, <1>11, <2>1
    <3>4. last' = 2 * s2 /\ Len(queue') = 2 * p2
      BY <2>1, <3>1, <3>2, <3>3
    <3> QED
      BY <3>4 DEF s2, p2
  <2>4. \A i \in 1 .. Len(queue') : queue'[i].depth = d + 1
    <3> HIDE DEF p
    <3> QED
      BY <1>3, <1>10, <2>1
  <2>5. LevelFits(d + 1, 0)'
    <3> DEFINE e == d + 1
               p2 == Power(e)
    <3>1. LevelFits(e, 0)' <=>
            /\ e \in 0 .. MaxPathLen - 1 /\ 0 \in 0 .. 2 * p2
            /\ 0 < 2 * p2 \/ e = MaxPathLen - 1
            /\ last' = 2 * Sum(e + 1) + Opened(e, 0)
            /\ Len(queue') = 2 * p2 - 0 + Opened(e, 0)
            /\ \A i \in 1 .. Len(queue') : queue'[i].depth = IF i <= 2 * p2 - 0 THEN e ELSE e + 1
      BY DEF LevelFits, Opened, Power, Sum
    <3>2. Opened(e, 0) = 0
      BY <1>2 DEF Opened
    <3>3. Sum(e + 1) \in Nat /\ e + 1 = d + 2 /\ e \in 0 .. MaxPathLen - 1
      BY <1>3, <1>4, <2>1, LevelFacts
    <3>4. /\ p2 \in Nat \ {0} /\ Len(queue') = 2 * p2 /\ last' = 2 * Sum(e + 1)
          /\ \A i \in 1 .. Len(queue') : queue'[i].depth = e
      BY <2>2, <2>3, <2>4, <3>3
    <3> HIDE DEF e, p2
    <3>5. LevelFits(e, 0)'
      BY <3>1, <3>2, <3>3, <3>4
    <3> QED
      BY <3>5 DEF e
  <2>6. d + 1 \in Nat /\ 0 \in Nat
    OBVIOUS
  <2> QED
    BY <1>12, <2>5, <2>6
<1> QED
  BY <1>14, <1>15

\* An empty slot ends the search in a round before the last.
LEMMA VisitFreeCounts ==
  ASSUME CountInv, VisitFree
  PROVE  last' <= 2 * Sum(MaxPathLen)
<1> DEFINE y == Head(queue)
<1>0. /\ pc = "search" /\ queue # <<>> /\ y \in Items /\ last \in Nat
      /\ SlotPerBucket \in Nat /\ Sum(MaxPathLen) \in Nat
  BY SumFacts, SizeAssumption DEF VisitFree, CountInv, Typed, TypeOK
<1>1. PICK d \in Nat, v \in Nat : LevelFits(d, v)
  BY <1>0 DEF CountInv
<1>2. PICK n \in Slots : last' = last + Len(Children(y, n))
  BY DEF VisitFree
<1>3. /\ y.depth = d
      /\ last + (IF d < MaxPathLen - 1 THEN SlotPerBucket ELSE 0) <= 2 * Sum(MaxPathLen)
  BY <1>0, <1>1, FrontFacts
<1>4. n \in 0 .. SlotPerBucket /\ n <= SlotPerBucket
  BY <1>0 DEF Slots
<1>5. Len(Children(y, n)) = IF d < MaxPathLen - 1 THEN n ELSE 0
  <2> HIDE DEF y
  <2> QED
    BY <1>0, <1>3, <1>4, ChildrenFacts
<1> HIDE DEF y
<1> QED
  BY <1>0, <1>2, <1>3, <1>4, <1>5

\* An empty queue means that the last level has been visited.
LEMMA FailCounts ==
  ASSUME CountInv, Fail
  PROVE  last' = 2 * Sum(MaxPathLen)
<1>0. /\ pc = "search" /\ Len(queue) = 0 /\ last' = last /\ MaxPathLen \in Nat \ {0}
      /\ SlotPerBucket \in Nat \ {0}
  BY SizeAssumption DEF Fail
<1>1. PICK d \in Nat, v \in Nat : LevelFits(d, v)
  BY <1>0 DEF CountInv
<1> DEFINE p == Power(d)
           opened == Opened(d, v)
<1>2. /\ d \in 0 .. MaxPathLen - 1 /\ v \in 0 .. 2 * p /\ p \in Nat \ {0}
      /\ v < 2 * p \/ d = MaxPathLen - 1
      /\ last = 2 * Sum(d + 1) + opened /\ 0 = 2 * p - v + opened
  BY <1>0, <1>1, LevelFacts DEF LevelFits
<1>3. opened \in Nat /\ d = MaxPathLen - 1 => opened = 0
  BY <1>0 DEF Opened
<1>4. d = MaxPathLen - 1
  <2>1. opened \in Nat
    BY <1>0, <1>2 DEF Opened
  <2> HIDE DEF p, opened
  <2> QED
    BY <1>2, <2>1
<1>5. opened = 0 /\ d + 1 = MaxPathLen
  BY <1>0, <1>4 DEF Opened
<1>6. last = 2 * Sum(MaxPathLen) + 0
  BY <1>2, <1>5
<1> QED
  BY <1>0, <1>6, SumFacts, SizeAssumption

LEMMA CountStep == CountInv /\ [Next]_vars => CountInv'
<1> SUFFICES ASSUME CountInv, [Next]_vars PROVE CountInv'
  OBVIOUS
<1>1. Typed'
  BY TypedStep DEF CountInv
<1>2. Sum(MaxPathLen)' = Sum(MaxPathLen) /\ Sum(MaxPathLen) \in Nat
  BY SumFacts, SizeAssumption DEF Sum
<1>3. CASE VisitFull
  BY <1>1, <1>2, <1>3, VisitFullCounts DEF CountInv, VisitFull
<1>4. CASE VisitFree
  BY <1>1, <1>2, <1>4, VisitFreeCounts DEF CountInv, VisitFree
<1>5. CASE Fail
  BY <1>1, <1>2, <1>5, FailCounts DEF CountInv, Fail
<1>6. CASE Unpack \/ UnpackRoot
  BY <1>1, <1>2, <1>6 DEF CountInv, Unpack, UnpackRoot
<1>7. CASE Finished \/ UNCHANGED vars
  <2>1. UNCHANGED vars
    BY <1>7 DEF Finished
  <2> QED
    BY <1>1, <1>2, <2>1 DEF CountInv, LevelFits, vars, Opened, Sum, Power
<1> QED
  BY <1>3, <1>4, <1>5, <1>6, <1>7 DEF Next

THEOREM Counted == Spec => []CountInv
BY CountInit, CountStep, PTL DEF Spec

\* The queue of slot_search, whose size b_queue computes, is never overrun.
THEOREM QueueNeverOverruns == Spec => []QueueSuffices
<1>1. CountInv => QueueSuffices
  BY CountIsSum DEF CountInv, QueueSuffices
<1> QED
  BY <1>1, Counted, PTL

\* A search that gives up has followed every way of at most MaxPathLen slots.
THEOREM FailedSearchesComplete == Spec => []FailedSearchIsComplete
<1>1. CountInv => FailedSearchIsComplete
  BY CountIsSum DEF CountInv, FailedSearchIsComplete
<1> QED
  BY <1>1, Counted, PTL

-----------------------------------------------------------------------------
(* Codes and ways.                                                         *)

\* The codes of the longest paths from both roots fit their width.
CodesFit == 2 * Power(MaxPathLen) <= 2 ^ CodeBits

\* c[k] is the code of the first k slots of a way.
Encodes(c, way) ==
  /\ c \in [0 .. Len(way.slots) -> Nat]
  /\ c[0] = way.root
  /\ \A k \in 1 .. Len(way.slots) : c[k] = c[k - 1] * SlotPerBucket + way.slots[k]
  /\ \A k \in 0 .. Len(way.slots) : c[k] < 2 * Power(k)

\* The code of an item is that of its way of n slots.
HoldsWay(item, n) ==
  Len(item.way.slots) = n /\ \E c : Encodes(c, item.way) /\ c[n] = item.code

\* n slots of the way have been unpacked, from its end.
UnpackedTo(c, n) ==
  /\ Encodes(c, x.way) /\ Len(x.way.slots) = x.depth + 1
  /\ n = Len(unpacked)
  /\ x.code = c[(x.depth + 1) - n]
  /\ \A j \in 1 .. n : unpacked[j] = x.way.slots[((x.depth + 1) - j) + 1]

WayInv ==
  /\ Typed
  /\ pc = "search" => \A i \in 1 .. Len(queue) : HoldsWay(queue[i], queue[i].depth)
  /\ pc = "unpack" => \E c : UnpackedTo(c, Len(unpacked))
  /\ PathIsUnpacked

\* The longest path has the largest power.
LEMMA PowerGrows ==
  ASSUME NEW j \in 0 .. MaxPathLen
  PROVE  Power(j) <= Power(MaxPathLen)
<1> DEFINE T == {k \in j .. MaxPathLen : ~(Power(j) <= Power(k))}
<1> SUFFICES ASSUME ~(Power(j) <= Power(MaxPathLen)) PROVE FALSE
  OBVIOUS
<1>1. PICK k \in T : \A i \in T : k <= i
  <2> T \subseteq Nat /\ T # {}
    BY SizeAssumption
  <2> HIDE DEF T
  <2> QED
    BY LeastElement
<1>2. k # j
  BY PowerFacts
<1>3. k - 1 \in j .. MaxPathLen - 1 /\ k - 1 \notin T
  BY <1>1, <1>2, SizeAssumption
<1> DEFINE a == Power(k - 1)
<1>4. a \in Nat /\ Power((k - 1) + 1) = SlotPerBucket * a /\ Power(j) \in Nat /\ Power(j) <= a
  BY <1>3, PowerFacts, SizeAssumption
<1>5. a <= SlotPerBucket * a /\ SlotPerBucket * a \in Nat
  <2> HIDE DEF a
  <2>1. SlotPerBucket - 1 \in Nat /\ SlotPerBucket = (SlotPerBucket - 1) + 1
    BY SizeAssumption
  <2> DEFINE b == SlotPerBucket - 1
  <2> HIDE DEF b
  <2>2. b \in Nat /\ SlotPerBucket = b + 1
    BY <2>1 DEF b
  <2>3. (b + 1) * a = b * a + a /\ b * a \in Nat
    BY <1>4, <2>2
  <2> QED
    BY <1>4, <2>2, <2>3
<1>6. Power(k) = SlotPerBucket * a
  BY <1>3, <1>4, SizeAssumption
<1> HIDE DEF a
<1> QED
  BY <1>1, <1>4, <1>5, <1>6

\* A code that fits is not wrapped: going one slot further appends a digit.
LEMMA PackStep ==
  ASSUME CodesFit, NEW y \in Items, NEW i \in Slots, HoldsWay(y, y.depth)
  PROVE  /\ Len(Further(y, i).slots) = y.depth + 1
         /\ \E c : Encodes(c, Further(y, i)) /\ c[y.depth + 1] = Packed(y, i)
<1> DEFINE n == y.depth
           s == ScannedSlot(y, i)
           S == SlotPerBucket
           new == Packed(y, i)
<1>1. PICK c : Encodes(c, y.way) /\ c[n] = y.code
  BY DEF HoldsWay
<1>2. /\ n \in 0 .. MaxPathLen - 1 /\ y.way.slots \in Seq(Slots) /\ Len(y.way.slots) = n
      /\ s \in Slots /\ s \in 0 .. S - 1 /\ S \in Nat \ {0} /\ MaxPathLen \in Nat
      /\ Further(y, i).root = y.way.root /\ Further(y, i).slots = Append(y.way.slots, s)
  BY ScanFacts, SizeAssumption DEF HoldsWay, Items, Ways, Slots
<1>3. /\ c \in [0 .. n -> Nat] /\ c[0] = y.way.root
      /\ \A k \in 1 .. n : c[k] = c[k - 1] * S + y.way.slots[k]
      /\ \A k \in 0 .. n : c[k] < 2 * Power(k)
      /\ y.code \in Nat /\ y.code < 2 * Power(n)
  BY <1>1, <1>2 DEF Encodes
<1>4. /\ Power(n) \in Nat /\ Power(n + 1) = S * Power(n) /\ Power(n + 1) <= Power(MaxPathLen)
      /\ Power(MaxPathLen) \in Nat /\ Power(n + 1) \in Nat
  <2> DEFINE m == n + 1
  <2>1. m \in 0 .. MaxPathLen /\ n \in 0 .. MaxPathLen /\ MaxPathLen \in 0 .. MaxPathLen
    BY <1>2
  <2>2. Power(n) \in Nat /\ Power(n + 1) = S * Power(n) /\ Power(MaxPathLen) \in Nat
    BY <1>2, <2>1, PowerFacts
  <2> HIDE DEF m
  <2>3. Power(m) \in Nat /\ Power(m) <= Power(MaxPathLen)
    BY <2>1, PowerFacts, PowerGrows
  <2> QED
    BY <2>2, <2>3 DEF m
<1>5. new = y.code * S + s /\ new \in Nat /\ new < 2 * Power(n + 1)
  <2> DEFINE v == y.code
             p == Power(n)
             top == Power(n + 1)
             m == 2 ^ CodeBits
             r == v * S + s
  <2> HIDE DEF n, s, p, top, v
  <2>1. v \in Nat /\ p \in Nat /\ v < 2 * p /\ s \in Nat /\ s < S /\ S \in Nat \ {0} /\ top = S * p
    BY <1>2, <1>3, <1>4 DEF v, p, top
  <2>2. v * S + S = (v + 1) * S /\ v * S \in Nat /\ (v + 1) * S <= 2 * (S * p)
    BY <2>1, OneMore
  <2>3. r \in Nat /\ r < 2 * top
    <3> DEFINE vs == v * S
               next == (v + 1) * S
               sp == S * p
    <3>1. vs + S = next /\ vs \in Nat /\ next <= 2 * sp /\ top = sp
      BY <2>1, <2>2
    <3>2. sp \in Nat
      BY <2>1
    <3> HIDE DEF vs, next, sp
    <3>3. vs + s \in Nat /\ vs + s < 2 * top
      BY <2>1, <3>1, <3>2
    <3> QED
      BY <3>3 DEF vs
  <2>4. m \in Nat \ {0} /\ 2 * top <= m /\ top \in Nat
    <3>1. m \in Nat \ {0}
      BY CodeFacts
    <3>2. 2 * Power(MaxPathLen) <= m
      BY DEF CodesFit
    <3> HIDE DEF m
    <3> QED
      BY <1>4, <3>1, <3>2 DEF top
  <2>5. new = r % m
    BY DEF Packed, v, s
  <2> HIDE DEF r, m, new
  <2>6. r \in 0 .. m - 1
    BY <2>3, <2>4
  <2>7. (0 * m + r) % m = r
    BY <2>4, <2>6, DigitFacts
  <2>8. 0 * m + r = r
    BY <2>3, <2>4
  <2>9. new = r
    BY <2>5, <2>7, <2>8
  <2> QED
    BY <2>3, <2>9 DEF r, v, s, top
<1> HIDE DEF new, s
<1> DEFINE c2 == [k \in 0 .. n + 1 |-> IF k = n + 1 THEN new ELSE c[k]]
           slots == Append(y.way.slots, s)
<1>6. /\ Len(slots) = n + 1 /\ slots[n + 1] = s
      /\ \A k \in 1 .. n : slots[k] = y.way.slots[k]
  BY <1>2
<1>7. /\ c2 \in [0 .. n + 1 -> Nat] /\ c2[n + 1] = new
      /\ \A k \in 0 .. n : c2[k] = c[k]
  <2> HIDE DEF n
  <2>1. n \in Nat /\ new \in Nat /\ c \in [0 .. n -> Nat]
    BY <1>2, <1>3, <1>5
  <2>2. \A k \in 0 .. n + 1 : k # n + 1 => k \in 0 .. n
    BY <2>1
  <2>3. c2 \in [0 .. n + 1 -> Nat]
    BY <2>1, <2>2
  <2>4. n + 1 \in 0 .. n + 1 /\ \A k \in 0 .. n : k \in 0 .. n + 1 /\ k # n + 1
    BY <2>1
  <2> QED
    BY <2>3, <2>4
<1> HIDE DEF n, c2, slots
<1>8. \A k \in 1 .. n + 1 : c2[k] = c2[k - 1] * S + slots[k]
  <2> SUFFICES ASSUME NEW k \in 1 .. n + 1 PROVE c2[k] = c2[k - 1] * S + slots[k]
    OBVIOUS
  <2>1. CASE k = n + 1
    <3>1. k - 1 = n /\ n \in 0 .. n
      BY <1>2, <2>1
    <3>2. c2[k - 1] = y.code
      BY <1>1, <1>7, <3>1
    <3> QED
      BY <1>5, <1>6, <1>7, <2>1, <3>2
  <2>2. CASE k # n + 1
    <3>1. k \in 1 .. n /\ k \in 0 .. n /\ k - 1 \in 0 .. n
      BY <1>2, <2>2
    <3> QED
      BY <1>3, <1>6, <1>7, <3>1
  <2> QED
    BY <2>1, <2>2
<1>9. \A k \in 0 .. n + 1 : c2[k] < 2 * Power(k)
  <2> SUFFICES ASSUME NEW k \in 0 .. n + 1 PROVE c2[k] < 2 * Power(k)
    OBVIOUS
  <2>1. CASE k = n + 1
    BY <1>5, <1>7, <2>1
  <2>2. CASE k # n + 1
    <3>1. k \in 0 .. n
      BY <1>2, <2>2
    <3> QED
      BY <1>3, <1>7, <3>1
  <2> QED
    BY <2>1, <2>2
<1>10. c2[0] = y.way.root
  <2>1. 0 \in 0 .. n
    BY <1>2
  <2> QED
    BY <1>3, <1>7, <2>1
<1>11. Further(y, i).slots = slots /\ Further(y, i).root = y.way.root
  BY <1>2 DEF slots
<1>12. Encodes(c2, Further(y, i)) /\ c2[n + 1] = new
  BY <1>6, <1>7, <1>8, <1>9, <1>10, <1>11 DEF Encodes
<1> QED
  BY <1>6, <1>11, <1>12 DEF n, new

LEMMA WayInit == CodesFit /\ Init => WayInv
<1> SUFFICES ASSUME CodesFit, Init PROVE WayInv
  OBVIOUS
<1>1. Power(0) = 1
  BY PowerFacts
<1>2. ASSUME NEW r \in Roots PROVE HoldsWay(Item(r, 0, Way(r, <<>>)), 0)
  <2> DEFINE c == [k \in 0 .. 0 |-> r]
             w == Way(r, <<>>)
  <2>1. r \in Nat /\ r < 2 * 1
    BY DEF Roots
  <2>2. w.slots = <<>> /\ w.root = r /\ Len(<<>>) = 0
    BY DEF Way
  <2>3. /\ c \in [0 .. 0 -> Nat] /\ c[0] = r
    BY <2>1
  <2>4. \A k \in 0 .. 0 : c[k] < 2 * Power(k)
    BY <1>1, <2>1, <2>3
  <2> HIDE DEF c, w
  <2>5. Encodes(c, w)
    BY <2>2, <2>3, <2>4 DEF Encodes
  <2>6. Item(r, 0, w).way = w /\ Item(r, 0, w).code = r
    BY DEF Item
  <2> QED
    BY <2>2, <2>3, <2>5, <2>6 DEF HoldsWay, w
<1>3. \A i \in 1 .. Len(queue) : HoldsWay(queue[i], queue[i].depth)
  <2>1. Len(queue) = 2 /\ queue[1] = Item(0, 0, Way(0, <<>>)) /\ queue[2] = Item(1, 0, Way(1, <<>>))
    BY DEF Init
  <2>2. HoldsWay(queue[1], 0) /\ HoldsWay(queue[2], 0) /\ queue[1].depth = 0 /\ queue[2].depth = 0
    BY <1>2, <2>1 DEF Roots, Item
  <2>3. \A i \in 1 .. 2 : i = 1 \/ i = 2
    OBVIOUS
  <2> QED
    BY <2>1, <2>2, <2>3
<1> QED
  BY <1>3, TypedInit DEF Init, WayInv, PathIsUnpacked

\* Every item enqueued holds its way.
LEMMA ChildHoldsWay ==
  ASSUME CodesFit, NEW y \in Items, NEW i \in Slots, HoldsWay(y, y.depth)
  PROVE  HoldsWay(Item(Packed(y, i), y.depth + 1, Further(y, i)), y.depth + 1)
<1>1. /\ Item(Packed(y, i), y.depth + 1, Further(y, i)).way = Further(y, i)
      /\ Item(Packed(y, i), y.depth + 1, Further(y, i)).code = Packed(y, i)
  BY DEF Item
<1> QED
  BY <1>1, PackStep DEF HoldsWay

LEMMA VisitFullWays ==
  ASSUME CodesFit, WayInv, VisitFull
  PROVE  \A i \in 1 .. Len(queue') : HoldsWay(queue'[i], queue'[i].depth)
<1> DEFINE y == Head(queue)
           ch == Children(y, SlotPerBucket)
           t == Tail(queue)
<1>1. /\ queue \in Seq(Items) /\ queue # <<>> /\ SlotPerBucket \in Nat \ {0}
      /\ \A i \in 1 .. Len(queue) : HoldsWay(queue[i], queue[i].depth)
      /\ queue' = t \o ch
  BY SizeAssumption DEF VisitFull, WayInv, Typed, TypeOK
<1>2. /\ y \in Items /\ HoldsWay(y, y.depth)
      /\ t \in Seq(Items) /\ \A i \in 1 .. Len(t) : HoldsWay(t[i], t[i].depth)
  <2>1. y = queue[1] /\ 1 \in 1 .. Len(queue) /\ y \in Items
    BY <1>1
  <2>2. t \in Seq(Items) /\ Len(t) = Len(queue) - 1 /\ Len(queue) \in Nat \ {0}
        /\ \A i \in 1 .. Len(queue) - 1 : t[i] = queue[i + 1]
    BY <1>1
  <2> HIDE DEF y, t
  <2>3. \A i \in 1 .. Len(t) : t[i] = queue[i + 1] /\ i + 1 \in 1 .. Len(queue)
    BY <2>2
  <2> QED
    BY <1>1, <2>1, <2>2, <2>3
<1>3. /\ ch \in Seq(Items)
      /\ \A i \in 1 .. Len(ch) :
           /\ ch[i] = Item(Packed(y, i - 1), y.depth + 1, Further(y, i - 1))
           /\ i - 1 \in Slots
  <2>1. SlotPerBucket \in 0 .. SlotPerBucket
    BY <1>1
  <2> QED
    BY <1>2, <2>1, ChildrenFacts
<1>4. ASSUME NEW i \in 1 .. Len(ch) PROVE HoldsWay(ch[i], ch[i].depth)
  <2> DEFINE j == i - 1
  <2>1. ch[i] = Item(Packed(y, j), y.depth + 1, Further(y, j)) /\ j \in Slots
    BY <1>3
  <2> HIDE DEF j, y, ch
  <2>2. HoldsWay(Item(Packed(y, j), y.depth + 1, Further(y, j)), y.depth + 1)
    BY <1>2, <2>1, ChildHoldsWay
  <2>3. ch[i].depth = y.depth + 1
    BY <2>1 DEF Item
  <2> QED
    BY <2>1, <2>2, <2>3
<1> HIDE DEF y, ch, t
<1>5. SUFFICES ASSUME NEW i \in 1 .. Len(t \o ch)
               PROVE  HoldsWay((t \o ch)[i], (t \o ch)[i].depth)
  BY <1>1
<1>6. Len(t) \in Nat /\ Len(ch) \in Nat
  BY <1>2, <1>3
<1>7. Len(t \o ch) = Len(t) + Len(ch)
  <2>1. \A a, b \in Seq(Items) : Len(a \o b) = Len(a) + Len(b)
    OBVIOUS
  <2> QED
    BY <1>2, <1>3, <2>1
<1>8. CASE i <= Len(t)
  <2>1. (t \o ch)[i] = t[i] /\ i \in 1 .. Len(t)
    BY <1>2, <1>3, <1>6, <1>7, <1>8
  <2> QED
    BY <1>2, <2>1
<1>9. CASE ~(i <= Len(t))
  <2>1. (t \o ch)[i] = ch[i - Len(t)] /\ i - Len(t) \in 1 .. Len(ch)
    BY <1>2, <1>3, <1>6, <1>7, <1>9
  <2> QED
    BY <1>4, <2>1
<1> QED
  BY <1>8, <1>9

\* The item returned holds the whole path, one slot more than its depth.
LEMMA VisitFreeWays ==
  ASSUME CodesFit, WayInv, VisitFree
  PROVE  (\E c : UnpackedTo(c, Len(unpacked)))'
<1> DEFINE y == Head(queue)
<1>1. y \in Items /\ HoldsWay(y, y.depth) /\ unpacked = <<>> /\ unpacked' = unpacked
  <2>1. /\ queue \in Seq(Items) /\ queue # <<>> /\ unpacked = <<>> /\ unpacked' = unpacked
        /\ \A i \in 1 .. Len(queue) : HoldsWay(queue[i], queue[i].depth)
    BY DEF VisitFree, WayInv, Typed, TypeOK
  <2>2. y = queue[1] /\ 1 \in 1 .. Len(queue) /\ y \in Items
    BY <2>1
  <2> QED
    BY <2>1, <2>2
<1>2. PICK n \in Slots : x' = Item(Packed(y, n), y.depth, Further(y, n))
  BY DEF VisitFree
<1> HIDE DEF y
<1>3. /\ x'.code = Packed(y, n) /\ x'.depth = y.depth /\ x'.way = Further(y, n)
  BY <1>2 DEF Item
<1>4. Len(Further(y, n).slots) = y.depth + 1
  BY <1>1, PackStep
<1>5. PICK c : Encodes(c, Further(y, n)) /\ c[y.depth + 1] = Packed(y, n)
  BY <1>1, PackStep
<1>6. Len(unpacked') = 0 /\ y.depth \in Nat
  BY <1>1, SizeAssumption DEF Items
<1>7. Encodes(c, x.way)' <=> Encodes(c, x'.way)
  BY DEF Encodes, Power
<1>8. (y.depth + 1) - 0 = y.depth + 1
  BY <1>6
<1>9. UnpackedTo(c, Len(unpacked))' <=>
        /\ Encodes(c, x'.way) /\ Len(x'.way.slots) = x'.depth + 1
        /\ x'.code = c[(x'.depth + 1) - Len(unpacked')]
        /\ \A j \in 1 .. Len(unpacked') : unpacked'[j] = x'.way.slots[((x'.depth + 1) - j) + 1]
  BY DEF UnpackedTo, Encodes, Power
<1>10. UnpackedTo(c, Len(unpacked))'
  BY <1>3, <1>4, <1>5, <1>6, <1>8, <1>9
<1> QED
  BY <1>10

\* One round takes the last digit of the code, the last slot of the way.
LEMMA UnpackWays ==
  ASSUME WayInv, Unpack
  PROVE  (\E c : UnpackedTo(c, Len(unpacked)))'
<1> DEFINE S == SlotPerBucket
           len == x.depth + 1
           n == Len(unpacked)
           k == len - n
           slots == x.way.slots
<1>1. PICK c : UnpackedTo(c, n)
  BY DEF WayInv, Unpack
<1>2. /\ x \in Items /\ unpacked \in Seq(Slots) /\ n \in Nat /\ x.depth \in Nat /\ n <= x.depth
      /\ S \in Nat \ {0} /\ slots \in Seq(Slots) /\ Len(slots) = len
  BY <1>1, SizeAssumption DEF WayInv, Typed, TypeOK, Unpack, Items, Ways, UnpackedTo
<1>3. k \in 1 .. len /\ k - 1 \in 0 .. len /\ k \in 0 .. len /\ k - 1 = len - (n + 1)
      /\ k = (len - (n + 1)) + 1
  BY <1>2
<1>4. /\ x.code = c[k] /\ c \in [0 .. len -> Nat] /\ c[k] = c[k - 1] * S + slots[k]
      /\ \A j \in 1 .. n : unpacked[j] = slots[(len - j) + 1]
  <2> HIDE DEF k
  <2>1. \A j \in 1 .. len : c[j] = c[j - 1] * S + slots[j]
    BY <1>1, <1>2 DEF UnpackedTo, Encodes
  <2>2. x.code = c[k]
    BY <1>1 DEF UnpackedTo, k
  <2>3. c \in [0 .. len -> Nat]
    BY <1>1, <1>2 DEF UnpackedTo, Encodes
  <2>4. \A j \in 1 .. n : unpacked[j] = slots[(len - j) + 1]
    BY <1>1 DEF UnpackedTo
  <2> QED
    BY <1>3, <2>1, <2>2, <2>3, <2>4
<1>5. slots[k] \in 0 .. S - 1
  <2> HIDE DEF k, len, slots
  <2>1. slots[k] \in Slots
    BY <1>2, <1>3
  <2> QED
    BY <2>1 DEF Slots
<1>6. x.code % S = slots[k] /\ x.code \div S = c[k - 1]
  <2> DEFINE a == c[k - 1]
             d == slots[k]
  <2>1. a \in Nat /\ d \in 0 .. S - 1 /\ x.code = a * S + d
    BY <1>3, <1>4, <1>5
  <2> HIDE DEF a, d
  <2>2. (a * S + d) % S = d /\ (a * S + d) \div S = a
    BY <1>2, <2>1, DigitFacts
  <2> QED
    BY <2>1, <2>2 DEF a, d
<1>7. /\ unpacked' = Append(unpacked, slots[k])
      /\ x' = [x EXCEPT !.code = c[k - 1]]
  BY <1>6 DEF Unpack
<1>8. x'.code = c[k - 1] /\ x'.depth = x.depth /\ x'.way = x.way
  BY <1>2, <1>7 DEF Items
<1> HIDE DEF k
<1>9. /\ Len(unpacked') = n + 1 /\ unpacked'[n + 1] = slots[k]
      /\ \A j \in 1 .. n : unpacked'[j] = unpacked[j]
  <2> HIDE DEF slots
  <2> QED
    BY <1>2, <1>7
<1>10. \A j \in 1 .. n + 1 : unpacked'[j] = slots[(len - j) + 1]
  <2> HIDE DEF slots, len, n
  <2>1. \A j \in 1 .. n + 1 : j \in 1 .. n \/ j = n + 1
    BY <1>2
  <2> QED
    BY <1>3, <1>4, <1>9, <2>1
<1>11. UnpackedTo(c, Len(unpacked))' <=>
        /\ Encodes(c, x'.way) /\ Len(x'.way.slots) = x'.depth + 1
        /\ x'.code = c[(x'.depth + 1) - Len(unpacked')]
        /\ \A j \in 1 .. Len(unpacked') : unpacked'[j] = x'.way.slots[((x'.depth + 1) - j) + 1]
  BY DEF UnpackedTo, Encodes, Power
<1>12. Encodes(c, x.way)
  BY <1>1 DEF UnpackedTo
<1>13. UnpackedTo(c, Len(unpacked))'
  <2>1. (x'.depth + 1) - Len(unpacked') = k - 1
    BY <1>3, <1>8, <1>9
  <2>2. x'.code = c[(x'.depth + 1) - Len(unpacked')]
    BY <1>8, <2>1
  <2>3. \A j \in 1 .. Len(unpacked') : unpacked'[j] = x'.way.slots[((x'.depth + 1) - j) + 1]
    BY <1>8, <1>9, <1>10
  <2> QED
    BY <1>2, <1>8, <1>11, <1>12, <2>2, <2>3
<1> QED
  BY <1>13

\* When every digit has been taken, the starting bucket is left.
LEMMA AllUnpacked ==
  ASSUME WayInv, UnpackRoot
  PROVE  x.code = x.way.root /\ Reverse(unpacked) = x.way.slots
<1> DEFINE len == x.depth + 1
           n == Len(unpacked)
           slots == x.way.slots
<1>1. PICK c : UnpackedTo(c, n)
  BY DEF WayInv, UnpackRoot
<1>2. /\ x \in Items /\ unpacked \in Seq(Slots) /\ x.depth \in Nat
      /\ n = len /\ slots \in Seq(Slots) /\ Len(slots) = len
  <2>1. /\ x \in Items /\ unpacked \in Seq(Slots) /\ n \in Nat /\ n <= len /\ n > x.depth
    BY DEF WayInv, Typed, TypeOK, UnpackRoot
  <2>2. x.depth \in Nat /\ slots \in Seq(Slots)
    BY <2>1, SizeAssumption DEF Items, Ways
  <2>3. Len(slots) = len
    BY <1>1 DEF UnpackedTo
  <2> HIDE DEF n, slots
  <2>4. n = len
    BY <2>1, <2>2
  <2> QED
    BY <2>1, <2>2, <2>3, <2>4
<1>3. x.code = x.way.root
  <2>1. len - n = 0
    BY <1>2
  <2>2. x.code = c[len - n] /\ c[0] = x.way.root
    BY <1>1 DEF UnpackedTo, Encodes
  <2> QED
    BY <2>1, <2>2
<1>4. \A j \in 1 .. n : unpacked[j] = slots[(len - j) + 1]
  BY <1>1 DEF UnpackedTo
<1>5. Reverse(unpacked) = [i \in 1 .. n |-> unpacked[(n - i) + 1]]
  BY DEF Reverse
<1> HIDE DEF slots, len, n
<1>6. n \in Nat
  BY <1>2 DEF n
<1>7. \A i \in 1 .. n : unpacked[(n - i) + 1] = slots[i]
  <2> SUFFICES ASSUME NEW i \in 1 .. n PROVE unpacked[(n - i) + 1] = slots[i]
    OBVIOUS
  <2> DEFINE j == (n - i) + 1
  <2>1. j \in 1 .. n /\ (len - j) + 1 = i
    BY <1>2, <1>6
  <2> HIDE DEF j
  <2>2. unpacked[j] = slots[i]
    BY <1>4, <2>1
  <2> QED
    BY <2>2 DEF j
<1>8. slots = [i \in 1 .. n |-> slots[i]]
  BY <1>2
<1>9. Reverse(unpacked) = slots
  BY <1>5, <1>7, <1>8
<1> QED
  BY <1>3, <1>9 DEF slots

LEMMA WayStep == CodesFit /\ WayInv /\ [Next]_vars => WayInv'
<1> SUFFICES ASSUME CodesFit, WayInv, [Next]_vars PROVE WayInv'
  OBVIOUS
<1>1. Typed'
  BY TypedStep DEF WayInv
<1>2. CASE VisitFull
  <2>1. \A i \in 1 .. Len(queue') : HoldsWay(queue'[i], queue'[i].depth)
    BY <1>2, VisitFullWays
  <2> QED
    BY <1>1, <1>2, <2>1 DEF WayInv, VisitFull, PathIsUnpacked, HoldsWay, Encodes, Power
<1>3. CASE VisitFree
  BY <1>1, <1>3, VisitFreeWays DEF WayInv, VisitFree, PathIsUnpacked
<1>4. CASE Fail
  BY <1>1, <1>4 DEF WayInv, Fail, PathIsUnpacked
<1>5. CASE Unpack
  BY <1>1, <1>5, UnpackWays DEF WayInv, Unpack, PathIsUnpacked
<1>6. CASE UnpackRoot
  BY <1>1, <1>6, AllUnpacked DEF WayInv, UnpackRoot, PathIsUnpacked
<1>7. CASE Finished \/ UNCHANGED vars
  <2>1. UNCHANGED vars
    BY <1>7 DEF Finished
  <2> QED
    BY <1>1, <2>1 DEF WayInv, vars, PathIsUnpacked, UnpackedTo, HoldsWay, Encodes, Power
<1> QED
  BY <1>2, <1>3, <1>4, <1>5, <1>6, <1>7 DEF Next

\* When the codes of the longest paths fit their width, cuckoopath_search
\* follows the way that slot_search found: the starting bucket and every slot.
THEOREM PathsUnpacked ==
  ASSUME CodesFit
  PROVE  Spec => []PathIsUnpacked
<1>1. Init => WayInv
  BY WayInit
<1>2. WayInv /\ [Next]_vars => WayInv'
  BY WayStep
<1>3. WayInv => PathIsUnpacked
  BY DEF WayInv
<1> QED
  BY <1>1, <1>2, <1>3, PTL DEF Spec
=============================================================================
