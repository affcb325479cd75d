---------------------------- MODULE CuckooFacts ----------------------------
(***************************************************************************)
(* Facts about the operators of CuckooTable.tla: the bits of alt_index,    *)
(* which make it its own inverse and let a bucket split in two when the    *)
(* table doubles, and move_bucket, which neither loses nor copies an       *)
(* element.  CuckooTableProofs.tla uses them.                              *)
(***************************************************************************)
EXTENDS CuckooTable, NumberFacts, FiniteSetTheorems

-----------------------------------------------------------------------------
(* Powers.                                                                 *)

LEMMA Sizes ==
  /\ Size(0) = 1
  /\ \A p \in 0 .. MaxHp : /\ Size(p) \in Nat \ {0} /\ Size(p + 1) = 2 * Size(p)
                           /\ Size(p) <= Size(MaxHp)
<1>1. Doubling(MaxHp) /\ MaxHp \in Nat /\ MaxHp \in 0 .. MaxHp
  BY ExponentAssumption, SizeAssumption DEF Doubling
<1>2. \A p \in 0 .. MaxHp : Size(p) \in Nat \ {0} /\ Size(p + 1) = 2 * Size(p)
  BY <1>1, PowersPositive, ExponentAssumption DEF Size
<1>3. \A p \in 0 .. MaxHp : p < MaxHp => 2 * Size(p) <= Size(MaxHp)
  BY <1>1, PowersGrow DEF Size
<1>4. ASSUME NEW p \in 0 .. MaxHp PROVE Size(p) <= Size(MaxHp)
  <2> DEFINE a == Size(p)
             b == Size(MaxHp)
  <2>1. a \in Nat /\ b \in Nat /\ (p = MaxHp => a = b) /\ (p < MaxHp => 2 * a <= b)
    BY <1>1, <1>2, <1>3
  <2> HIDE DEF a, b
  <2>2. a <= b
    BY <1>1, <2>1
  <2> QED
    BY <2>2 DEF a, b
<1> QED
  BY <1>2, <1>4, ExponentAssumption DEF Size

\* A larger power of two is a multiple of the double of a smaller one.
LEMMA PowersDivide ==
  ASSUME NEW n \in 0 .. MaxHp, NEW p \in 0 .. MaxHp, n < p
  PROVE  \E g \in Nat \ {0} : Size(p) = g * (2 * Size(n))
<1> DEFINE T == {r \in n + 1 .. MaxHp : ~\E g \in Nat \ {0} : Size(r) = g * (2 * Size(n))}
<1> SUFFICES ASSUME p \in T PROVE FALSE
  BY SizeAssumption
<1>1. PICK r \in T : \A q \in T : r <= q
  <2> T \subseteq Nat /\ T # {}
    BY SizeAssumption
  <2> HIDE DEF T
  <2> QED
    BY LeastElement
<1>2. CASE r = n + 1
  <2> DEFINE m == Size(n)
  <2>1. m \in Nat /\ Size(r) = 2 * m
    BY <1>2, Sizes
  <2> HIDE DEF m
  <2>2. Size(r) = 1 * (2 * m) /\ 1 \in Nat \ {0}
    BY <2>1
  <2> QED
    BY <1>1, <2>2 DEF m
<1>3. CASE r # n + 1
  <2> DEFINE q == r - 1
             m == Size(n)
  <2>1. q \in n + 1 .. MaxHp /\ q < r /\ q \in 0 .. MaxHp /\ q + 1 = r
    BY <1>3, SizeAssumption
  <2>2. q \notin T
    <3> HIDE DEF q, T
    <3> QED
      BY <1>1, <2>1, SizeAssumption
  <2>3. PICK g \in Nat \ {0} : Size(q) = g * (2 * m)
    BY <2>1, <2>2
  <2>4. Size(r) = 2 * Size(q) /\ m \in Nat
    BY <2>1, Sizes
  <2> HIDE DEF m, q
  <2>5. 2 * (g * (2 * m)) = (2 * g) * (2 * m) /\ 2 * g \in Nat \ {0}
    BY <2>3, <2>4
  <2>6. Size(r) = (2 * g) * (2 * m)
    BY <2>3, <2>4, <2>5
  <2> QED
    BY <1>1, <2>5, <2>6 DEF m
<1> QED
  BY <1>2, <1>3

-----------------------------------------------------------------------------
(* Bits.                                                                   *)

LEMMA BitType ==
  ASSUME NEW x \in Nat, NEW n \in 0 .. MaxHp
  PROVE  Bit(x, n) \in {0, 1}
<1> DEFINE q == x \div Size(n)
<1>1. q \in Nat
  BY Sizes, Quotients
<1> HIDE DEF q
<1>2. q % 2 \in {0, 1}
  BY <1>1
<1> QED
  BY <1>2 DEF q, Bit, Size

\* The remainder by 2^p has the same lower bits.
LEMMA BitOfRemainder ==
  ASSUME NEW x \in Nat, NEW p \in 0 .. MaxHp, NEW n \in 0 .. p - 1
  PROVE  Bit(x % Size(p), n) = Bit(x, n)
<1> DEFINE m == Size(n)
           e == Size(p)
           q == x \div e
           r == x % e
           u == r \div m
           w == r % m
<1>1. n \in 0 .. MaxHp /\ n < p
  BY SizeAssumption
<1>2. m \in Nat \ {0} /\ e \in Nat \ {0}
  BY <1>1, Sizes
<1>3. q \in Nat /\ r \in Nat /\ x = q * e + r
  <2>1. e \in Nat \ {0}
    BY <1>2
  <2> HIDE DEF e
  <2>2. q \in Nat /\ r \in 0 .. e - 1 /\ x = q * e + r
    BY <2>1, Quotients
  <2> QED
    BY <2>1, <2>2
<1>4. u \in Nat /\ w \in 0 .. m - 1 /\ r = u * m + w
  <2> HIDE DEF r, m
  <2> QED
    BY <1>2, <1>3, Quotients
<1>5. PICK g \in Nat \ {0} : e = g * (2 * m)
  BY <1>1, PowersDivide
<1> HIDE DEF m, e, q, r, u, w
<1> DEFINE k == q * g
           a == 2 * k + u
<1>6. k \in Nat /\ a \in Nat
  BY <1>3, <1>4, <1>5
<1>7. x = a * m + w
  <2>1. q * (g * (2 * m)) = (2 * k) * m
    BY <1>2, <1>3, <1>5
  <2>2. (2 * k) * m + u * m = a * m
    <3> HIDE DEF k
    <3> QED
      BY <1>2, <1>4, <1>6
  <2>3. x = (q * (g * (2 * m)) + u * m) + w
    <3>1. q * e = q * (g * (2 * m))
      BY <1>5
    <3>2. q * e \in Nat /\ u * m \in Nat /\ w \in Nat
      BY <1>2, <1>3, <1>4
    <3> DEFINE qe == q * e
               um == u * m
               other == q * (g * (2 * m))
    <3>3. x = qe + (um + w) /\ qe = other /\ qe \in Nat /\ um \in Nat
      BY <1>3, <1>4, <3>1, <3>2
    <3> HIDE DEF qe, um, other
    <3>4. x = (other + um) + w
      BY <3>2, <3>3
    <3> QED
      BY <3>4 DEF other, um
  <2> QED
    BY <2>1, <2>2, <2>3
<1>8. x \div m = a
  <2> HIDE DEF a
  <2> QED
    BY <1>2, <1>4, <1>6, <1>7, QuotientIs
<1>9. a % 2 = u % 2
  <2> HIDE DEF k
  <2> QED
    BY <1>4, <1>6
<1> QED
  BY <1>8, <1>9 DEF Bit, r, u, m, e, Size

\* A number is determined by its bits.
LEMMA BitsDetermine ==
  ASSUME NEW p \in 0 .. MaxHp, NEW x \in 0 .. Size(p) - 1, NEW y \in 0 .. Size(p) - 1,
         \A n \in 0 .. p - 1 : Bit(x, n) = Bit(y, n)
  PROVE  x = y
<1> DEFINE Same(q) == \A a, b \in 0 .. Size(q) - 1 :
                        (\A n \in 0 .. q - 1 : Bit(a, n) = Bit(b, n)) => a = b
           T == {q \in 0 .. MaxHp : ~Same(q)}
<1> SUFFICES ASSUME p \in T PROVE FALSE
  OBVIOUS
<1>1. PICK q \in T : \A r \in T : q <= r
  <2> T \subseteq Nat /\ T # {}
    OBVIOUS
  <2> HIDE DEF T
  <2> QED
    BY LeastElement
<1>2. q # 0
  <2>1. \A a \in 0 .. Size(0) - 1 : a = 0
    BY Sizes
  <2> QED
    BY <1>1, <2>1
<1> DEFINE o == q - 1
           e == Size(o)
<1>3. o \in 0 .. MaxHp /\ o < q /\ o + 1 = q /\ q \in 0 .. MaxHp /\ o \in 0 .. q - 1
      /\ \A n \in 0 .. o - 1 : n \in 0 .. q - 1
  BY <1>1, <1>2, SizeAssumption
<1>4. Same(o)
  <2> HIDE DEF o, Same
  <2> QED
    BY <1>1, <1>3
<1>5. e \in Nat \ {0} /\ Size(q) = 2 * e
  BY <1>3, Sizes
<1>6. ASSUME NEW a \in 0 .. Size(q) - 1
      PROVE  /\ a % e \in 0 .. e - 1 /\ a = Bit(a, o) * e + (a % e)
             /\ \A n \in 0 .. o - 1 : Bit(a % e, n) = Bit(a, n)
  <2> DEFINE d == a \div e
             r == a % e
  <2> HIDE DEF e, o
  <2>0. a \in Nat /\ a < 2 * e
    BY <1>5
  <2>1. d \in Nat /\ r \in 0 .. e - 1 /\ a = d * e + r
    BY <1>5, <2>0, Quotients
  <2> HIDE DEF d, r
  <2>2. d < 2
    <3> SUFFICES ASSUME d >= 2 PROVE FALSE
      BY <2>1
    <3> DEFINE f == d - 2
    <3>1. f \in Nat /\ d = f + 2
      BY <2>1
    <3> HIDE DEF f
    <3>2. d * e = f * e + 2 * e /\ f * e \in Nat
      BY <1>5, <3>1
    <3> QED
      BY <1>5, <2>0, <2>1, <3>2
  <2>3. d % 2 = d
    <3>1. d = 0 \/ d = 1
      BY <2>1, <2>2
    <3> QED
      BY <3>1
  <2>4. Bit(a, o) = d
    BY <2>3 DEF Bit, d, e, Size
  <2>5. \A n \in 0 .. o - 1 : Bit(a % e, n) = Bit(a, n)
    BY <1>3, <2>0, BitOfRemainder DEF e
  <2> QED
    BY <2>1, <2>4, <2>5 DEF r
<1>7. Same(q)
  <2> SUFFICES ASSUME NEW a \in 0 .. Size(q) - 1, NEW b \in 0 .. Size(q) - 1,
                      \A n \in 0 .. q - 1 : Bit(a, n) = Bit(b, n)
               PROVE  a = b
    OBVIOUS
  <2>1. \A n \in 0 .. o - 1 : Bit(a % e, n) = Bit(b % e, n)
    <3> HIDE DEF o, e
    <3> QED
      BY <1>3, <1>6
  <2>2. a % e = b % e
    BY <1>4, <1>6, <2>1
  <2>3. Bit(a, o) = Bit(b, o)
    BY <1>3
  <2> HIDE DEF o, e
  <2>4. a = Bit(a, o) * e + (a % e) /\ b = Bit(b, o) * e + (b % e)
    BY <1>6
  <2> QED
    BY <2>2, <2>3, <2>4
<1> QED
  BY <1>1, <1>7

\* There is a number with any given bits.
LEMMA BitsExist ==
  ASSUME NEW f \in [0 .. MaxHp - 1 -> {0, 1}], NEW p \in 0 .. MaxHp
  PROVE  \E z \in 0 .. Size(p) - 1 : \A n \in 0 .. p - 1 : Bit(z, n) = f[n]
<1> DEFINE Made(q) == \E z \in 0 .. Size(q) - 1 : \A n \in 0 .. q - 1 : Bit(z, n) = f[n]
           T == {q \in 0 .. MaxHp : ~Made(q)}
<1> SUFFICES ASSUME p \in T PROVE FALSE
  OBVIOUS
<1>1. PICK q \in T : \A r \in T : q <= r
  <2> T \subseteq Nat /\ T # {}
    OBVIOUS
  <2> HIDE DEF T
  <2> QED
    BY LeastElement
<1>2. q # 0
  <2>1. 0 \in 0 .. Size(0) - 1 /\ \A n \in 0 .. 0 - 1 : FALSE
    BY Sizes
  <2> QED
    BY <1>1, <2>1
<1> DEFINE o == q - 1
           e == Size(o)
<1>3. o \in 0 .. MaxHp /\ o < q /\ o + 1 = q /\ q \in 0 .. MaxHp /\ o \in 0 .. MaxHp - 1
      /\ \A n \in 0 .. q - 1 : n = o \/ n \in 0 .. o - 1
  BY <1>1, <1>2, SizeAssumption
<1>4. Made(o)
  <2> HIDE DEF o, Made
  <2> QED
    BY <1>1, <1>3
<1>5. e \in Nat \ {0} /\ Size(q) = 2 * e
  BY <1>3, Sizes
<1>6. PICK y \in 0 .. e - 1 : \A n \in 0 .. o - 1 : Bit(y, n) = f[n]
  BY <1>4
<1> DEFINE d == f[o]
           z == d * e + y
<1>7. d \in {0, 1}
  BY <1>3
<1> HIDE DEF o, e, d
<1>8. z \in 0 .. 2 * e - 1 /\ z \in Nat
  <2>1. CASE d = 0
    <3>1. z = y
      BY <1>5, <1>6, <2>1
    <3> HIDE DEF z
    <3> QED
      BY <1>5, <1>6, <3>1
  <2>2. CASE d = 1
    <3>1. z = e + y
      BY <1>5, <1>6, <2>2
    <3> HIDE DEF z
    <3> QED
      BY <1>5, <1>6, <3>1
  <2> QED
    BY <1>7, <2>1, <2>2
<1>9. z % e = y /\ z \div e = d
  <2>1. d \in Nat
    BY <1>7
  <2> QED
    BY <1>5, <1>6, <2>1, QuotientIs
<1> HIDE DEF z
<1>10. Bit(z, o) = f[o]
  <2>1. d % 2 = d
    BY <1>7
  <2> QED
    BY <1>9, <2>1 DEF Bit, e, Size, d
<1>11. \A n \in 0 .. o - 1 : Bit(z, n) = f[n]
  <2>1. \A n \in 0 .. o - 1 : Bit(z % Size(o), n) = Bit(z, n)
    BY <1>3, <1>8, BitOfRemainder
  <2> QED
    BY <1>6, <1>9, <2>1 DEF e
<1>12. Made(q)
  <2>1. z \in 0 .. Size(q) - 1
    BY <1>5, <1>8
  <2>2. \A n \in 0 .. q - 1 : Bit(z, n) = f[n]
    BY <1>3, <1>10, <1>11
  <2> QED
    BY <2>1, <2>2
<1> QED
  BY <1>1, <1>12

LEMMA XorFacts ==
  ASSUME NEW x \in BucketInds, NEW y \in BucketInds
  PROVE  /\ Xor[x][y] \in BucketInds
         /\ \A n \in 0 .. MaxHp - 1 : Bit(Xor[x][y], n) = (Bit(x, n) + Bit(y, n)) % 2
<1> DEFINE P(z) == \A n \in 0 .. MaxHp - 1 : Bit(z, n) = (Bit(x, n) + Bit(y, n)) % 2
<1>1. Xor[x][y] = CHOOSE z \in BucketInds : P(z)
  BY DEF Xor
<1>2. \E z \in BucketInds : P(z)
  <2> DEFINE f == [n \in 0 .. MaxHp - 1 |-> (Bit(x, n) + Bit(y, n)) % 2]
  <2>1. x \in Nat /\ y \in Nat /\ MaxHp \in 0 .. MaxHp /\ BucketInds = 0 .. Size(MaxHp) - 1
    BY SizeAssumption, Sizes DEF BucketInds, Size
  <2>2. \A n \in 0 .. MaxHp - 1 : Bit(x, n) \in {0, 1} /\ Bit(y, n) \in {0, 1}
    <3>1. \A n \in 0 .. MaxHp - 1 : n \in 0 .. MaxHp
      BY SizeAssumption
    <3> QED
      BY <2>1, <3>1, BitType
  <2>3. \A a, b \in {0, 1} : (a + b) % 2 \in {0, 1}
    OBVIOUS
  <2>4. f \in [0 .. MaxHp - 1 -> {0, 1}]
    BY <2>2, <2>3
  <2> HIDE DEF f
  <2>5. \E z \in 0 .. Size(MaxHp) - 1 : \A n \in 0 .. MaxHp - 1 : Bit(z, n) = f[n]
    BY <2>1, <2>4, BitsExist
  <2> QED
    BY <2>1, <2>5 DEF f
<1> HIDE DEF P
<1>3. Xor[x][y] \in BucketInds /\ P(Xor[x][y])
  BY <1>1, <1>2
<1> QED
  BY <1>3 DEF P

-----------------------------------------------------------------------------
(* The two buckets of a hash.                                              *)

LEMMA KeyFacts ==
  ASSUME NEW k \in Keys
  PROVE  Hash[k] \in HashValues /\ Hash[k].low \in BucketInds /\ Hash[k].mult \in BucketInds
BY HashAssumption DEF HashValues

LEMMA BucketIndFacts ==
  /\ BucketInds = 0 .. Size(MaxHp) - 1 /\ BucketInds \subseteq Nat
  /\ \A p \in 0 .. MaxHp : 0 .. Size(p) - 1 \subseteq BucketInds
<1>1. BucketInds = 0 .. Size(MaxHp) - 1
  BY DEF BucketInds, Size
<1>2. ASSUME NEW p \in 0 .. MaxHp PROVE 0 .. Size(p) - 1 \subseteq BucketInds
  <2> DEFINE a == Size(p)
             b == Size(MaxHp)
  <2>1. a \in Nat /\ b \in Nat /\ a <= b /\ BucketInds = 0 .. b - 1
    BY <1>1, Sizes, SizeAssumption
  <2> HIDE DEF a, b
  <2>2. 0 .. a - 1 \subseteq BucketInds
    BY <2>1
  <2> QED
    BY <2>2 DEF a
<1> QED
  BY <1>1, <1>2

\* alt_index stays in the table, and is its own inverse.
LEMMA AltFacts ==
  ASSUME NEW p \in 0 .. MaxHp, NEW h \in HashValues, NEW i \in BucketInds
  PROVE  /\ alt_index(p, h, i) \in 0 .. Size(p) - 1
         /\ alt_index(p, h, i) \in BucketInds
         /\ i < Size(p) => alt_index(p, h, alt_index(p, h, i)) = i
         /\ \A n \in 0 .. p - 1 : Bit(alt_index(p, h, i), n) = (Bit(i, n) + Bit(h.mult, n)) % 2
<1> DEFINE m == h.mult
           a == alt_index(p, h, i)
<1>1. /\ m \in BucketInds /\ m \in Nat /\ i \in Nat /\ Size(p) \in Nat \ {0}
      /\ \A n \in 0 .. p - 1 : n \in 0 .. MaxHp - 1 /\ n \in 0 .. MaxHp
  BY BucketIndFacts, Sizes, SizeAssumption DEF HashValues
<1>2. ASSUME NEW j \in BucketInds
      PROVE  /\ alt_index(p, h, j) \in 0 .. Size(p) - 1
             /\ alt_index(p, h, j) \in BucketInds
             /\ \A n \in 0 .. p - 1 : Bit(alt_index(p, h, j), n) = (Bit(j, n) + Bit(m, n)) % 2
  <2> DEFINE z == Xor[j][m]
  <2>1. z \in BucketInds /\ z \in Nat
        /\ \A n \in 0 .. MaxHp - 1 : Bit(z, n) = (Bit(j, n) + Bit(m, n)) % 2
    BY <1>1, XorFacts, BucketIndFacts
  <2>2. alt_index(p, h, j) = z % Size(p)
    BY DEF alt_index
  <2> HIDE DEF z, m
  <2>3. z % Size(p) \in 0 .. Size(p) - 1
    BY <1>1, <2>1, Quotients
  <2>4. \A n \in 0 .. p - 1 : Bit(z % Size(p), n) = Bit(z, n)
    BY <2>1, BitOfRemainder
  <2> QED
    BY <1>1, <2>1, <2>2, <2>3, <2>4, BucketIndFacts
<1>3. a \in BucketInds /\ a \in Nat
  BY <1>2, BucketIndFacts
<1>4. ASSUME i < Size(p) PROVE alt_index(p, h, a) = i
  <2> DEFINE c == alt_index(p, h, a)
  <2>1. \A n \in 0 .. p - 1 : Bit(c, n) = Bit(i, n)
    <3> SUFFICES ASSUME NEW n \in 0 .. p - 1 PROVE Bit(c, n) = Bit(i, n)
      OBVIOUS
    <3>1. /\ Bit(a, n) = (Bit(i, n) + Bit(m, n)) % 2
          /\ Bit(c, n) = (Bit(a, n) + Bit(m, n)) % 2
      BY <1>2, <1>3
    <3>2. Bit(i, n) \in {0, 1} /\ Bit(m, n) \in {0, 1}
      BY <1>1, BitType
    <3>3. \A x, y \in {0, 1} : (((x + y) % 2) + y) % 2 = x
      OBVIOUS
    <3> QED
      BY <3>1, <3>2, <3>3
  <2>2. c \in 0 .. Size(p) - 1 /\ i \in 0 .. Size(p) - 1
    BY <1>1, <1>2, <1>3, <1>4
  <2> HIDE DEF c
  <2>3. c = i
    BY <2>1, <2>2, BitsDetermine
  <2> QED
    BY <2>3 DEF c
<1> QED
  BY <1>2, <1>4

LEMMA FirstFacts ==
  ASSUME NEW p \in 0 .. MaxHp, NEW k \in Keys
  PROVE  /\ First(p, k) \in 0 .. Size(p) - 1 /\ First(p, k) \in BucketInds
         /\ Second(p, k) \in 0 .. Size(p) - 1 /\ Second(p, k) \in BucketInds
         /\ Two(p, k) \subseteq BucketInds /\ Two(p, k) \subseteq 0 .. Size(p) - 1
<1>1. First(p, k) \in 0 .. Size(p) - 1
  <2>1. Hash[k].low \in Nat /\ Size(p) \in Nat \ {0}
    BY KeyFacts, BucketIndFacts, Sizes
  <2> QED
    BY <2>1, Quotients DEF First, index_hash
<1>2. First(p, k) \in BucketInds
  BY <1>1, BucketIndFacts
<1> QED
  BY <1>1, <1>2, KeyFacts, AltFacts DEF Second, Two

\* From a bucket of a hash alt_index leads to the other one.
LEMMA OtherBucket ==
  ASSUME NEW p \in 0 .. MaxHp, NEW k \in Keys, NEW b \in Two(p, k)
  PROVE  /\ alt_index(p, Hash[k], b) \in Two(p, k)
         /\ {b, alt_index(p, Hash[k], b)} = Two(p, k)
<1>1. /\ Hash[k] \in HashValues /\ First(p, k) \in BucketInds /\ First(p, k) < Size(p)
      /\ Second(p, k) = alt_index(p, Hash[k], First(p, k))
  BY KeyFacts, FirstFacts, Sizes DEF Second
<1>2. alt_index(p, Hash[k], Second(p, k)) = First(p, k)
  BY <1>1, AltFacts
<1> QED
  BY <1>1, <1>2 DEF Two

\* When the table doubles, the remainders of the new buckets are the old ones.
LEMMA BucketsSplit ==
  ASSUME NEW p \in 0 .. MaxHp - 1, NEW k \in Keys
  PROVE  /\ First(p + 1, k) % Size(p) = First(p, k)
         /\ Second(p + 1, k) % Size(p) = Second(p, k)
<1> DEFINE h == Hash[k]
           f == First(p, k)
           g == First(p + 1, k)
           e == Size(p)
<1>0. /\ h \in HashValues /\ p \in 0 .. MaxHp /\ p + 1 \in 0 .. MaxHp
      /\ h.mult \in Nat /\ h.low \in Nat
      /\ f \in BucketInds /\ g \in BucketInds /\ f \in Nat /\ g \in Nat
      /\ f \in 0 .. e - 1 /\ g \in 0 .. Size(p + 1) - 1
      /\ e \in Nat \ {0} /\ Size(p + 1) = 2 * e
  <2>1. p \in 0 .. MaxHp /\ p + 1 \in 0 .. MaxHp
    BY SizeAssumption
  <2> QED
    BY <2>1, KeyFacts, FirstFacts, BucketIndFacts, Sizes
<1>1. g % e = f
  <2>1. f = h.low % e /\ g = h.low % (2 * e)
    BY <1>0 DEF First, index_hash
  <2>2. 2 * e \in Nat \ {0} /\ (2 * e) % e = 0
    <3>0. e \in Nat \ {0}
      BY <1>0
    <3> HIDE DEF e
    <3>1. 0 \in 0 .. e - 1 /\ 2 \in Nat
      BY <3>0
    <3>2. (2 * e + 0) % e = 0
      BY <3>0, <3>1, QuotientIs
    <3>3. 2 * e + 0 = 2 * e /\ 2 * e \in Nat \ {0}
      BY <3>0
    <3> QED
      BY <3>2, <3>3
  <2> DEFINE c == 2 * e
             b == h.low
  <2>3. c \in Nat \ {0} /\ c % e = 0 /\ b \in Nat /\ f = b % e /\ g = b % c
    BY <1>0, <2>1, <2>2
  <2> HIDE DEF c, b, e, f, g
  <2>4. (b % c) % e = b % e
    BY <1>0, <2>3, RemainderOfRemainder
  <2> QED
    BY <2>3, <2>4
<1>2. Second(p + 1, k) % e = Second(p, k)
  <2> DEFINE a == alt_index(p, h, f)
             d == alt_index(p + 1, h, g)
  <2>1. /\ a \in 0 .. e - 1
        /\ d \in Nat /\ d \in BucketInds
        /\ \A n \in 0 .. p - 1 : Bit(a, n) = (Bit(f, n) + Bit(h.mult, n)) % 2
    BY <1>0, AltFacts, BucketIndFacts
  <2>2. \A n \in 0 .. p - 1 : Bit(d, n) = (Bit(g, n) + Bit(h.mult, n)) % 2
    <3> DEFINE q == p + 1
    <3>1. q \in 0 .. MaxHp /\ \A n \in 0 .. p - 1 : n \in 0 .. q - 1
      BY <1>0
    <3>2. d = alt_index(q, h, g)
      OBVIOUS
    <3> HIDE DEF q, d, g, h
    <3>3. \A n \in 0 .. q - 1 : Bit(d, n) = (Bit(g, n) + Bit(h.mult, n)) % 2
      BY <1>0, <3>1, <3>2, AltFacts
    <3> QED
      BY <3>1, <3>3
  <2> HIDE DEF a, d, f, g, h
  <2>3. d % e \in 0 .. e - 1
    <3> HIDE DEF e
    <3> QED
      BY <1>0, <2>1, Quotients
  <2>4. \A n \in 0 .. p - 1 : Bit(d % e, n) = Bit(a, n)
    <3> SUFFICES ASSUME NEW n \in 0 .. p - 1 PROVE Bit(d % e, n) = Bit(a, n)
      OBVIOUS
    <3>1. Bit(d % e, n) = Bit(d, n) /\ Bit(g % e, n) = Bit(g, n)
      BY <1>0, <2>1, BitOfRemainder
    <3> QED
      BY <1>1, <2>1, <2>2, <3>1
  <2> DEFINE r == d % e
  <2>5. r \in 0 .. Size(p) - 1 /\ a \in 0 .. Size(p) - 1
    BY <2>1, <2>3
  <2>6. \A n \in 0 .. p - 1 : Bit(r, n) = Bit(a, n)
    BY <2>4
  <2> HIDE DEF r, e
  <2>7. r = a
    BY <1>0, <2>5, <2>6, BitsDetermine
  <2> QED
    BY <2>7 DEF r, a, d, f, g, h, Second
<1> QED
  BY <1>1, <1>2

\* Where an element is after the table doubled.
LEMMA MovesUpFacts ==
  ASSUME NEW p \in 0 .. MaxHp - 1, NEW k \in Keys, NEW b \in Two(p, k)
  PROVE  /\ MovesUp(k, b, p) => b + Size(p) \in Two(p + 1, k)
         /\ ~MovesUp(k, b, p) => b \in Two(p + 1, k)
<1> DEFINE e == Size(p)
<1>1. \A x, y \in Nat : y < e /\ x < 2 * e /\ x % e = y => x = y \/ x = y + e
  <2> SUFFICES ASSUME NEW x \in Nat, NEW y \in Nat, y < e, x < 2 * e, x % e = y
               PROVE  x = y \/ x = y + e
    OBVIOUS
  <2>0. e \in Nat \ {0}
    BY Sizes, SizeAssumption
  <2> HIDE DEF e
  <2> DEFINE q == x \div e
  <2>1. q \in Nat /\ x = q * e + y
    BY <2>0, Quotients
  <2> HIDE DEF q
  <2>2. q = 0 \/ q = 1
    <3> SUFFICES ASSUME q >= 2 PROVE FALSE
      BY <2>1
    <3> DEFINE f == q - 2
    <3>1. f \in Nat /\ q = f + 2
      BY <2>1
    <3> HIDE DEF f
    <3>2. q * e = f * e + 2 * e /\ f * e \in Nat
      BY <2>0, <3>1
    <3> QED
      BY <2>0, <2>1, <3>2
  <2> QED
    BY <2>0, <2>1, <2>2
<1>2. /\ First(p, k) \in Nat /\ First(p, k) < e /\ Second(p, k) \in Nat /\ Second(p, k) < e
      /\ First(p + 1, k) \in Nat /\ First(p + 1, k) < 2 * e
      /\ Second(p + 1, k) \in Nat /\ Second(p + 1, k) < 2 * e
  <2>1. p \in 0 .. MaxHp /\ p + 1 \in 0 .. MaxHp /\ Size(p + 1) = 2 * e /\ e \in Nat
    BY Sizes, SizeAssumption
  <2>2. /\ First(p, k) \in 0 .. e - 1 /\ Second(p, k) \in 0 .. e - 1
        /\ First(p + 1, k) \in 0 .. Size(p + 1) - 1 /\ Second(p + 1, k) \in 0 .. Size(p + 1) - 1
    BY <2>1, FirstFacts
  <2> HIDE DEF e
  <2> QED
    BY <2>1, <2>2
<1>3. First(p + 1, k) = First(p, k) \/ First(p + 1, k) = First(p, k) + e
  BY <1>1, <1>2, BucketsSplit
<1>4. Second(p + 1, k) = Second(p, k) \/ Second(p + 1, k) = Second(p, k) + e
  BY <1>1, <1>2, BucketsSplit
<1>5. b = First(p, k) \/ b = Second(p, k)
  BY DEF Two
<1> QED
  BY <1>3, <1>4, <1>5 DEF MovesUp, Two

-----------------------------------------------------------------------------
(* move_bucket.                                                            *)

\* The number of slots of up before slot r.
Rank(up, r) == Cardinality({q \in up : q < r})

\* The slots of a set are numbered without gaps.
LEMMA RankFacts ==
  ASSUME NEW up \in SUBSET SlotInds
  PROVE  /\ Cardinality(up) \in 0 .. SlotPerBucket
         /\ \A r \in up : Rank(up, r) \in 0 .. Cardinality(up) - 1
         /\ \A r, t \in up : Rank(up, r) = Rank(up, t) => r = t
         /\ \A s \in 0 .. Cardinality(up) - 1 : \E r \in up : Rank(up, r) = s
<1> DEFINE B(n) == {q \in up : q < n}
<1>0. /\ SlotPerBucket \in Nat \ {0} /\ up \subseteq 0 .. SlotPerBucket - 1
      /\ IsFiniteSet(up) /\ Cardinality(up) \in 0 .. SlotPerBucket
  <2>1. SlotPerBucket \in Nat \ {0} /\ up \subseteq 0 .. SlotPerBucket - 1
    BY SizeAssumption DEF SlotInds
  <2>2. IsFiniteSet(0 .. SlotPerBucket - 1) /\ Cardinality(0 .. SlotPerBucket - 1) = SlotPerBucket
    BY <2>1, FS_Interval
  <2>3. IsFiniteSet(up) /\ Cardinality(up) <= SlotPerBucket
    BY <2>1, <2>2, FS_Subset
  <2>4. Cardinality(up) \in Nat
    BY <2>3, FS_CardinalityType
  <2> QED
    BY <2>1, <2>3, <2>4
<1>a. \A q \in up : q \in Nat /\ q < SlotPerBucket
  BY <1>0
<1>b. Cardinality(up) \in Nat
  BY <1>0
<1>1. ASSUME NEW n \in Nat
      PROVE  IsFiniteSet(B(n)) /\ Cardinality(B(n)) \in Nat
  <2>1. B(n) \subseteq up
    OBVIOUS
  <2> QED
    BY <1>0, <2>1, FS_Subset, FS_CardinalityType
<1>2. ASSUME NEW r \in up
      PROVE  /\ IsFiniteSet(B(r) \cup {r}) /\ r \in Nat /\ Cardinality(B(r)) \in Nat
             /\ Cardinality(B(r) \cup {r}) = Cardinality(B(r)) + 1
  <2>1. r \in Nat /\ r \notin B(r)
    BY <1>0
  <2> HIDE DEF B
  <2> QED
    BY <1>1, <2>1, FS_AddElement
<1>3. \A r \in up : Rank(up, r) \in 0 .. Cardinality(up) - 1
  <2> SUFFICES ASSUME NEW r \in up PROVE Rank(up, r) \in 0 .. Cardinality(up) - 1
    OBVIOUS
  <2>1. B(r) \cup {r} \subseteq up /\ Rank(up, r) = Cardinality(B(r))
    BY DEF Rank
  <2> HIDE DEF B
  <2>2. Cardinality(B(r) \cup {r}) <= Cardinality(up)
    BY <1>0, <2>1, FS_Subset
  <2>3. Cardinality(B(r) \cup {r}) = Cardinality(B(r)) + 1 /\ Cardinality(B(r)) \in Nat
    BY <1>2
  <2> QED
    BY <1>b, <2>1, <2>2, <2>3
<1>4. ASSUME NEW r \in up, NEW t \in up, r < t PROVE Rank(up, r) < Rank(up, t)
  <2>1. B(r) \cup {r} \subseteq B(t) /\ Rank(up, r) = Cardinality(B(r)) /\ Rank(up, t) = Cardinality(B(t))
    <3>1. \A q \in B(r) : q < t
      BY <1>0, <1>4
    <3> QED
      BY <1>4, <3>1 DEF Rank
  <2>2. t \in Nat
    BY <1>0
  <2> HIDE DEF B
  <2>3. Cardinality(B(r) \cup {r}) <= Cardinality(B(t)) /\ Cardinality(B(t)) \in Nat
    BY <1>1, <2>1, <2>2, FS_Subset
  <2> QED
    BY <1>2, <2>1, <2>3
<1>5. \A r, t \in up : Rank(up, r) = Rank(up, t) => r = t
  <2> SUFFICES ASSUME NEW r \in up, NEW t \in up, Rank(up, r) = Rank(up, t), r # t
               PROVE  FALSE
    OBVIOUS
  <2>1. r < t \/ t < r
    BY <1>0
  <2>2. Rank(up, r) \in Nat
    <3>1. Rank(up, r) \in 0 .. Cardinality(up) - 1
      BY <1>3
    <3> QED
      BY <3>1
  <2> QED
    BY <1>4, <2>1, <2>2
<1>6. ASSUME NEW s \in 0 .. Cardinality(up) - 1 PROVE \E r \in up : Rank(up, r) = s
  <2> DEFINE T == {n \in 0 .. SlotPerBucket : Cardinality(B(n)) > s}
  <2>1. SlotPerBucket \in T
    <3>1. B(SlotPerBucket) = up
      BY <1>a
    <3> HIDE DEF B
    <3> QED
      BY <1>0, <1>b, <3>1
  <2>2. PICK n \in T : \A m \in T : n <= m
    <3> HIDE DEF B
    <3>1. T \subseteq Nat /\ T # {}
      <4>1. T # {}
        BY <2>1
      <4>2. T \subseteq 0 .. SlotPerBucket
        OBVIOUS
      <4> QED
        BY <1>0, <4>1, <4>2
    <3> HIDE DEF T
    <3> QED
      BY <3>1, LeastElement
  <2>3. n \in 0 .. SlotPerBucket /\ Cardinality(B(n)) > s /\ s \in Nat
    <3> HIDE DEF B
    <3> QED
      BY <1>0, <2>2
  <2>4. n # 0
    <3>1. B(0) = {}
      BY <1>a
    <3> HIDE DEF B
    <3> QED
      BY <2>3, <3>1, FS_EmptySet
  <2> DEFINE m == n - 1
  <2>5. m \in 0 .. SlotPerBucket /\ m \in Nat /\ n = m + 1 /\ m \notin T /\ n \in Nat
    <3>1. m \in 0 .. SlotPerBucket /\ m \in Nat /\ n = m + 1 /\ m < n
      <4>1. n \in 0 .. SlotPerBucket /\ SlotPerBucket \in Nat
        BY <1>0, <2>3
      <4> QED
        BY <2>4, <4>1
    <3>2. m \notin T
      <4> HIDE DEF T, m
      <4> QED
        BY <2>2, <2>3, <3>1
    <3> QED
      BY <3>1, <3>2
  <2>6. Cardinality(B(m)) <= s /\ Cardinality(B(m)) \in Nat /\ Cardinality(B(n)) \in Nat
    <3> HIDE DEF m
    <3>1. Cardinality(B(m)) \in Nat /\ Cardinality(B(n)) \in Nat
      BY <1>1, <2>5
    <3> HIDE DEF B
    <3> QED
      BY <2>3, <2>5, <3>1
  <2> HIDE DEF m, T
  <2>7. m \in up
    <3> SUFFICES ASSUME m \notin up PROVE FALSE
      OBVIOUS
    <3>1. \A q \in up : q < n <=> q < m
      BY <1>a, <2>5
    <3>2. B(n) = B(m)
      BY <3>1
    <3> HIDE DEF B
    <3> QED
      BY <2>3, <2>6, <3>2
  <2>8. B(n) = B(m) \cup {m}
    <3>1. \A q \in up : q < n <=> q < m \/ q = m
      BY <1>a, <2>5
    <3> QED
      BY <2>7, <3>1
  <2>9. Rank(up, m) = Cardinality(B(m))
    BY DEF Rank
  <2>10. Cardinality(B(n)) = Cardinality(B(m)) + 1
    BY <1>2, <2>7, <2>8
  <2> HIDE DEF B
  <2>11. Rank(up, m) = s
    BY <2>3, <2>6, <2>9, <2>10
  <2> QED
    BY <2>7, <2>11
<1> QED
  BY <1>0, <1>3, <1>5, <1>6

\* move_bucket puts every element of the old buckets into the new ones, into a
\* slot of its own, and nothing else.
LEMMA MoveFacts ==
  ASSUME NEW p \in 0 .. MaxHp - 1, NEW from \in Table, NEW into \in Table,
         NEW bs \in SUBSET (0 .. Size(p) - 1),
         \A b \in bs : into[b] = NoEntry /\ into[b + Size(p)] = NoEntry
  PROVE  LET M == MoveBuckets(from, into, p, bs) IN
         /\ M \in Table
         /\ \A c \in BucketInds : c \notin bs /\ c - Size(p) \notin bs => M[c] = into[c]
         /\ \A b \in bs, s \in SlotInds : Occupied(from, b, s) =>
              IF MovesUp(from[b][s].key, b, p)
              THEN \E r \in SlotInds : M[b + Size(p)][r] = from[b][s]
              ELSE M[b][s] = from[b][s]
         /\ \A c \in BucketInds, r \in SlotInds : Occupied(M, c, r) =>
              \/ c \notin bs /\ c - Size(p) \notin bs /\ M[c][r] = into[c][r]
              \/ /\ c \in bs /\ M[c][r] = from[c][r]
                 /\ ~MovesUp(from[c][r].key, c, p)
              \/ /\ c - Size(p) \in bs
                 /\ \E s \in SlotInds :
                      /\ Occupied(from, c - Size(p), s)
                      /\ MovesUp(from[c - Size(p)][s].key, c - Size(p), p)
                      /\ M[c][r] = from[c - Size(p)][s]
                      /\ r = Rank(UpSlots(from, c - Size(p), p), s)
<1> DEFINE M == MoveBuckets(from, into, p, bs)
           e == Size(p)
           Up(b) == UpSlots(from, b, p)
           Stay1(b, s) == IF Occupied(from, b, s) /\ s \notin Up(b) THEN from[b][s] ELSE into[b][s]
           Chosen(b, s) == CHOOSE r \in Up(b) : Rank(Up(b), r) = s
           Go1(b, c, s) == IF s < Cardinality(Up(b)) THEN from[b][Chosen(b, s)] ELSE into[c][s]
<1>1. /\ e \in Nat \ {0} /\ bs \subseteq BucketInds /\ \A b \in bs : b + e \in BucketInds
      /\ \A b \in bs : b \in Nat /\ b < e /\ b - e \notin bs /\ b + e \notin bs /\ (b + e) - e = b
      /\ \A c \in BucketInds : c \in Nat
  <2>1. p \in 0 .. MaxHp /\ p + 1 \in 0 .. MaxHp /\ Size(p + 1) = 2 * e /\ e \in Nat \ {0}
    BY Sizes, SizeAssumption
  <2>2. 0 .. e - 1 \subseteq BucketInds /\ 0 .. Size(p + 1) - 1 \subseteq BucketInds
    <3> DEFINE q == p + 1
    <3> HIDE DEF q
    <3>1. 0 .. Size(q) - 1 \subseteq BucketInds
      BY <2>1, BucketIndFacts DEF q
    <3> QED
      BY <2>1, <3>1, BucketIndFacts DEF q
  <2>a. bs \subseteq 0 .. e - 1
    OBVIOUS
  <2> HIDE DEF e
  <2>3. \A b \in bs : b \in 0 .. e - 1 /\ b + e \in 0 .. Size(p + 1) - 1
    BY <2>1, <2>a
  <2> QED
    BY <2>1, <2>2, <2>3, BucketIndFacts
<1>2. ASSUME NEW b \in bs
      PROVE  /\ Up(b) \in SUBSET SlotInds
             /\ \A s \in SlotInds : s \in Up(b) <=> Occupied(from, b, s) /\ MovesUp(from[b][s].key, b, p)
  BY DEF UpSlots
<1>3. ASSUME NEW c \in BucketInds
      PROVE  M[c] = IF c \in bs THEN [s \in SlotInds |-> Stay1(c, s)]
                    ELSE IF c - e \in bs THEN [s \in SlotInds |-> Go1(c - e, c, s)]
                    ELSE into[c]
  BY DEF MoveBuckets, Rank
<1>4. ASSUME NEW b \in bs, NEW s \in SlotInds
      PROVE  /\ M[b][s] = Stay1(b, s) /\ M[b + e][s] = Go1(b, b + e, s)
  <2>1. b \in BucketInds /\ b + e \in BucketInds /\ b + e \notin bs /\ (b + e) - e = b
    BY <1>1
  <2> HIDE DEF M, Stay1, Go1, e
  <2>2. M[b] = [r \in SlotInds |-> Stay1(b, r)]
    BY <1>3, <2>1
  <2>3. M[b + e] = [r \in SlotInds |-> Go1(b, b + e, r)]
    BY <1>3, <2>1
  <2> QED
    BY <2>2, <2>3
<1>5. ASSUME NEW c \in BucketInds, c \notin bs, c - e \notin bs
      PROVE  M[c] = into[c]
  <2> HIDE DEF M, Stay1, Go1, e
  <2> QED
    BY <1>3, <1>5
<1>6. ASSUME NEW b \in bs, NEW r \in Up(b)
      PROVE  /\ Rank(Up(b), r) < Cardinality(Up(b)) /\ Rank(Up(b), r) \in SlotInds
             /\ Chosen(b, Rank(Up(b), r)) = r
  <2>1. Up(b) \in SUBSET SlotInds
    BY <1>2
  <2> HIDE DEF Up
  <2>2. /\ Cardinality(Up(b)) \in 0 .. SlotPerBucket
        /\ Rank(Up(b), r) \in 0 .. Cardinality(Up(b)) - 1
        /\ \A q, t \in Up(b) : Rank(Up(b), q) = Rank(Up(b), t) => q = t
    BY <2>1, RankFacts
  <2>3. \E q \in Up(b) : Rank(Up(b), q) = Rank(Up(b), r)
    OBVIOUS
  <2>4. Chosen(b, Rank(Up(b), r)) = r
    <3> DEFINE n == Rank(Up(b), r)
               c == CHOOSE q \in Up(b) : Rank(Up(b), q) = n
    <3> HIDE DEF n
    <3>1. c \in Up(b) /\ Rank(Up(b), c) = n
      BY <2>3 DEF n
    <3> QED
      BY <2>2, <3>1 DEF n
  <2> QED
    BY <2>2, <2>4, SizeAssumption DEF SlotInds
<1>7. ASSUME NEW b \in bs, NEW s \in SlotInds, s < Cardinality(Up(b))
      PROVE  Chosen(b, s) \in Up(b) /\ Rank(Up(b), Chosen(b, s)) = s
  <2>1. Up(b) \in SUBSET SlotInds
    BY <1>2
  <2> HIDE DEF Up
  <2>2. s \in 0 .. Cardinality(Up(b)) - 1
    BY <1>7, <2>1, RankFacts, SizeAssumption DEF SlotInds
  <2>3. \E q \in Up(b) : Rank(Up(b), q) = s
    BY <2>1, <2>2, RankFacts
  <2> QED
    BY <2>3
<1> HIDE DEF M, Chosen, Up
<1>8. ASSUME NEW b \in bs, NEW s \in SlotInds, Occupied(from, b, s)
      PROVE  IF MovesUp(from[b][s].key, b, p)
             THEN \E r \in SlotInds : M[b + e][r] = from[b][s]
             ELSE M[b][s] = from[b][s]
  <2>1. CASE MovesUp(from[b][s].key, b, p)
    <3>1. s \in Up(b)
      BY <1>2, <1>8, <2>1
    <3> DEFINE r == Rank(Up(b), s)
    <3>2. r < Cardinality(Up(b)) /\ r \in SlotInds /\ Chosen(b, r) = s
      BY <1>6, <3>1
    <3>3. M[b + e][r] = Go1(b, b + e, r)
      BY <1>4, <3>2
    <3> QED
      BY <2>1, <3>2, <3>3
  <2>2. CASE ~MovesUp(from[b][s].key, b, p)
    <3>1. s \notin Up(b)
      BY <1>2, <2>2
    <3> QED
      BY <1>4, <1>8, <2>2, <3>1
  <2> QED
    BY <2>1, <2>2
<1>9. ASSUME NEW c \in BucketInds, NEW r \in SlotInds, Occupied(M, c, r)
      PROVE  \/ c \notin bs /\ c - e \notin bs /\ M[c][r] = into[c][r]
             \/ c \in bs /\ M[c][r] = from[c][r] /\ ~MovesUp(from[c][r].key, c, p)
             \/ /\ c - e \in bs
                /\ \E s \in SlotInds :
                     /\ Occupied(from, c - e, s)
                     /\ MovesUp(from[c - e][s].key, c - e, p)
                     /\ M[c][r] = from[c - e][s]
                     /\ r = Rank(Up(c - e), s)
  <2>1. M[c][r] # None /\ NoEntry[r] = None
    BY <1>9 DEF Occupied, NoEntry
  <2>2. CASE c \in bs
    <3>1. M[c][r] = Stay1(c, r) /\ into[c][r] = None
      BY <1>4, <2>1, <2>2
    <3> QED
      BY <1>2, <2>1, <2>2, <3>1
  <2>3. CASE c - e \in bs
    <3> DEFINE b == c - e
    <3>1. b \in bs /\ c = b + e
      BY <1>1, <2>3
    <3> HIDE DEF b
    <3>2. M[c][r] = Go1(b, c, r) /\ into[c][r] = None
      BY <1>4, <2>1, <3>1
    <3>3. r < Cardinality(Up(b)) /\ M[c][r] = from[b][Chosen(b, r)]
      BY <2>1, <3>2
    <3>4. Chosen(b, r) \in Up(b) /\ Rank(Up(b), Chosen(b, r)) = r
      BY <1>7, <3>1, <3>3
    <3>5. /\ Chosen(b, r) \in SlotInds /\ Occupied(from, b, Chosen(b, r))
          /\ MovesUp(from[b][Chosen(b, r)].key, b, p)
      BY <1>2, <3>1, <3>4
    <3>6. b = c - e
      BY DEF b
    <3> QED
      BY <3>1, <3>3, <3>4, <3>5, <3>6
  <2>4. CASE c \notin bs /\ c - e \notin bs
    BY <1>5, <2>4
  <2> QED
    BY <2>2, <2>3, <2>4
<1>10. M \in Table
  <2>1. M = [c \in BucketInds |-> M[c]]
    BY DEF M, MoveBuckets
  <2>2. \A b \in BucketInds, s \in SlotInds :
          from[b][s] \in Entries \cup {None} /\ into[b][s] \in Entries \cup {None}
    BY DEF Table
  <2>3. \A b \in BucketInds : into[b] \in [SlotInds -> Entries \cup {None}]
    BY DEF Table
  <2>4. ASSUME NEW c \in BucketInds PROVE M[c] \in [SlotInds -> Entries \cup {None}]
    <3>1. CASE c \in bs
      <4>1. M[c] = [s \in SlotInds |-> Stay1(c, s)]
        BY <1>3, <3>1
      <4>2. \A s \in SlotInds : Stay1(c, s) \in Entries \cup {None}
        BY <2>2
      <4> HIDE DEF Stay1
      <4> QED
        BY <4>1, <4>2
    <3>2. CASE c \notin bs /\ c - e \in bs
      <4> DEFINE b == c - e
      <4>1. M[c] = [s \in SlotInds |-> Go1(b, c, s)] /\ b \in bs /\ b \in BucketInds
        BY <1>1, <1>3, <3>2
      <4> HIDE DEF b
      <4>2. \A s \in SlotInds : s < Cardinality(Up(b)) => Chosen(b, s) \in SlotInds
        BY <1>2, <1>7, <4>1
      <4>3. \A s \in SlotInds : Go1(b, c, s) \in Entries \cup {None}
        BY <2>2, <4>1, <4>2
      <4> HIDE DEF Go1
      <4> QED
        BY <4>1, <4>3
    <3>3. CASE c \notin bs /\ c - e \notin bs
      BY <1>5, <2>3, <3>3
    <3> QED
      BY <3>1, <3>2, <3>3
  <2> QED
    BY <2>1, <2>4 DEF Table
<1> QED
  BY <1>5, <1>8, <1>9, <1>10 DEF M, Up

-----------------------------------------------------------------------------
(* A table with what is left of the old one.                               *)

\* The element [key, val] is in the table.
Stored(tb, k, v) ==
  \E b \in BucketInds, s \in SlotInds : tb[b][s] = [key |-> k, val |-> v]

\* No key is there twice.
Once(tb) ==
  \A b, c \in BucketInds, s, r \in SlotInds :
    Occupied(tb, b, s) /\ Occupied(tb, c, r) /\ tb[b][s].key = tb[c][r].key => b = c /\ s = r

\* No key is in both.
Apart(tb, ol) ==
  \A b, c \in BucketInds, s, r \in SlotInds :
    Occupied(tb, b, s) /\ Occupied(ol, c, r) => tb[b][s].key # ol[c][r].key

Placed(p, tb) ==
  \A b \in BucketInds, s \in SlotInds : Occupied(tb, b, s) => b \in Two(p, tb[b][s].key)

\* Elements of an old table are under locks that are not migrated.
PlacedUnder(p, ol, lt) ==
  \A b \in BucketInds, s \in SlotInds :
    Occupied(ol, b, s) => LockInd(b) \in lt /\ b \in Two(p, ol[b][s].key)

\* A table of hashpower p, with the elements ol left of the table before under
\* the locks lt.
Good(p, tb, ol, lt) ==
  /\ p \in 0 .. MaxHp /\ tb \in Table /\ ol \in Table /\ lt \subseteq Locks
  /\ lt # {} => p # 0 /\ Size(p - 1) >= MaxNumLocks
  /\ Placed(p, tb) /\ PlacedUnder(p - 1, ol, lt)
  /\ \A b \in BucketInds : LockInd(b) \in lt => tb[b] = NoEntry
  /\ Once(tb) /\ Once(ol) /\ Apart(tb, ol)

\* old after rehash_lock of the locks ls.
OldAfter(ls) == IF ls \cap late = {} THEN old
                ELSE [b \in BucketInds |-> IF b \in OldUnder(ls) THEN NoEntry ELSE old[b]]

LEMMA EntryFacts ==
  ASSUME NEW tb \in Table, NEW b \in BucketInds, NEW s \in SlotInds
  PROVE  /\ tb[b] \in [SlotInds -> Entries \cup {None}]
         /\ tb[b][s] \in Entries \cup {None}
         /\ Occupied(tb, b, s) <=> tb[b][s] \in Entries
         /\ Occupied(tb, b, s) => /\ tb[b][s].key \in Keys /\ tb[b][s].val \in Vals
                                  /\ tb[b][s] = [key |-> tb[b][s].key, val |-> tb[b][s].val]
<1>1. tb[b] \in [SlotInds -> Entries \cup {None}] /\ tb[b][s] \in Entries \cup {None}
  BY DEF Table
<1>2. None \notin Entries
  BY NoneAssumption
<1>3. \A x \in Entries : /\ x.key \in Keys /\ x.val \in Vals
                         /\ x = [key |-> x.key, val |-> x.val]
  BY DEF Entries
<1> QED
  BY <1>1, <1>2, <1>3 DEF Occupied

LEMMA EmptyFacts ==
  /\ NoEntry \in [SlotInds -> Entries \cup {None}] /\ \A s \in SlotInds : NoEntry[s] = None
  /\ Empty \in Table /\ \A b \in BucketInds : Empty[b] = NoEntry
BY DEF NoEntry, Empty, Table

LEMMA LockFacts ==
  ASSUME NEW b \in Nat
  PROVE  /\ LockInd(b) \in Locks
         /\ \A p \in 0 .. MaxHp : Size(p) >= MaxNumLocks =>
              LockInd(b + Size(p)) = LockInd(b) /\ LockInd(b % Size(p)) = LockInd(b)
<1> DEFINE m == MaxNumLocks
<1>0. m \in Nat \ {0}
  BY SizeAssumption
<1>1. LockInd(b) \in Locks
  BY <1>0, Quotients DEF LockInd, Locks
<1>2. ASSUME NEW p \in 0 .. MaxHp, Size(p) >= m
      PROVE  LockInd(b + Size(p)) = LockInd(b) /\ LockInd(b % Size(p)) = LockInd(b)
  <2> DEFINE e == Size(p)
             c == b + e
  <2>1. e \in Nat \ {0} /\ e % m = 0
    BY <1>2, LocksAssumption, Sizes
  <2> HIDE DEF e, m
  <2>2. (b % e) % m = b % m
    BY <1>0, <2>1, RemainderOfRemainder
  <2>3. c \in Nat /\ c % e = b % e
    <3> DEFINE q == b \div e
               r == b % e
    <3>1. q \in Nat /\ r \in 0 .. e - 1 /\ b = q * e + r
      BY <2>1, Quotients
    <3> HIDE DEF q, r
    <3>2. (q + 1) * e + r = b + e /\ q + 1 \in Nat
      BY <2>1, <3>1
    <3>3. ((q + 1) * e + r) % e = r
      BY <2>1, <3>1, <3>2, QuotientIs
    <3> QED
      BY <2>1, <3>2, <3>3 DEF r
  <2> HIDE DEF c
  <2>4. (c % e) % m = c % m
    BY <1>0, <2>1, <2>3, RemainderOfRemainder
  <2> QED
    BY <2>2, <2>3, <2>4 DEF LockInd, e, m, c
<1> QED
  BY <1>1, <1>2

\* Moving old buckets into a table that has kept their places free.
LEMMA MovedTable ==
  ASSUME NEW p \in 0 .. MaxHp - 1, NEW from \in Table, NEW into \in Table,
         NEW bs \in SUBSET (0 .. Size(p) - 1),
         \A b \in bs : into[b] = NoEntry /\ into[b + Size(p)] = NoEntry,
         Placed(p + 1, into),
         \A b \in bs, s \in SlotInds : Occupied(from, b, s) => b \in Two(p, from[b][s].key),
         Once(into), Once(from), Apart(into, from)
  PROVE  LET M == MoveBuckets(from, into, p, bs) IN
         /\ M \in Table /\ Placed(p + 1, M) /\ Once(M)
         /\ \A c \in BucketInds : c \notin bs /\ c - Size(p) \notin bs => M[c] = into[c]
         /\ \A b \in bs, s \in SlotInds : Occupied(from, b, s) =>
              \E c \in BucketInds, r \in SlotInds : M[c][r] = from[b][s]
         /\ \A c \in BucketInds, r \in SlotInds : Occupied(M, c, r) =>
              \/ M[c][r] = into[c][r]
              \/ \E b \in bs, s \in SlotInds : Occupied(from, b, s) /\ M[c][r] = from[b][s]
<1> DEFINE M == MoveBuckets(from, into, p, bs)
           e == Size(p)
<1>1. /\ p \in 0 .. MaxHp /\ e \in Nat \ {0}
      /\ \A b \in bs : b \in BucketInds /\ b + e \in BucketInds /\ (b + e) - e = b
      /\ \A b \in BucketInds : b \in Nat
  <2>1. p \in 0 .. MaxHp /\ p + 1 \in 0 .. MaxHp /\ e \in Nat \ {0} /\ Size(p + 1) = 2 * e
    BY Sizes, SizeAssumption
  <2>2. 0 .. e - 1 \subseteq BucketInds /\ 0 .. Size(p + 1) - 1 \subseteq BucketInds
    BY <2>1, BucketIndFacts
  <2>3. bs \subseteq 0 .. e - 1
    OBVIOUS
  <2> HIDE DEF e
  <2>4. \A b \in bs : b \in 0 .. e - 1 /\ b + e \in 0 .. Size(p + 1) - 1 /\ (b + e) - e = b
    BY <2>1, <2>3
  <2> QED
    BY <2>1, <2>2, <2>4, BucketIndFacts
<1>2. \A b \in bs : into[b] = NoEntry /\ into[b + e] = NoEntry
  OBVIOUS
<1> HIDE DEF M
<1> DEFINE up(b, s) == MovesUp(from[b][s].key, b, p)
           to(b, s) == IF up(b, s) THEN b + e ELSE b
           at(b, s) == IF up(b, s) THEN Rank(UpSlots(from, b, p), s) ELSE s
<1>3. /\ M \in Table
      /\ \A c \in BucketInds : c \notin bs /\ c - e \notin bs => M[c] = into[c]
      /\ \A b \in bs, s \in SlotInds : Occupied(from, b, s) =>
           \E r \in SlotInds : M[to(b, s)][r] = from[b][s]
      /\ \A c \in BucketInds, r \in SlotInds : Occupied(M, c, r) =>
           \/ c \notin bs /\ c - e \notin bs /\ M[c][r] = into[c][r]
           \/ \E b \in bs, s \in SlotInds :
                Occupied(from, b, s) /\ M[c][r] = from[b][s] /\ c = to(b, s) /\ r = at(b, s)
  <2>1. /\ M \in Table
        /\ \A c \in BucketInds : c \notin bs /\ c - e \notin bs => M[c] = into[c]
        /\ \A b \in bs, s \in SlotInds : Occupied(from, b, s) =>
             IF up(b, s)
             THEN \E r \in SlotInds : M[b + e][r] = from[b][s]
             ELSE M[b][s] = from[b][s]
        /\ \A c \in BucketInds, r \in SlotInds : Occupied(M, c, r) =>
             \/ c \notin bs /\ c - e \notin bs /\ M[c][r] = into[c][r]
             \/ /\ c \in bs /\ M[c][r] = from[c][r]
                /\ ~up(c, r)
             \/ /\ c - e \in bs
                /\ \E s \in SlotInds :
                     /\ Occupied(from, c - e, s) /\ up(c - e, s)
                     /\ M[c][r] = from[c - e][s]
                     /\ r = Rank(UpSlots(from, c - e, p), s)
    <3> HIDE DEF to, at
    <3> QED
      BY <1>2, MoveFacts DEF M
  <2>2. ASSUME NEW b \in bs, NEW s \in SlotInds, Occupied(from, b, s)
        PROVE  \E r \in SlotInds : M[to(b, s)][r] = from[b][s]
    BY <2>1, <2>2
  <2>3. ASSUME NEW c \in BucketInds, NEW r \in SlotInds, Occupied(M, c, r)
        PROVE  \/ c \notin bs /\ c - e \notin bs /\ M[c][r] = into[c][r]
               \/ \E b \in bs, s \in SlotInds :
                    Occupied(from, b, s) /\ M[c][r] = from[b][s] /\ c = to(b, s) /\ r = at(b, s)
    <3>1. CASE c \notin bs /\ c - e \notin bs /\ M[c][r] = into[c][r]
      BY <3>1
    <3>2. CASE c \in bs /\ M[c][r] = from[c][r] /\ ~up(c, r)
      <4>1. Occupied(from, c, r) /\ c = to(c, r) /\ r = at(c, r)
        BY <2>3, <3>2 DEF Occupied
      <4> QED
        BY <3>2, <4>1
    <3>3. CASE c - e \in bs /\ \E s \in SlotInds :
                     /\ Occupied(from, c - e, s) /\ up(c - e, s)
                     /\ M[c][r] = from[c - e][s]
                     /\ r = Rank(UpSlots(from, c - e, p), s)
      <4> DEFINE b == c - e
      <4>1. PICK s \in SlotInds : /\ Occupied(from, b, s) /\ up(b, s)
                                  /\ M[c][r] = from[b][s]
                                  /\ r = Rank(UpSlots(from, b, p), s)
        BY <3>3
      <4>2. b \in bs /\ c = b + e
        BY <1>1, <3>3
      <4> HIDE DEF b, up
      <4>3. c = to(b, s) /\ r = at(b, s)
        BY <4>1, <4>2
      <4> QED
        BY <4>1, <4>2, <4>3
    <3> QED
      BY <2>1, <2>3, <3>1, <3>2, <3>3
  <2> QED
    BY <2>1, <2>2, <2>3
<1>4. \A b \in bs, s \in SlotInds : Occupied(from, b, s) =>
        to(b, s) \in BucketInds /\ to(b, s) \in Two(p + 1, from[b][s].key)
  <2> SUFFICES ASSUME NEW b \in bs, NEW s \in SlotInds, Occupied(from, b, s)
               PROVE  to(b, s) \in BucketInds /\ to(b, s) \in Two(p + 1, from[b][s].key)
    OBVIOUS
  <2> DEFINE k == from[b][s].key
  <2>1. k \in Keys /\ b \in Two(p, k) /\ b \in BucketInds /\ b + e \in BucketInds
    BY <1>1, EntryFacts
  <2> HIDE DEF k
  <2>2. /\ MovesUp(k, b, p) => b + e \in Two(p + 1, k)
        /\ ~MovesUp(k, b, p) => b \in Two(p + 1, k)
    BY <2>1, MovesUpFacts
  <2> QED
    BY <1>1, <2>1, <2>2 DEF k
<1> HIDE DEF to, at, up
<1>5. Placed(p + 1, M)
  <2> SUFFICES ASSUME NEW c \in BucketInds, NEW r \in SlotInds, Occupied(M, c, r)
               PROVE  c \in Two(p + 1, M[c][r].key)
    BY DEF Placed
  <2>1. CASE M[c][r] = into[c][r]
    BY <2>1 DEF Placed, Occupied
  <2>2. CASE \E b \in bs, s \in SlotInds :
               Occupied(from, b, s) /\ M[c][r] = from[b][s] /\ c = to(b, s) /\ r = at(b, s)
    BY <1>4, <2>2
  <2> QED
    BY <1>3, <2>1, <2>2
<1>6. Once(M)
  <2> DEFINE Moved(c, r) == \E b \in bs, s \in SlotInds :
               Occupied(from, b, s) /\ M[c][r] = from[b][s] /\ c = to(b, s) /\ r = at(b, s)
             Kept(c, r) == M[c][r] = into[c][r]
  <2> SUFFICES ASSUME NEW c \in BucketInds, NEW d \in BucketInds,
                      NEW r \in SlotInds, NEW q \in SlotInds,
                      Occupied(M, c, r), Occupied(M, d, q), M[c][r].key = M[d][q].key
               PROVE  c = d /\ r = q
    BY DEF Once
  <2>1. (Kept(c, r) \/ Moved(c, r)) /\ (Kept(d, q) \/ Moved(d, q))
    BY <1>3
  <2>2. CASE Kept(c, r) /\ Kept(d, q)
    BY <2>2 DEF Once, Occupied
  <2>3. CASE Moved(c, r) /\ Moved(d, q)
    <3>1. PICK b \in bs, s \in SlotInds :
            Occupied(from, b, s) /\ M[c][r] = from[b][s] /\ c = to(b, s) /\ r = at(b, s)
      BY <2>3
    <3>2. PICK a \in bs, t \in SlotInds :
            Occupied(from, a, t) /\ M[d][q] = from[a][t] /\ d = to(a, t) /\ q = at(a, t)
      BY <2>3
    <3>3. b = a /\ s = t
      BY <1>1, <3>1, <3>2 DEF Once
    <3> QED
      BY <3>1, <3>2, <3>3
  <2>4. CASE Kept(c, r) /\ Moved(d, q)
    BY <1>1, <2>4 DEF Apart, Occupied
  <2>5. CASE Moved(c, r) /\ Kept(d, q)
    BY <1>1, <2>5 DEF Apart, Occupied
  <2> QED
    BY <2>1, <2>2, <2>3, <2>4, <2>5
<1>7. ASSUME NEW b \in bs, NEW s \in SlotInds, Occupied(from, b, s)
      PROVE  \E c \in BucketInds, r \in SlotInds : M[c][r] = from[b][s]
  BY <1>3, <1>4, <1>7
<1>8. ASSUME NEW c \in BucketInds, NEW r \in SlotInds, Occupied(M, c, r)
      PROVE  \/ M[c][r] = into[c][r]
             \/ \E b \in bs, s \in SlotInds : Occupied(from, b, s) /\ M[c][r] = from[b][s]
  BY <1>3, <1>8
<1> QED
  BY <1>3, <1>5, <1>6, <1>7, <1>8 DEF M

\* What rehash_lock does: the old elements under its locks get their places in
\* the table, and nothing is lost or doubled.
LEMMA Migration ==
  ASSUME Good(hp, buckets, old, late), NEW ls \in SUBSET Locks
  PROVE  /\ Good(hp, AfterMove(ls), OldAfter(ls), late \ ls)
         /\ \A k \in Keys, v \in Vals :
              Stored(AfterMove(ls), k, v) \/ Stored(OldAfter(ls), k, v)
                <=> Stored(buckets, k, v) \/ Stored(old, k, v)
<1>1. CASE ls \cap late = {}
  <2>1. AfterMove(ls) = buckets /\ OldAfter(ls) = old
    BY <1>1 DEF AfterMove, OldAfter
  <2>2. late \ ls = late
    BY <1>1
  <2> QED
    BY <2>1, <2>2
<1>2. CASE ls \cap late # {}
  <2> DEFINE p == hp - 1
             e == Size(p)
             bs == OldUnder(ls)
             tb == AfterMove(ls)
             ol == OldAfter(ls)
             lt == late \ ls
  <2>1. /\ p \in 0 .. MaxHp - 1 /\ p \in 0 .. MaxHp /\ hp \in 0 .. MaxHp /\ p + 1 = hp
        /\ e >= MaxNumLocks /\ e \in Nat \ {0}
        /\ buckets \in Table /\ old \in Table /\ late \subseteq Locks
    <3>1. hp \in 0 .. MaxHp /\ hp # 0 /\ e >= MaxNumLocks
          /\ buckets \in Table /\ old \in Table /\ late \subseteq Locks
      BY <1>2 DEF Good
    <3>2. p \in 0 .. MaxHp - 1 /\ p \in 0 .. MaxHp /\ p + 1 = hp
      BY <3>1, SizeAssumption
    <3> QED
      BY <3>1, <3>2, Sizes
  <2>2. /\ Placed(hp, buckets) /\ PlacedUnder(p, old, late)
        /\ \A b \in BucketInds : LockInd(b) \in late => buckets[b] = NoEntry
        /\ Once(buckets) /\ Once(old) /\ Apart(buckets, old)
    BY DEF Good
  <2>3. /\ tb = MoveBuckets(old, buckets, p, bs)
        /\ ol = [b \in BucketInds |-> IF b \in bs THEN NoEntry ELSE old[b]]
    BY <1>2 DEF AfterMove, OldAfter
  <2>4. /\ bs \in SUBSET (0 .. e - 1)
        /\ \A b \in 0 .. e - 1 : b \in bs <=> LockInd(b) \in ls /\ LockInd(b) \in late
    BY DEF OldUnder
  <2>5. /\ \A b \in bs : b \in BucketInds /\ b + e \in BucketInds /\ (b + e) - e = b
        /\ \A b \in BucketInds : LockInd(b + e) = LockInd(b) /\ b \in Nat
    <3>1. 0 .. e - 1 \subseteq BucketInds /\ 0 .. Size(hp) - 1 \subseteq BucketInds /\ Size(hp) = 2 * e
      <4>1. Size(p + 1) = 2 * e
        BY <2>1, Sizes
      <4> QED
        BY <2>1, <4>1, BucketIndFacts
    <3>2. \A b \in BucketInds : LockInd(b + e) = LockInd(b) /\ b \in Nat
      BY <2>1, BucketIndFacts, LockFacts
    <3> HIDE DEF e, bs, p
    <3>3. \A b \in bs : b \in 0 .. e - 1 /\ b + e \in 0 .. Size(hp) - 1 /\ (b + e) - e = b
      BY <2>1, <2>4, <3>1
    <3> QED
      BY <3>1, <3>2, <3>3
  <2> HIDE DEF e, bs, tb, ol, p
  <2>6. \A b \in bs : buckets[b] = NoEntry /\ buckets[b + e] = NoEntry
    BY <2>2, <2>4, <2>5
  <2>7. /\ tb \in Table /\ Placed(hp, tb) /\ Once(tb)
        /\ \A c \in BucketInds : c \notin bs /\ c - e \notin bs => tb[c] = buckets[c]
        /\ \A b \in bs, s \in SlotInds : Occupied(old, b, s) =>
             \E c \in BucketInds, r \in SlotInds : tb[c][r] = old[b][s]
        /\ \A c \in BucketInds, r \in SlotInds : Occupied(tb, c, r) =>
             \/ tb[c][r] = buckets[c][r]
             \/ \E b \in bs, s \in SlotInds : Occupied(old, b, s) /\ tb[c][r] = old[b][s]
    <3>1. Placed(p + 1, buckets)
      BY <2>1, <2>2
    <3>2. \A b \in bs, s \in SlotInds : Occupied(old, b, s) => b \in Two(p, old[b][s].key)
      BY <2>2, <2>5 DEF PlacedUnder
    <3>3. \A b \in bs : buckets[b] = NoEntry /\ buckets[b + Size(p)] = NoEntry
      BY <2>6 DEF e
    <3>4. bs \in SUBSET (0 .. Size(p) - 1)
      BY <2>4 DEF e
    <3> QED
      BY <2>1, <2>2, <2>3, <3>1, <3>2, <3>3, <3>4, MovedTable DEF e
  <2>8. /\ ol \in Table
        /\ \A b \in BucketInds, s \in SlotInds :
             Occupied(ol, b, s) => b \notin bs /\ ol[b][s] = old[b][s] /\ Occupied(old, b, s)
        /\ \A b \in BucketInds : b \notin bs => ol[b] = old[b]
    <3>1. \A b \in BucketInds : ol[b] = IF b \in bs THEN NoEntry ELSE old[b]
      BY <2>3
    <3>2. ol \in Table
      BY <2>1, <2>3, EmptyFacts DEF Table
    <3> QED
      BY <3>1, <3>2, EmptyFacts DEF Occupied
  <2>9. PlacedUnder(p, ol, lt)
    <3> SUFFICES ASSUME NEW b \in BucketInds, NEW s \in SlotInds, Occupied(ol, b, s)
                 PROVE  LockInd(b) \in lt /\ b \in Two(p, ol[b][s].key)
      BY DEF PlacedUnder
    <3>1. b \notin bs /\ ol[b][s] = old[b][s] /\ Occupied(old, b, s)
      BY <2>8
    <3>2. LockInd(b) \in late /\ b \in Two(p, old[b][s].key) /\ old[b][s].key \in Keys
      BY <2>1, <2>2, <3>1, EntryFacts DEF PlacedUnder
    <3>3. b \in 0 .. e - 1
      BY <2>1, <3>2, FirstFacts DEF e
    <3> QED
      BY <2>4, <3>1, <3>2, <3>3
  <2>10. ASSUME NEW b \in BucketInds, LockInd(b) \in lt PROVE tb[b] = NoEntry
    <3>1. b \notin bs
      BY <2>4, <2>10
    <3>2. b - e \notin bs
      <4> SUFFICES ASSUME b - e \in bs PROVE FALSE
        OBVIOUS
      <4> DEFINE c == b - e
      <4>1. c \in bs /\ b = c + e /\ c \in BucketInds
        BY <2>1, <2>5
      <4> HIDE DEF c
      <4>2. LockInd(b) = LockInd(c) /\ LockInd(c) \in ls
        BY <2>4, <2>5, <4>1
      <4> QED
        BY <2>10, <4>2
    <3> QED
      BY <2>2, <2>7, <2>10, <3>1, <3>2
  <2>11. Once(ol)
    BY <2>2, <2>8 DEF Once
  <2>12. Apart(tb, ol)
    <3> SUFFICES ASSUME NEW c \in BucketInds, NEW d \in BucketInds,
                        NEW r \in SlotInds, NEW q \in SlotInds,
                        Occupied(tb, c, r), Occupied(ol, d, q), tb[c][r].key = ol[d][q].key
                 PROVE  FALSE
      BY DEF Apart
    <3>1. d \notin bs /\ ol[d][q] = old[d][q] /\ Occupied(old, d, q)
      BY <2>8
    <3>2. CASE tb[c][r] = buckets[c][r]
      BY <2>2, <3>1, <3>2 DEF Apart, Occupied
    <3>3. CASE \E b \in bs, s \in SlotInds :
                 Occupied(old, b, s) /\ tb[c][r] = old[b][s]
      BY <2>2, <2>5, <3>1, <3>3 DEF Once
    <3> QED
      BY <2>7, <3>2, <3>3
  <2>13. Good(hp, tb, ol, lt)
    <3>1. lt \subseteq Locks /\ (lt # {} => hp # 0 /\ Size(hp - 1) >= MaxNumLocks)
      BY <2>1 DEF e, p
    <3> QED
      BY <2>1, <2>7, <2>8, <2>9, <2>10, <2>11, <2>12, <3>1 DEF Good, p
  <2>14. ASSUME NEW k \in Keys, NEW v \in Vals
         PROVE  Stored(tb, k, v) \/ Stored(ol, k, v) <=> Stored(buckets, k, v) \/ Stored(old, k, v)
    <3> DEFINE x == [key |-> k, val |-> v]
    <3>0. x \in Entries /\ x # None
      BY NoneAssumption DEF Entries
    <3> HIDE DEF x
    <3>1. ASSUME NEW c \in BucketInds, NEW r \in SlotInds, tb[c][r] = x
          PROVE  Stored(buckets, k, v) \/ Stored(old, k, v)
      BY <2>5, <2>7, <3>0, <3>1 DEF Stored, Occupied, x
    <3>2. ASSUME NEW c \in BucketInds, NEW r \in SlotInds, ol[c][r] = x
          PROVE  Stored(old, k, v)
      BY <2>8, <3>0, <3>2 DEF Stored, Occupied, x
    <3>3. ASSUME NEW c \in BucketInds, NEW r \in SlotInds, buckets[c][r] = x
          PROVE  Stored(tb, k, v)
      <4>1. c \notin bs /\ c - e \notin bs
        <5>1. buckets[c] # NoEntry
          BY <3>0, <3>3, EmptyFacts
        <5>2. c - e \in bs => (c - e) + e = c
          BY <2>1, <2>5
        <5> QED
          BY <2>6, <5>1, <5>2
      <4> QED
        BY <2>7, <3>3, <4>1 DEF Stored, x
    <3>4. ASSUME NEW c \in BucketInds, NEW r \in SlotInds, old[c][r] = x
          PROVE  Stored(tb, k, v) \/ Stored(ol, k, v)
      <4>1. CASE c \in bs
        <5>1. Occupied(old, c, r)
          BY <3>0, <3>4 DEF Occupied
        <5>2. \E d \in BucketInds, q \in SlotInds : tb[d][q] = x
          BY <2>7, <3>4, <4>1, <5>1
        <5> QED
          BY <5>2 DEF Stored, x
      <4>2. CASE c \notin bs
        BY <2>8, <3>4, <4>2 DEF Stored, x
      <4> QED
        BY <4>1, <4>2
    <3> QED
      BY <3>1, <3>2, <3>3, <3>4 DEF Stored, x
  <2> QED
    BY <2>13, <2>14 DEF tb, ol
<1> QED
  BY <1>1, <1>2

\* Nothing is left of a key whose two buckets are under migrated locks.
LEMMA NothingLeft ==
  ASSUME NEW p, NEW tb, NEW ol, NEW lt, Good(p, tb, ol, lt),
         NEW k \in Keys, LocksOf(Two(p, k)) \cap lt = {}
  PROVE  \A b \in BucketInds, s \in SlotInds : Occupied(ol, b, s) => ol[b][s].key # k
<1> SUFFICES ASSUME NEW b \in BucketInds, NEW s \in SlotInds, Occupied(ol, b, s), ol[b][s].key = k
             PROVE  FALSE
  OBVIOUS
<1> DEFINE q == p - 1
           e == Size(q)
<1>1. LockInd(b) \in lt /\ b \in Two(q, k)
  BY DEF Good, PlacedUnder
<1>2. p \in 0 .. MaxHp /\ q \in 0 .. MaxHp - 1 /\ q + 1 = p /\ e >= MaxNumLocks
  <2>1. p \in 0 .. MaxHp /\ p # 0 /\ e >= MaxNumLocks
    BY <1>1 DEF Good
  <2> QED
    BY <2>1, SizeAssumption
<1> HIDE DEF q
<1>3. /\ First(p, k) % e = First(q, k) /\ Second(p, k) % e = Second(q, k)
      /\ First(p, k) \in Nat /\ Second(p, k) \in Nat
  BY <1>2, BucketsSplit, FirstFacts, BucketIndFacts
<1>4. LockInd(First(p, k)) = LockInd(First(q, k)) /\ LockInd(Second(p, k)) = LockInd(Second(q, k))
  <2>1. q \in 0 .. MaxHp
    BY <1>2, SizeAssumption
  <2> QED
    BY <1>2, <1>3, <2>1, LockFacts
<1>5. LockInd(b) \in LocksOf(Two(p, k))
  BY <1>1, <1>4 DEF Two, LocksOf
<1> QED
  BY <1>1, <1>5

\* A key that is in neither of its buckets is not in the table.
LEMMA NotThere ==
  ASSUME NEW tb \in Table, Placed(hp, tb), NEW k \in Keys, Positions(tb, k) = {}
  PROVE  \A b \in BucketInds, s \in SlotInds : Occupied(tb, b, s) => tb[b][s].key # k
<1> SUFFICES ASSUME NEW b \in BucketInds, NEW s \in SlotInds, Occupied(tb, b, s), tb[b][s].key = k
             PROVE  FALSE
  OBVIOUS
<1>1. b \in Own(k)
  BY DEF Placed, Two, Own
<1>2. <<b, s>> \in Positions(tb, k)
  BY <1>1 DEF Positions
<1> QED
  BY <1>2

LEMMA PositionFacts ==
  ASSUME NEW tb, NEW k, NEW x \in Positions(tb, k)
  PROVE  /\ x = <<x[1], x[2]>> /\ x[1] \in Own(k) /\ x[2] \in SlotInds
         /\ Occupied(tb, x[1], x[2]) /\ tb[x[1]][x[2]].key = k
BY DEF Positions

-----------------------------------------------------------------------------
(* Single changes of a table.                                              *)

LEMMA PutFacts ==
  ASSUME NEW tb \in Table, NEW b \in BucketInds, NEW s \in SlotInds, NEW x \in Entries \cup {None}
  PROVE  /\ Put(tb, b, s, x) \in Table
         /\ \A c \in BucketInds, r \in SlotInds :
              Put(tb, b, s, x)[c][r] = IF c = b /\ r = s THEN x ELSE tb[c][r]
         /\ \A c \in BucketInds : c # b => Put(tb, b, s, x)[c] = tb[c]
<1> DEFINE n == Put(tb, b, s, x)
<1>1. n = [tb EXCEPT ![b] = [tb[b] EXCEPT ![s] = x]]
  BY DEF Put
<1>2. \A c \in BucketInds : tb[c] \in [SlotInds -> Entries \cup {None}]
  BY DEF Table
<1> DEFINE row == [tb[b] EXCEPT ![s] = x]
<1>3. row \in [SlotInds -> Entries \cup {None}] /\ row[s] = x
      /\ \A r \in SlotInds : r # s => row[r] = tb[b][r]
  BY <1>2
<1> HIDE DEF row
<1>4. n \in Table /\ n[b] = row /\ \A c \in BucketInds : c # b => n[c] = tb[c]
  BY <1>1, <1>3 DEF Table, row
<1> HIDE DEF n
<1>5. \A c \in BucketInds, r \in SlotInds : n[c][r] = IF c = b /\ r = s THEN x ELSE tb[c][r]
  BY <1>3, <1>4
<1> QED
  BY <1>4, <1>5 DEF n

\* Removing an element.
LEMMA RemoveGood ==
  ASSUME NEW p, NEW tb, NEW ol, NEW lt, Good(p, tb, ol, lt),
         NEW b \in BucketInds, NEW s \in SlotInds
  PROVE  Good(p, Put(tb, b, s, None), ol, lt)
<1> DEFINE n == Put(tb, b, s, None)
<1>1. tb \in Table /\ None \in Entries \cup {None}
  BY DEF Good
<1>2. /\ n \in Table
      /\ \A c \in BucketInds, r \in SlotInds : n[c][r] = IF c = b /\ r = s THEN None ELSE tb[c][r]
      /\ \A c \in BucketInds : c # b => n[c] = tb[c]
  BY <1>1, PutFacts
<1> HIDE DEF n
<1>3. \A c \in BucketInds, r \in SlotInds : Occupied(n, c, r) =>
        Occupied(tb, c, r) /\ n[c][r] = tb[c][r]
  BY <1>2 DEF Occupied
<1>4. Placed(p, n) /\ Once(n) /\ Apart(n, ol)
  BY <1>3 DEF Good, Placed, Once, Apart
<1>5. ASSUME NEW c \in BucketInds, LockInd(c) \in lt PROVE n[c] = NoEntry
  <2>1. tb[c] = NoEntry
    BY <1>5 DEF Good
  <2>2. \A r \in SlotInds : n[c][r] = NoEntry[r]
    BY <1>2, <2>1, EmptyFacts
  <2>3. n[c] \in [SlotInds -> Entries \cup {None}]
    BY <1>2 DEF Table
  <2> QED
    BY <2>2, <2>3, EmptyFacts
<1> QED
  BY <1>2, <1>4, <1>5 DEF Good, n

\* Changing the value of an element.
LEMMA AssignGood ==
  ASSUME NEW p, NEW tb, NEW ol, NEW lt, Good(p, tb, ol, lt),
         NEW b \in BucketInds, NEW s \in SlotInds, Occupied(tb, b, s), NEW v \in Vals
  PROVE  /\ Good(p, [tb EXCEPT ![b][s].val = v], ol, lt)
         /\ [tb EXCEPT ![b][s].val = v] = Put(tb, b, s, [key |-> tb[b][s].key, val |-> v])
<1> DEFINE k == tb[b][s].key
           x == [key |-> k, val |-> v]
           n == Put(tb, b, s, x)
<1>0. tb \in Table
  BY DEF Good
<1>1. k \in Keys /\ tb[b][s] = [key |-> k, val |-> tb[b][s].val]
  BY <1>0, EntryFacts
<1>2. [tb EXCEPT ![b][s].val = v] = n
  <2>1. [tb[b][s] EXCEPT !.val = v] = x
    <3> DEFINE u == tb[b][s].val
               y == tb[b][s]
    <3>1. y = [key |-> k, val |-> u]
      BY <1>1
    <3> HIDE DEF u, y, k
    <3>2. [y EXCEPT !.val = v] = [key |-> k, val |-> v]
      BY <3>1
    <3> QED
      BY <3>2 DEF y
  <2>2. [tb EXCEPT ![b][s].val = v] = [tb EXCEPT ![b] = [tb[b] EXCEPT ![s] = [tb[b][s] EXCEPT !.val = v]]]
    OBVIOUS
  <2> QED
    BY <2>1, <2>2 DEF Put
<1>3. x \in Entries /\ x # None /\ x.key = k
  BY <1>1, NoneAssumption DEF Entries
<1>4. /\ n \in Table
      /\ \A c \in BucketInds, r \in SlotInds : n[c][r] = IF c = b /\ r = s THEN x ELSE tb[c][r]
      /\ \A c \in BucketInds : c # b => n[c] = tb[c]
  <2> HIDE DEF x
  <2> QED
    BY <1>0, <1>3, PutFacts
<1> HIDE DEF n, x
<1>5. \A c \in BucketInds, r \in SlotInds : Occupied(n, c, r) =>
        Occupied(tb, c, r) /\ n[c][r].key = tb[c][r].key
  BY <1>3, <1>4 DEF Occupied
<1>6. Placed(p, n) /\ Once(n) /\ Apart(n, ol)
  BY <1>5 DEF Good, Placed, Once, Apart
<1>7. ASSUME NEW c \in BucketInds, LockInd(c) \in lt PROVE n[c] = NoEntry
  <2>1. tb[c] = NoEntry
    BY <1>7 DEF Good
  <2>2. c # b
    BY <2>1, EmptyFacts DEF Occupied
  <2> QED
    BY <1>4, <2>1, <2>2
<1>8. Good(p, n, ol, lt)
  BY <1>4, <1>6, <1>7 DEF Good
<1> QED
  BY <1>2, <1>8 DEF n, x

\* Adding an element with a new key, in one of its buckets, under a migrated lock.
LEMMA AddGood ==
  ASSUME NEW p, NEW tb, NEW ol, NEW lt, Good(p, tb, ol, lt),
         NEW k \in Keys, NEW v \in Vals, NEW b \in Two(p, k), NEW s \in SlotInds,
         LockInd(b) \notin lt, tb[b][s] = None,
         \A c \in BucketInds, r \in SlotInds : Occupied(tb, c, r) => tb[c][r].key # k,
         \A c \in BucketInds, r \in SlotInds : Occupied(ol, c, r) => ol[c][r].key # k
  PROVE  b \in BucketInds /\ Good(p, Put(tb, b, s, [key |-> k, val |-> v]), ol, lt)
<1> DEFINE x == [key |-> k, val |-> v]
           n == Put(tb, b, s, x)
<1>1. tb \in Table /\ b \in BucketInds /\ x \in Entries /\ x # None /\ x.key = k
  BY FirstFacts, NoneAssumption DEF Good, Entries
<1> HIDE DEF x
<1>2. /\ n \in Table
      /\ \A c \in BucketInds, r \in SlotInds : n[c][r] = IF c = b /\ r = s THEN x ELSE tb[c][r]
      /\ \A c \in BucketInds : c # b => n[c] = tb[c]
  BY <1>1, PutFacts
<1> HIDE DEF n
<1>3. \A c \in BucketInds, r \in SlotInds : Occupied(n, c, r) =>
        \/ c = b /\ r = s /\ n[c][r].key = k
        \/ Occupied(tb, c, r) /\ n[c][r] = tb[c][r] /\ n[c][r].key # k
  BY <1>1, <1>2 DEF Occupied
<1>4. Placed(p, n)
  BY <1>3 DEF Good, Placed
<1>5. Once(n)
  <2>1. Once(tb)
    BY DEF Good
  <2> QED
    BY <1>3, <2>1 DEF Once
<1>6. Apart(n, ol)
  <2>1. Apart(tb, ol)
    BY DEF Good
  <2> QED
    BY <1>3, <2>1 DEF Apart
<1>7. ASSUME NEW c \in BucketInds, LockInd(c) \in lt PROVE n[c] = NoEntry
  BY <1>2, <1>7 DEF Good
<1>8. Good(p, n, ol, lt)
  BY <1>2, <1>4, <1>5, <1>6, <1>7 DEF Good
<1> QED
  BY <1>1, <1>8 DEF n, x

\* Displacing an element to the other bucket of its key.
LEMMA DisplaceGood ==
  ASSUME NEW p, NEW tb, NEW ol, NEW lt, Good(p, tb, ol, lt),
         NEW from, NEW to,
         from.bucket \in BucketInds, from.slot \in SlotInds,
         to.bucket \in BucketInds, to.slot \in SlotInds,
         LockInd(to.bucket) \notin lt,
         StillValid(tb, from, to),
         to.bucket \in Two(p, tb[from.bucket][from.slot].key)
  PROVE  /\ Good(p, Displaced(tb, from, to), ol, lt)
         /\ Displaced(tb, from, to)[from.bucket][from.slot] = None
         /\ \A k \in Keys, v \in Vals : Stored(Displaced(tb, from, to), k, v) <=> Stored(tb, k, v)
<1> DEFINE b == from.bucket
           s == from.slot
           c == to.bucket
           r == to.slot
           x == tb[b][s]
           m == Put(tb, c, r, x)
           n == Put(m, b, s, None)
<1>0. /\ tb \in Table /\ b \in BucketInds /\ s \in SlotInds /\ c \in BucketInds /\ r \in SlotInds
      /\ x # None /\ tb[c][r] = None /\ c \in Two(p, x.key) /\ LockInd(c) \notin lt
      /\ Displaced(tb, from, to) = n
  BY DEF Good, StillValid, Occupied, Displaced
<1>1. x \in Entries /\ ~(b = c /\ s = r)
  BY ZenonT(60), <1>0, EntryFacts DEF Occupied
<1> HIDE DEF b, s, c, r, x
<1>2. /\ m \in Table
      /\ \A d \in BucketInds, q \in SlotInds : m[d][q] = IF d = c /\ q = r THEN x ELSE tb[d][q]
      /\ \A d \in BucketInds : d # c => m[d] = tb[d]
  <2>1. x \in Entries \cup {None} /\ tb \in Table /\ c \in BucketInds /\ r \in SlotInds
    BY <1>0, <1>1
  <2> QED
    BY <2>1, PutFacts
<1> HIDE DEF m
<1>3. /\ n \in Table
      /\ \A d \in BucketInds, q \in SlotInds : n[d][q] = IF d = b /\ q = s THEN None ELSE m[d][q]
      /\ \A d \in BucketInds : d # b => n[d] = m[d]
  BY <1>0, <1>2, PutFacts
<1> HIDE DEF n
<1>4. \A d \in BucketInds, q \in SlotInds :
        n[d][q] = IF d = b /\ q = s THEN None ELSE IF d = c /\ q = r THEN x ELSE tb[d][q]
  BY <1>2, <1>3
<1>5. x = tb[b][s]
  BY DEF x, b, s
<1>6. \A d \in BucketInds, q \in SlotInds : Occupied(n, d, q) =>
        \/ d = c /\ q = r /\ n[d][q] = x
        \/ ~(d = b /\ q = s) /\ Occupied(tb, d, q) /\ n[d][q] = tb[d][q]
  BY <1>4 DEF Occupied
<1>7. Placed(p, n)
  BY <1>0, <1>6 DEF Good, Placed
<1>8. Occupied(tb, b, s)
  BY <1>0, <1>5 DEF Occupied
<1>9. Once(n)
  <2>1. Once(tb)
    BY DEF Good
  <2>2. \A d \in BucketInds, q \in SlotInds :
          ~(d = b /\ q = s) /\ Occupied(tb, d, q) => tb[d][q].key # x.key
    BY <1>0, <1>5, <1>8, <2>1 DEF Once
  <2> QED
    BY <1>6, <2>1, <2>2 DEF Once
<1>10. Apart(n, ol)
  <2>1. Apart(tb, ol)
    BY DEF Good
  <2> QED
    BY <1>0, <1>5, <1>6, <1>8, <2>1 DEF Apart
<1>11. ASSUME NEW d \in BucketInds, LockInd(d) \in lt PROVE n[d] = NoEntry
  <2>1. tb[d] = NoEntry
    BY <1>11 DEF Good
  <2>2. d # c /\ d # b
    BY <1>0, <1>8, <1>11, <2>1, EmptyFacts DEF Occupied
  <2> QED
    BY <1>2, <1>3, <2>1, <2>2
<1>12. Good(p, n, ol, lt)
  BY <1>3, <1>7, <1>9, <1>10, <1>11 DEF Good
<1>13. n[b][s] = None
  BY <1>0, <1>3
<1>14. ASSUME NEW k \in Keys, NEW v \in Vals PROVE Stored(n, k, v) <=> Stored(tb, k, v)
  <2> DEFINE y == [key |-> k, val |-> v]
  <2>0. y # None
    BY NoneAssumption DEF Entries
  <2>1. /\ Stored(n, k, v) <=> \E d \in BucketInds, q \in SlotInds : n[d][q] = y
        /\ Stored(tb, k, v) <=> \E d \in BucketInds, q \in SlotInds : tb[d][q] = y
    BY DEF Stored
  <2> HIDE DEF y
  <2>2. ASSUME NEW d \in BucketInds, NEW q \in SlotInds, n[d][q] = y
        PROVE  \E e \in BucketInds, t \in SlotInds : tb[e][t] = y
    BY <1>0, <1>4, <1>5, <2>0, <2>2
  <2>3. ASSUME NEW d \in BucketInds, NEW q \in SlotInds, tb[d][q] = y
        PROVE  \E e \in BucketInds, t \in SlotInds : n[e][t] = y
    <3>1. CASE d = b /\ q = s
      <4>1. n[c][r] = y
        BY <1>0, <1>1, <1>4, <1>5, <2>3, <3>1
      <4> QED
        BY <1>0, <4>1
    <3>2. CASE ~(d = b /\ q = s)
      <4>1. n[d][q] = y
        BY <1>0, <1>4, <2>0, <2>3, <3>2
      <4> QED
        BY <4>1
    <3> QED
      BY <3>1, <3>2
  <2> QED
    BY <2>1, <2>2, <2>3
<1> QED
  BY <1>0, <1>12, <1>13, <1>14 DEF b, s

-----------------------------------------------------------------------------
(* Sums over a finite set, as MapThenSumSet adds them up: an element at a  *)
(* time.                                                                   *)

Some(s) == CHOOSE x \in s : TRUE
AddSome(g, c, s) == IF s = {} THEN 0 ELSE c[Some(s)] + g[s \ {Some(s)}]
Sums(g, c, S) == g = [s \in SUBSET S |-> AddSome(g, c, s)]
Adds(g, c, S) == \A s \in SUBSET S : g[s] = AddSome(g, c, s)
Sum(c, S) == (CHOOSE g : Sums(g, c, S))[S]

\* What holds of the empty set, and of a set if it holds of the set without
\* one element, holds of all subsets.
LEMMA SubsetInduction ==
  ASSUME NEW S, IsFiniteSet(S), NEW G, {} \in G,
         \A s \in SUBSET S : s # {} /\ s \ {Some(s)} \in G => s \in G
  PROVE  SUBSET S \subseteq G
<1>1. \A s \in SUBSET S : /\ IsFiniteSet(s) /\ Cardinality(s) \in Nat
                          /\ s # {} => Some(s) \in s
                          /\ s # {} => Cardinality(s \ {Some(s)}) = Cardinality(s) - 1
                          /\ s = {} => Cardinality(s) = 0
  <2> SUFFICES ASSUME NEW s \in SUBSET S
               PROVE  /\ IsFiniteSet(s) /\ Cardinality(s) \in Nat
                      /\ s # {} => Some(s) \in s
                      /\ s # {} => Cardinality(s \ {Some(s)}) = Cardinality(s) - 1
                      /\ s = {} => Cardinality(s) = 0
    OBVIOUS
  <2>1. IsFiniteSet(s) /\ Cardinality(s) \in Nat
    BY FS_Subset, FS_CardinalityType
  <2>2. s # {} => Some(s) \in s
    BY DEF Some
  <2> QED
    BY <2>1, <2>2, FS_RemoveElement, FS_EmptySet
<1> DEFINE bad == {s \in SUBSET S : s \notin G}
           T == {Cardinality(s) : s \in bad}
<1> SUFFICES ASSUME bad # {} PROVE FALSE
  OBVIOUS
<1>2. T \subseteq Nat /\ T # {}
  <2>1. ASSUME NEW x \in T PROVE x \in Nat
    <3>1. PICK s \in bad : x = Cardinality(s)
      BY <2>1
    <3> QED
      BY <1>1, <3>1
  <2>2. PICK s \in bad : TRUE
    OBVIOUS
  <2>3. Cardinality(s) \in T
    BY <2>2
  <2> QED
    BY <2>1, <2>3
<1> HIDE DEF T
<1>3. PICK n \in T : \A m \in T : n <= m
  BY <1>2, LeastElement
<1>4. PICK s \in bad : n = Cardinality(s)
  BY <1>3 DEF T
<1>5. s # {}
  BY <1>4
<1>6. s \ {Some(s)} \in bad
  BY <1>4, <1>5
<1>7. Cardinality(s \ {Some(s)}) \in T
  BY <1>6 DEF T
<1> QED
  BY <1>1, <1>3, <1>4, <1>5, <1>7

\* There is one such sum.
LEMMA SumExists ==
  ASSUME NEW S, IsFiniteSet(S), NEW c
  PROVE  \E g : Sums(g, c, S)
<1> DEFINE Small(n) == {s \in SUBSET S : Cardinality(s) <= n}
           T == {n \in Nat : ~\E g : g = [s \in Small(n) |-> AddSome(g, c, s)]}
<1>1. \A s \in SUBSET S : /\ IsFiniteSet(s) /\ Cardinality(s) \in Nat
                          /\ Cardinality(s) <= Cardinality(S)
                          /\ s # {} => Cardinality(s \ {Some(s)}) = Cardinality(s) - 1
                          /\ Cardinality(s) = 0 => s = {}
                          /\ s \ {Some(s)} \in SUBSET S
  <2> SUFFICES ASSUME NEW s \in SUBSET S
               PROVE  /\ IsFiniteSet(s) /\ Cardinality(s) \in Nat
                      /\ Cardinality(s) <= Cardinality(S)
                      /\ s # {} => Cardinality(s \ {Some(s)}) = Cardinality(s) - 1
                      /\ Cardinality(s) = 0 => s = {}
                      /\ s \ {Some(s)} \in SUBSET S
    OBVIOUS
  <2>1. IsFiniteSet(s) /\ Cardinality(s) \in Nat /\ Cardinality(s) <= Cardinality(S)
    BY FS_Subset, FS_CardinalityType
  <2>2. s # {} => Some(s) \in s
    BY DEF Some
  <2> QED
    BY <2>1, <2>2, FS_RemoveElement, FS_EmptySet
<1>2. T = {}
  <2> SUFFICES ASSUME T # {} PROVE FALSE
    OBVIOUS
  <2>1. PICK n \in T : \A m \in T : n <= m
    <3>1. T \subseteq Nat
      OBVIOUS
    <3> HIDE DEF T
    <3> QED
      BY <3>1, LeastElement
  <2>2. CASE n = 0
    <3> DEFINE g == [s \in Small(0) |-> 0]
    <3>1. ASSUME NEW s \in Small(0) PROVE s = {}
      <4>1. s \in SUBSET S /\ Cardinality(s) <= 0
        BY <3>1
      <4> HIDE DEF Small, T
      <4>2. Cardinality(s) \in Nat
        BY <1>1, <4>1
      <4>3. Cardinality(s) = 0
        BY <4>1, <4>2
      <4> QED
        BY <1>1, <4>1, <4>3
    <3>2. \A s \in Small(0) : AddSome(g, c, s) = 0
      BY <3>1 DEF AddSome
    <3>3. g = [s \in Small(0) |-> AddSome(g, c, s)]
      BY <3>2
    <3> HIDE DEF g
    <3> QED
      BY <2>1, <2>2, <3>3
  <2>3. CASE n # 0
    <3> DEFINE m == n - 1
    <3>1. m \in Nat /\ n = m + 1 /\ m \notin T
      <4>1. n \in Nat /\ m \in Nat /\ n = m + 1 /\ ~(n <= m)
        BY <2>3
      <4> HIDE DEF T, m
      <4> QED
        BY <2>1, <4>1
    <3>2. PICK g : g = [s \in Small(m) |-> AddSome(g, c, s)]
      BY <3>1
    <3> DEFINE h == [s \in Small(n) |-> AddSome(g, c, s)]
    <3>3. \A s \in Small(n) : s # {} => s \ {Some(s)} \in Small(m)
      BY <1>1, <3>1
    <3>4. ASSUME NEW s \in Small(m) PROVE s \in Small(n)
      <4>1. s \in SUBSET S /\ Cardinality(s) <= m /\ Cardinality(s) \in Nat
        BY <1>1
      <4> HIDE DEF m
      <4> QED
        BY <3>1, <4>1
    <3>5. \A s \in Small(m) : h[s] = g[s]
      BY <3>2, <3>4
    <3> HIDE DEF Small, m
    <3>6. \A s \in Small(n) : AddSome(h, c, s) = AddSome(g, c, s)
      <4> HIDE DEF h
      <4>1. \A s \in Small(n) : s # {} => h[s \ {Some(s)}] = g[s \ {Some(s)}]
        BY <3>3, <3>5
      <4> QED
        BY <4>1 DEF AddSome
    <3>7. h = [s \in Small(n) |-> AddSome(h, c, s)]
      BY <3>6
    <3> HIDE DEF h
    <3> QED
      BY <2>1, <3>7 DEF Small
  <2> QED
    BY <2>2, <2>3
<1>3. Cardinality(S) \in Nat
  BY FS_CardinalityType
<1> HIDE DEF Small
<1>4. PICK g : g = [s \in Small(Cardinality(S)) |-> AddSome(g, c, s)]
  BY <1>2, <1>3
<1>5. Small(Cardinality(S)) = SUBSET S
  BY <1>1 DEF Small
<1> QED
  BY <1>4, <1>5 DEF Sums

LEMMA SumsOf ==
  ASSUME NEW S, IsFiniteSet(S), NEW c
  PROVE  \E g : Sum(c, S) = g[S] /\ Adds(g, c, S)
<1> DEFINE g == CHOOSE g : Sums(g, c, S)
<1>1. Sums(g, c, S)
  BY SumExists
<1>2. Sum(c, S) = g[S]
  BY DEF Sum
<1> HIDE DEF g
<1>3. Adds(g, c, S)
  BY <1>1 DEF Sums, Adds
<1> QED
  BY <1>2, <1>3

\* A sum of zeros is zero; a sum grows with any of its terms.
LEMMA SumOfZeros ==
  ASSUME NEW S, IsFiniteSet(S), NEW c, \A x \in S : c[x] = 0
  PROVE  Sum(c, S) = 0
<1>1. PICK g : Sum(c, S) = g[S] /\ Adds(g, c, S)
  BY SumsOf
<1> DEFINE G == {s \in SUBSET S : g[s] = 0}
<1>0. \A s \in SUBSET S : g[s] = IF s = {} THEN 0 ELSE c[Some(s)] + g[s \ {Some(s)}]
  BY <1>1 DEF Adds, AddSome
<1>2. {} \in G
  <2>1. {} \in SUBSET S /\ g[{}] = 0
    BY <1>0
  <2> QED
    BY <2>1
<1>3. ASSUME NEW s \in SUBSET S, s # {}, s \ {Some(s)} \in G PROVE s \in G
  <2>1. Some(s) \in s
    BY <1>3 DEF Some
  <2>2. c[Some(s)] = 0 /\ g[s \ {Some(s)}] = 0
    BY <1>3, <2>1
  <2>3. g[s] = c[Some(s)] + g[s \ {Some(s)}]
    BY <1>0, <1>3
  <2> QED
    BY <1>3, <2>2, <2>3
<1> HIDE DEF G
<1>4. SUBSET S \subseteq G
  BY <1>2, <1>3, SubsetInduction
<1> QED
  BY <1>1, <1>4 DEF G

LEMMA SumType ==
  ASSUME NEW S, IsFiniteSet(S), NEW c, \A x \in S : c[x] \in Int
  PROVE  Sum(c, S) \in Int
<1>1. PICK g : Sum(c, S) = g[S] /\ Adds(g, c, S)
  BY SumsOf
<1> DEFINE G == {s \in SUBSET S : g[s] \in Int}
<1>0. \A s \in SUBSET S : g[s] = IF s = {} THEN 0 ELSE c[Some(s)] + g[s \ {Some(s)}]
  BY <1>1 DEF Adds, AddSome
<1>2. {} \in G
  <2>1. {} \in SUBSET S /\ g[{}] = 0
    BY <1>0
  <2> QED
    BY <2>1
<1>3. ASSUME NEW s \in SUBSET S, s # {}, s \ {Some(s)} \in G PROVE s \in G
  <2>1. Some(s) \in s
    BY <1>3 DEF Some
  <2>2. c[Some(s)] \in Int /\ g[s \ {Some(s)}] \in Int
    BY <1>3, <2>1
  <2>3. g[s] = c[Some(s)] + g[s \ {Some(s)}]
    BY <1>0, <1>3
  <2> QED
    BY <1>3, <2>2, <2>3
<1> HIDE DEF G
<1>4. SUBSET S \subseteq G
  BY <1>2, <1>3, SubsetInduction
<1> QED
  BY <1>1, <1>4 DEF G

LEMMA SumAdd ==
  ASSUME NEW S, IsFiniteSet(S), NEW c, \A x \in S : c[x] \in Int,
         NEW l \in S, NEW d \in Int, NEW e,
         \A x \in S : e[x] = IF x = l THEN c[x] + d ELSE c[x]
  PROVE  Sum(e, S) = Sum(c, S) + d
<1>1. PICK g : Sum(c, S) = g[S] /\ Adds(g, c, S)
  BY SumsOf
<1>2. PICK h : Sum(e, S) = h[S] /\ Adds(h, e, S)
  BY SumsOf
<1> DEFINE G == {s \in SUBSET S : g[s] \in Int /\ h[s] = g[s] + (IF l \in s THEN d ELSE 0)}
<1>0. /\ \A s \in SUBSET S : g[s] = IF s = {} THEN 0 ELSE c[Some(s)] + g[s \ {Some(s)}]
      /\ \A s \in SUBSET S : h[s] = IF s = {} THEN 0 ELSE e[Some(s)] + h[s \ {Some(s)}]
  BY <1>1, <1>2 DEF Adds, AddSome
<1>3. {} \in G
  <2>1. {} \in SUBSET S /\ g[{}] = 0 /\ h[{}] = 0
    BY <1>0
  <2> QED
    BY <2>1
<1>4. ASSUME NEW s \in SUBSET S, s # {}, s \ {Some(s)} \in G PROVE s \in G
  <2> DEFINE x == Some(s)
             r == s \ {x}
  <2>1. x \in s /\ x \in S
    BY <1>4 DEF Some
  <2>2. g[r] \in Int /\ h[r] = g[r] + (IF l \in r THEN d ELSE 0)
    BY <1>4
  <2>3. g[s] = c[x] + g[r] /\ h[s] = e[x] + h[r]
    BY <1>0, <1>4
  <2>4. c[x] \in Int /\ e[x] = IF x = l THEN c[x] + d ELSE c[x]
    BY <2>1
  <2>5. (l \in s <=> l \in r \/ l = x) /\ x \notin r
    BY <2>1
  <2> HIDE DEF x, r
  <2>6. g[s] \in Int /\ h[s] = g[s] + (IF l \in s THEN d ELSE 0)
    <3>1. CASE l = x
      BY <2>2, <2>3, <2>4, <2>5, <3>1
    <3>2. CASE l # x
      BY <2>2, <2>3, <2>4, <2>5, <3>2
    <3> QED
      BY <3>1, <3>2
  <2> QED
    BY <2>6
<1> HIDE DEF G
<1>5. SUBSET S \subseteq G
  BY <1>3, <1>4, SubsetInduction
<1> QED
  BY <1>1, <1>2, <1>5 DEF G

\* size() is such a sum.
LEMMA ElementsIs ==
  /\ Elements = Sum(counter, Locks)
  /\ Elements' = Sum(counter', Locks)
BY DEF Elements, MapThenSumSet, MapThenFoldSet, Sum, Sums, AddSome, Some
=============================================================================
