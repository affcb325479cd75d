------------------------- MODULE CuckooTableProofs -------------------------
(***************************************************************************)
(* Proofs about CuckooTable.tla, for any number of threads, keys, values,  *)
(* slots, locks and calls, any hash function and any hashpower: the        *)
(* invariants of the table, and that it implements KeyValueMap.            *)
(***************************************************************************)
EXTENDS CuckooFacts, TLAPS

-----------------------------------------------------------------------------
(* The map a table stands for.                                             *)

\* The table tb and what is left of the old one, ol, hold the map store.
Shows(tb, ol, store) ==
  /\ store \in [Keys -> Vals \cup {None}]
  /\ \A k \in Keys, v \in Vals : Stored(tb, k, v) \/ Stored(ol, k, v) <=> store[k] = v

Represents(p, tb, ol, lt, store) == Good(p, tb, ol, lt) /\ Shows(tb, ol, store)

ValuesOf(tb, k) == {tb[x[1]][x[2]].val : x \in {y \in Taken(tb) : KeyAt(tb, y) = k}}

\* Content, of any two tables.
JointContent(tb, ol) ==
  [k \in Keys |->
     IF ValuesOf(tb, k) \cup ValuesOf(ol, k) = {} THEN None
     ELSE CHOOSE v \in ValuesOf(tb, k) \cup ValuesOf(ol, k) : TRUE]

LEMMA ContentIs ==
  /\ Content = JointContent(buckets, old)
  /\ Content' = JointContent(buckets', old')
BY DEF Content, JointContent, ValuesOf, Taken, KeyAt, Occupied

\* A table holds one map.
LEMMA ShowsOne ==
  ASSUME NEW tb, NEW ol, NEW s1, NEW s2, Shows(tb, ol, s1), Shows(tb, ol, s2)
  PROVE  s1 = s2
<1>1. s1 \in [Keys -> Vals \cup {None}] /\ s2 \in [Keys -> Vals \cup {None}]
  BY DEF Shows
<1>2. ASSUME NEW k \in Keys PROVE s1[k] = s2[k]
  <2>1. \A v \in Vals : s1[k] = v <=> s2[k] = v
    BY DEF Shows
  <2> QED
    BY <1>1, <2>1
<1> QED
  BY <1>1, <1>2

LEMMA ValuesFacts ==
  ASSUME NEW tb \in Table, NEW k \in Keys
  PROVE  /\ ValuesOf(tb, k) \subseteq Vals
         /\ \A v \in Vals : v \in ValuesOf(tb, k) <=> Stored(tb, k, v)
<1>1. ASSUME NEW v \in ValuesOf(tb, k) PROVE v \in Vals /\ Stored(tb, k, v)
  <2>1. PICK x \in Taken(tb) : KeyAt(tb, x) = k /\ v = tb[x[1]][x[2]].val
    BY DEF ValuesOf
  <2>2. x[1] \in BucketInds /\ x[2] \in SlotInds /\ Occupied(tb, x[1], x[2])
    BY DEF Taken
  <2> DEFINE b == x[1]
             s == x[2]
  <2>3. b \in BucketInds /\ s \in SlotInds /\ Occupied(tb, b, s)
        /\ tb[b][s].key = k /\ tb[b][s].val = v
    BY <2>1, <2>2 DEF KeyAt
  <2> HIDE DEF b, s
  <2>4. v \in Vals /\ tb[b][s] = [key |-> k, val |-> v]
    BY <2>3, EntryFacts
  <2> QED
    BY <2>3, <2>4 DEF Stored
<1>2. ASSUME NEW v \in Vals, Stored(tb, k, v) PROVE v \in ValuesOf(tb, k)
  <2>1. PICK b \in BucketInds, s \in SlotInds : tb[b][s] = [key |-> k, val |-> v]
    BY <1>2 DEF Stored
  <2>2. [key |-> k, val |-> v] # None
    BY NoneAssumption DEF Entries
  <2>3. <<b, s>> \in Taken(tb) /\ KeyAt(tb, <<b, s>>) = k /\ tb[<<b, s>>[1]][<<b, s>>[2]].val = v
    BY <2>1, <2>2 DEF Taken, KeyAt, Occupied
  <2> QED
    BY <2>3 DEF ValuesOf
<1> QED
  BY <1>1, <1>2

\* A key has one value.
LEMMA OneValue ==
  ASSUME NEW p, NEW tb, NEW ol, NEW lt, Good(p, tb, ol, lt),
         NEW k \in Keys, NEW v \in Vals, NEW w \in Vals,
         Stored(tb, k, v) \/ Stored(ol, k, v), Stored(tb, k, w) \/ Stored(ol, k, w)
  PROVE  v = w
<1>1. Once(tb) /\ Once(ol) /\ Apart(tb, ol)
  BY DEF Good
<1>2. \A y \in Vals : [key |-> k, val |-> y] # None /\ [key |-> k, val |-> y].key = k
                      /\ [key |-> k, val |-> y].val = y
  BY NoneAssumption DEF Entries
<1>3. ASSUME NEW t1, NEW t2, Stored(t1, k, v), Stored(t2, k, w),
             (t1 = t2 /\ Once(t1)) \/ Apart(t1, t2) \/ Apart(t2, t1)
      PROVE  v = w
  <2>1. PICK b \in BucketInds, s \in SlotInds : t1[b][s] = [key |-> k, val |-> v]
    BY <1>3 DEF Stored
  <2>2. PICK c \in BucketInds, r \in SlotInds : t2[c][r] = [key |-> k, val |-> w]
    BY <1>3 DEF Stored
  <2>3. /\ Occupied(t1, b, s) /\ t1[b][s].key = k /\ t1[b][s].val = v
        /\ Occupied(t2, c, r) /\ t2[c][r].key = k /\ t2[c][r].val = w
    BY <1>2, <2>1, <2>2 DEF Occupied
  <2>4. CASE t1 = t2 /\ Once(t1)
    BY <2>3, <2>4 DEF Once
  <2>5. CASE Apart(t1, t2) \/ Apart(t2, t1)
    BY <2>3, <2>5 DEF Apart
  <2> QED
    BY <1>3, <2>4, <2>5
<1> QED
  BY <1>1, <1>3

LEMMA ContentShows ==
  ASSUME NEW p, NEW tb, NEW ol, NEW lt, Good(p, tb, ol, lt)
  PROVE  Shows(tb, ol, JointContent(tb, ol))
<1> DEFINE found(k) == ValuesOf(tb, k) \cup ValuesOf(ol, k)
           store == JointContent(tb, ol)
<1>1. tb \in Table /\ ol \in Table
  BY DEF Good
<1>2. ASSUME NEW k \in Keys
      PROVE  /\ found(k) \subseteq Vals
             /\ \A v \in Vals : v \in found(k) <=> Stored(tb, k, v) \/ Stored(ol, k, v)
  BY <1>1, ValuesFacts
<1>3. ASSUME NEW k \in Keys
      PROVE  store[k] = IF found(k) = {} THEN None ELSE CHOOSE v \in found(k) : TRUE
  BY DEF JointContent
<1>4. ASSUME NEW k \in Keys
      PROVE  /\ store[k] \in Vals \cup {None}
             /\ \A v \in Vals : Stored(tb, k, v) \/ Stored(ol, k, v) <=> store[k] = v
  <2> HIDE DEF found, store
  <2>1. CASE found(k) = {}
    BY <1>2, <1>3, <2>1, NoneAssumption
  <2>2. CASE found(k) # {}
    <3>1. store[k] \in found(k)
      BY <1>3, <2>2
    <3>2. \A v \in found(k) : v = store[k]
      BY <1>2, <3>1, OneValue
    <3> QED
      BY <1>2, <3>1, <3>2
  <2> QED
    BY <2>1, <2>2
<1>5. store = [k \in Keys |-> store[k]]
  BY DEF JointContent
<1> HIDE DEF store
<1>6. store \in [Keys -> Vals \cup {None}]
  BY <1>4, <1>5
<1> QED
  BY <1>4, <1>6 DEF Shows, store

\* After a step that leaves a good table, Content is the map it shows.
LEMMA ContentAfter ==
  ASSUME NEW p, NEW lt, NEW store, Represents(p, buckets', old', lt, store)
  PROVE  Content' = store
BY ContentIs, ContentShows, ShowsOne DEF Represents

\* The keys that have a value: as many as there are elements.
HeldKeys(store) == {k \in Keys : store[k] # None}
KeysIn(tb) == {KeyAt(tb, x) : x \in Taken(tb)}

LEMMA TakenKeys ==
  ASSUME NEW tb, Once(tb)
  PROVE  /\ IsFiniteSet(KeysIn(tb)) /\ IsFiniteSet(Taken(tb))
         /\ Cardinality(KeysIn(tb)) = Cardinality(Taken(tb))
<1> DEFINE f == [x \in Taken(tb) |-> KeyAt(tb, x)]
<1>1. IsFiniteSet(Taken(tb))
  <2>1. IsFiniteSet(BucketInds) /\ IsFiniteSet(SlotInds)
    <3>1. 0 \in Int /\ Size(MaxHp) - 1 \in Int /\ SlotPerBucket - 1 \in Int
      BY Sizes, SizeAssumption
    <3> QED
      BY <3>1, FS_Interval DEF BucketInds, SlotInds, Size
  <2>2. IsFiniteSet(BucketInds \X SlotInds)
    BY <2>1, FS_Product
  <2>3. Taken(tb) \in SUBSET (BucketInds \X SlotInds)
    BY DEF Taken
  <2> QED
    BY <2>2, <2>3, FS_Subset
<1>2. f \in Surjection(Taken(tb), KeysIn(tb))
  BY DEF Surjection, KeysIn
<1>3. ASSUME NEW x \in Taken(tb), NEW y \in Taken(tb), KeyAt(tb, x) = KeyAt(tb, y)
      PROVE  x = y
  <2>1. \A z \in Taken(tb) :
          /\ z = <<z[1], z[2]>> /\ z[1] \in BucketInds /\ z[2] \in SlotInds
          /\ Occupied(tb, z[1], z[2]) /\ KeyAt(tb, z) = tb[z[1]][z[2]].key
    BY DEF Taken, KeyAt
  <2>2. x[1] = y[1] /\ x[2] = y[2]
    BY <1>3, <2>1 DEF Once
  <2> QED
    BY <2>1, <2>2
<1>4. f \in Injection(Taken(tb), KeysIn(tb))
  BY <1>2, <1>3 DEF Injection, Surjection, IsInjective
<1> HIDE DEF f
<1> QED
  BY <1>1, <1>2, <1>4, FS_Surjection

LEMMA Held ==
  ASSUME NEW p, NEW tb, NEW ol, NEW lt, NEW store, Represents(p, tb, ol, lt, store)
  PROVE  /\ IsFiniteSet(HeldKeys(store))
         /\ Cardinality(HeldKeys(store)) = Cardinality(Taken(tb)) + Cardinality(Taken(ol))
<1>1. /\ tb \in Table /\ ol \in Table /\ Once(tb) /\ Once(ol) /\ Apart(tb, ol)
      /\ store \in [Keys -> Vals \cup {None}]
      /\ \A k \in Keys, v \in Vals : Stored(tb, k, v) \/ Stored(ol, k, v) <=> store[k] = v
  BY DEF Represents, Good, Shows
<1>2. \A t : \A x \in Taken(t) :
        /\ x[1] \in BucketInds /\ x[2] \in SlotInds
        /\ Occupied(t, x[1], x[2]) /\ KeyAt(t, x) = t[x[1]][x[2]].key
  BY DEF Taken, KeyAt
<1>3. ASSUME NEW t \in Table, NEW k
      PROVE  k \in KeysIn(t) <=> k \in Keys /\ \E v \in Vals : Stored(t, k, v)
  <2>1. ASSUME k \in KeysIn(t) PROVE k \in Keys /\ \E v \in Vals : Stored(t, k, v)
    <3>1. PICK x \in Taken(t) : KeyAt(t, x) = k
      BY <2>1 DEF KeysIn
    <3> DEFINE b == x[1]
               s == x[2]
    <3>2. b \in BucketInds /\ s \in SlotInds /\ Occupied(t, b, s) /\ t[b][s].key = k
      BY <1>2, <3>1
    <3> HIDE DEF b, s
    <3>3. k \in Keys /\ t[b][s].val \in Vals /\ t[b][s] = [key |-> k, val |-> t[b][s].val]
      BY <3>2, EntryFacts
    <3> QED
      BY <3>2, <3>3 DEF Stored
  <2>2. ASSUME k \in Keys, NEW v \in Vals, Stored(t, k, v) PROVE k \in KeysIn(t)
    <3>1. PICK b \in BucketInds, s \in SlotInds : t[b][s] = [key |-> k, val |-> v]
      BY <2>2 DEF Stored
    <3>2. [key |-> k, val |-> v] # None
      BY <2>2, NoneAssumption DEF Entries
    <3>3. <<b, s>> \in Taken(t) /\ KeyAt(t, <<b, s>>) = k
      BY <3>1, <3>2 DEF Taken, KeyAt, Occupied
    <3> QED
      BY <3>3 DEF KeysIn
  <2> QED
    BY <2>1, <2>2
<1>4. HeldKeys(store) = KeysIn(tb) \cup KeysIn(ol)
  <2>1. ASSUME NEW k \in Keys PROVE store[k] # None <=> \E v \in Vals : store[k] = v
    BY <1>1, NoneAssumption
  <2>2. ASSUME NEW k \in Keys
        PROVE  (\E v \in Vals : store[k] = v) <=>
                 (\E v \in Vals : Stored(tb, k, v)) \/ (\E v \in Vals : Stored(ol, k, v))
    BY <1>1
  <2>3. ASSUME NEW k
        PROVE  k \in HeldKeys(store) <=> k \in KeysIn(tb) \cup KeysIn(ol)
    BY <1>1, <1>3, <2>1, <2>2 DEF HeldKeys
  <2> QED
    BY <2>3
<1>5. KeysIn(tb) \cap KeysIn(ol) = {}
  <2> SUFFICES ASSUME NEW x \in Taken(tb), NEW y \in Taken(ol), KeyAt(tb, x) = KeyAt(ol, y)
               PROVE  FALSE
    BY DEF KeysIn
  <2> QED
    BY <1>1, <1>2 DEF Apart
<1>6. /\ IsFiniteSet(KeysIn(tb)) /\ Cardinality(KeysIn(tb)) = Cardinality(Taken(tb))
      /\ IsFiniteSet(KeysIn(ol)) /\ Cardinality(KeysIn(ol)) = Cardinality(Taken(ol))
      /\ Cardinality(Taken(tb)) \in Nat /\ Cardinality(Taken(ol)) \in Nat
  BY <1>1, TakenKeys, FS_CardinalityType
<1> QED
  BY <1>4, <1>5, <1>6, FS_Union, FS_EmptySet

-----------------------------------------------------------------------------
(* What the operations do to the map.                                      *)

LEMMA MigrationFits ==
  ASSUME NEW store, Represents(hp, buckets, old, late, store), NEW ls \in SUBSET Locks
  PROVE  Represents(hp, AfterMove(ls), OldAfter(ls), late \ ls, store)
BY Migration DEF Represents, Shows

\* Under the locks of a key its two buckets tell whether it is there.
LEMMA LookUp ==
  ASSUME NEW tb, NEW ol, NEW lt, NEW store, Represents(hp, tb, ol, lt, store),
         NEW k \in Keys, LocksOf(Own(k)) \cap lt = {}
  PROVE  /\ Positions(tb, k) = {} => store[k] = None
         /\ \A x \in Positions(tb, k) :
              /\ tb[x[1]][x[2]] = [key |-> k, val |-> store[k]] /\ store[k] \in Vals
              /\ x[1] \in BucketInds /\ x[2] \in SlotInds /\ store[k] # None
<1>1. /\ tb \in Table /\ ol \in Table /\ Placed(hp, tb) /\ hp \in 0 .. MaxHp
      /\ Own(k) = Two(hp, k) /\ store[k] \in Vals \cup {None}
      /\ \A v \in Vals : Stored(tb, k, v) \/ Stored(ol, k, v) <=> store[k] = v
  BY DEF Represents, Good, Shows, Own, Two
<1>2. \A v \in Vals : ~Stored(ol, k, v)
  <2>1. \A b \in BucketInds, s \in SlotInds : Occupied(ol, b, s) => ol[b][s].key # k
    BY <1>1, NothingLeft DEF Represents
  <2>2. \A v \in Vals : [key |-> k, val |-> v] # None /\ [key |-> k, val |-> v].key = k
    BY NoneAssumption DEF Entries
  <2> QED
    BY <2>1, <2>2 DEF Stored, Occupied
<1>3. ASSUME Positions(tb, k) = {} PROVE store[k] = None
  <2>1. \A b \in BucketInds, s \in SlotInds : Occupied(tb, b, s) => tb[b][s].key # k
    BY <1>1, <1>3, NotThere
  <2>2. \A v \in Vals : [key |-> k, val |-> v] # None /\ [key |-> k, val |-> v].key = k
    BY NoneAssumption DEF Entries
  <2>3. \A v \in Vals : ~Stored(tb, k, v)
    BY <2>1, <2>2 DEF Stored, Occupied
  <2> QED
    BY <1>1, <1>2, <2>3
<1>4. ASSUME NEW x \in Positions(tb, k)
      PROVE  /\ tb[x[1]][x[2]] = [key |-> k, val |-> store[k]] /\ store[k] \in Vals
             /\ x[1] \in BucketInds /\ x[2] \in SlotInds /\ store[k] # None
  <2> DEFINE b == x[1]
             s == x[2]
  <2>1. b \in BucketInds /\ s \in SlotInds /\ Occupied(tb, b, s) /\ tb[b][s].key = k
    <3>1. b \in Own(k) /\ s \in SlotInds /\ Occupied(tb, b, s) /\ tb[b][s].key = k
      BY PositionFacts
    <3> QED
      BY <1>1, <3>1, FirstFacts
  <2> HIDE DEF b, s
  <2>2. tb[b][s] = [key |-> k, val |-> tb[b][s].val] /\ tb[b][s].val \in Vals
    BY <1>1, <2>1, EntryFacts
  <2>3. Stored(tb, k, tb[b][s].val)
    BY <2>1, <2>2 DEF Stored
  <2>4. store[k] = tb[b][s].val
    BY <1>1, <2>2, <2>3
  <2>5. None \notin Vals
    BY NoneAssumption
  <2> QED
    BY <2>1, <2>2, <2>4, <2>5 DEF b, s
<1> QED
  BY <1>3, <1>4

\* A map changes in one key when the table does.
LEMMA ShowsPut ==
  ASSUME NEW tb \in Table, NEW ol \in Table, NEW store, Shows(tb, ol, store),
         NEW k \in Keys, NEW b \in BucketInds, NEW s \in SlotInds, NEW v \in Vals \cup {None},
         Occupied(tb, b, s) => tb[b][s].key = k,
         \A c \in BucketInds, r \in SlotInds :
           Occupied(tb, c, r) /\ tb[c][r].key = k => c = b /\ r = s,
         \A c \in BucketInds, r \in SlotInds : Occupied(ol, c, r) => ol[c][r].key # k,
         NEW x, x = IF v = None THEN None ELSE [key |-> k, val |-> v]
  PROVE  Shows(Put(tb, b, s, x), ol, [store EXCEPT ![k] = v])
<1> DEFINE n == Put(tb, b, s, x)
           new == [store EXCEPT ![k] = v]
<1>0. \A j \in Keys, w \in Vals : /\ [key |-> j, val |-> w] # None
                                  /\ [key |-> j, val |-> w].key = j
                                  /\ [key |-> j, val |-> w].val = w
                                  /\ [key |-> j, val |-> w] \in Entries
  BY NoneAssumption DEF Entries
<1>1. x \in Entries \cup {None} /\ None \notin Vals
  BY <1>0, NoneAssumption
<1>2. \A c \in BucketInds, r \in SlotInds : n[c][r] = IF c = b /\ r = s THEN x ELSE tb[c][r]
  BY <1>1, PutFacts
<1> HIDE DEF n
<1>3. /\ new \in [Keys -> Vals \cup {None}] /\ new[k] = v
      /\ \A j \in Keys : j # k => new[j] = store[j]
  BY DEF Shows
<1> HIDE DEF new
<1>4. ASSUME NEW j \in Keys, NEW w \in Vals
      PROVE  Stored(n, j, w) \/ Stored(ol, j, w) <=> new[j] = w
  <2>1. CASE j = k
    <3>1. ~Stored(ol, k, w)
      BY <1>0 DEF Stored, Occupied
    <3>2. ASSUME Stored(n, k, w) PROVE v = w
      <4>1. PICK c \in BucketInds, r \in SlotInds : n[c][r] = [key |-> k, val |-> w]
        BY <3>2 DEF Stored
      <4>2. c = b /\ r = s
        BY <1>0, <1>2, <4>1 DEF Occupied
      <4> QED
        BY <1>0, <1>1, <1>2, <4>1, <4>2
    <3>3. ASSUME v = w PROVE Stored(n, k, w)
      <4>1. n[b][s] = [key |-> k, val |-> w]
        BY <1>1, <1>2, <3>3
      <4> QED
        BY <4>1 DEF Stored
    <3> QED
      BY <1>3, <2>1, <3>1, <3>2, <3>3
  <2>2. CASE j # k
    <3>1. Stored(n, j, w) <=> Stored(tb, j, w)
      <4>1. \A c \in BucketInds, r \in SlotInds :
              n[c][r] = [key |-> j, val |-> w] <=> tb[c][r] = [key |-> j, val |-> w]
        <5>1. x # [key |-> j, val |-> w]
          BY <1>0, <2>2
        <5>2. tb[b][s] # [key |-> j, val |-> w]
          BY <1>0, <2>2 DEF Occupied
        <5> QED
          BY <1>2, <5>1, <5>2
      <4> QED
        BY <4>1 DEF Stored
    <3> QED
      BY <1>3, <2>2, <3>1 DEF Shows
  <2> QED
    BY <2>1, <2>2
<1> QED
  BY <1>3, <1>4 DEF Shows, n, new

\* Under the locks of a key: its element is removed, changed or added.
LEMMA RemoveFits ==
  ASSUME NEW tb, NEW ol, NEW lt, NEW store, Represents(hp, tb, ol, lt, store),
         NEW k \in Keys, LocksOf(Own(k)) \cap lt = {}, NEW x \in Positions(tb, k)
  PROVE  Represents(hp, Put(tb, x[1], x[2], None), ol, lt, [store EXCEPT ![k] = None])
<1>1. /\ tb \in Table /\ ol \in Table /\ Once(tb) /\ Own(k) = Two(hp, k)
      /\ Good(hp, tb, ol, lt) /\ Shows(tb, ol, store)
  BY DEF Represents, Good, Own, Two
<1> DEFINE b == x[1]
           s == x[2]
<1>2. b \in BucketInds /\ s \in SlotInds /\ Occupied(tb, b, s) /\ tb[b][s].key = k
  <2>1. b \in BucketInds /\ s \in SlotInds
    BY LookUp
  <2>2. Occupied(tb, b, s) /\ tb[b][s].key = k
    BY PositionFacts
  <2> QED
    BY <2>1, <2>2
<1> HIDE DEF b, s
<1>3. Good(hp, Put(tb, b, s, None), ol, lt)
  BY <1>1, <1>2, RemoveGood
<1>4. \A c \in BucketInds, r \in SlotInds : Occupied(ol, c, r) => ol[c][r].key # k
  BY <1>1, NothingLeft
<1>5. \A c \in BucketInds, r \in SlotInds : Occupied(tb, c, r) /\ tb[c][r].key = k => c = b /\ r = s
  BY <1>1, <1>2 DEF Once
<1>6. Shows(Put(tb, b, s, None), ol, [store EXCEPT ![k] = None])
  BY <1>1, <1>2, <1>4, <1>5, ShowsPut
<1> QED
  BY <1>3, <1>6 DEF Represents, b, s

LEMMA AssignFits ==
  ASSUME NEW tb, NEW ol, NEW lt, NEW store, Represents(hp, tb, ol, lt, store),
         NEW k \in Keys, LocksOf(Own(k)) \cap lt = {}, NEW x \in Positions(tb, k), NEW v \in Vals
  PROVE  Represents(hp, [tb EXCEPT ![x[1]][x[2]].val = v], ol, lt, [store EXCEPT ![k] = v])
<1>1. /\ tb \in Table /\ ol \in Table /\ Once(tb) /\ Own(k) = Two(hp, k)
      /\ Good(hp, tb, ol, lt) /\ Shows(tb, ol, store) /\ None \notin Vals
  BY NoneAssumption DEF Represents, Good, Own, Two
<1> DEFINE b == x[1]
           s == x[2]
<1>2. b \in BucketInds /\ s \in SlotInds /\ Occupied(tb, b, s) /\ tb[b][s].key = k
  <2>1. b \in BucketInds /\ s \in SlotInds
    BY LookUp
  <2>2. Occupied(tb, b, s) /\ tb[b][s].key = k
    BY PositionFacts
  <2> QED
    BY <2>1, <2>2
<1> HIDE DEF b, s
<1>3. /\ Good(hp, [tb EXCEPT ![b][s].val = v], ol, lt)
      /\ [tb EXCEPT ![b][s].val = v] = Put(tb, b, s, [key |-> k, val |-> v])
  BY <1>1, <1>2, AssignGood
<1>4. \A c \in BucketInds, r \in SlotInds : Occupied(ol, c, r) => ol[c][r].key # k
  BY <1>1, NothingLeft
<1>5. \A c \in BucketInds, r \in SlotInds : Occupied(tb, c, r) /\ tb[c][r].key = k => c = b /\ r = s
  BY <1>1, <1>2 DEF Once
<1>6. v \in Vals \cup {None} /\ v # None
  BY <1>1
<1>7. Shows(Put(tb, b, s, [key |-> k, val |-> v]), ol, [store EXCEPT ![k] = v])
  BY <1>1, <1>2, <1>4, <1>5, <1>6, ShowsPut
<1> QED
  BY <1>3, <1>7 DEF Represents, b, s

LEMMA AddFits ==
  ASSUME NEW tb, NEW ol, NEW lt, NEW store, Represents(hp, tb, ol, lt, store),
         NEW k \in Keys, LocksOf(Own(k)) \cap lt = {}, Positions(tb, k) = {}, NEW v \in Vals,
         NEW b \in Own(k), NEW s \in SlotInds, ~Occupied(tb, b, s)
  PROVE  /\ b \in BucketInds
         /\ Represents(hp, Put(tb, b, s, [key |-> k, val |-> v]), ol, lt, [store EXCEPT ![k] = v])
<1>1. /\ tb \in Table /\ ol \in Table /\ Placed(hp, tb) /\ b \in Two(hp, k)
      /\ Own(k) = Two(hp, k) /\ hp \in 0 .. MaxHp
      /\ Good(hp, tb, ol, lt) /\ Shows(tb, ol, store) /\ None \notin Vals
  BY NoneAssumption DEF Represents, Good, Own, Two
<1>2. \A c \in BucketInds, r \in SlotInds : Occupied(ol, c, r) => ol[c][r].key # k
  BY <1>1, NothingLeft
<1>3. \A c \in BucketInds, r \in SlotInds : Occupied(tb, c, r) => tb[c][r].key # k
  BY <1>1, NotThere
<1>4. b \in BucketInds /\ LockInd(b) \notin lt /\ tb[b][s] = None
  <2>1. LockInd(b) \in LocksOf(Own(k))
    BY DEF LocksOf
  <2> QED
    BY <1>1, <2>1, FirstFacts DEF Occupied
<1>5. Good(hp, Put(tb, b, s, [key |-> k, val |-> v]), ol, lt)
  BY <1>1, <1>2, <1>3, <1>4, AddGood
<1>6. v \in Vals \cup {None} /\ v # None
  BY <1>1
<1>7. Shows(Put(tb, b, s, [key |-> k, val |-> v]), ol, [store EXCEPT ![k] = v])
  BY <1>1, <1>2, <1>3, <1>4, <1>6, ShowsPut
<1> QED
  BY <1>4, <1>5, <1>7 DEF Represents

\* A displacement changes nothing of the map.
LEMMA DisplaceFits ==
  ASSUME NEW p, NEW tb, NEW ol, NEW lt, NEW store, Represents(p, tb, ol, lt, store),
         NEW from \in PathElements, NEW to \in PathElements, LockInd(to.bucket) \notin lt,
         StillValid(tb, from, to), to.bucket = alt_index(p, from.hv, from.bucket)
  PROVE  /\ Represents(p, Displaced(tb, from, to), ol, lt, store)
         /\ ~Occupied(Displaced(tb, from, to), from.bucket, from.slot)
<1>1. /\ Good(p, tb, ol, lt) /\ p \in 0 .. MaxHp /\ tb \in Table /\ Placed(p, tb)
      /\ from.bucket \in BucketInds /\ from.slot \in SlotInds
      /\ to.bucket \in BucketInds /\ to.slot \in SlotInds
  BY DEF Represents, Good, PathElements
<1> DEFINE b == from.bucket
           k == tb[from.bucket][from.slot].key
<1>2. k \in Keys /\ b \in Two(p, k) /\ to.bucket = alt_index(p, Hash[k], b)
  <2>1. Occupied(tb, from.bucket, from.slot) /\ Hash[k] = from.hv
    BY DEF StillValid
  <2> QED
    BY <1>1, <2>1, EntryFacts DEF Placed
<1> HIDE DEF b, k
<1>3. to.bucket \in Two(p, k)
  BY <1>1, <1>2, OtherBucket
<1>4. to.bucket \in Two(p, tb[from.bucket][from.slot].key)
  BY <1>3 DEF k
<1>5. /\ Good(p, Displaced(tb, from, to), ol, lt)
      /\ Displaced(tb, from, to)[from.bucket][from.slot] = None
      /\ \A j \in Keys, v \in Vals : Stored(Displaced(tb, from, to), j, v) <=> Stored(tb, j, v)
  BY <1>1, <1>4, DisplaceGood
<1> QED
  BY <1>5 DEF Represents, Shows, Occupied

\* What stands for no old table.
LEMMA NoOldTable ==
  ASSUME NEW p \in 0 .. MaxHp, NEW tb \in Table, Placed(p, tb), Once(tb)
  PROVE  Good(p, tb, Empty, {})
<1>1. \A b \in BucketInds, s \in SlotInds : ~Occupied(Empty, b, s)
  BY EmptyFacts DEF Occupied
<1> QED
  BY <1>1, EmptyFacts DEF Good, PlacedUnder, Once, Apart

LEMMA NothingStored ==
  \A k \in Keys, v \in Vals : ~Stored(Empty, k, v)
<1>1. \A k \in Keys, v \in Vals : [key |-> k, val |-> v] # None
  BY NoneAssumption DEF Entries
<1> QED
  BY <1>1, EmptyFacts DEF Stored

LEMMA EmptyFits ==
  ASSUME NEW p \in 0 .. MaxHp
  PROVE  Represents(p, Empty, Empty, {}, [k \in Keys |-> None])
<1>1. \A b \in BucketInds, s \in SlotInds : ~Occupied(Empty, b, s)
  BY EmptyFacts DEF Occupied
<1>2. Good(p, Empty, Empty, {})
  BY <1>1, EmptyFacts, NoOldTable DEF Placed, Once
<1> QED
  BY <1>2, NothingStored, NoneAssumption DEF Represents, Shows

\* Expansion, when nothing is left of an earlier one: all elements are moved at
\* once, or the table becomes the old one.
LEMMA DoubleFits ==
  ASSUME NEW tb, NEW ol, NEW store, Represents(hp, tb, ol, {}, store), hp + 1 <= MaxHp
  PROVE  /\ Represents(hp + 1, MoveBuckets(tb, Empty, hp, 0 .. Size(hp) - 1), Empty, {}, store)
         /\ Size(hp) >= MaxNumLocks => Represents(hp + 1, Empty, tb, Locks, store)
<1>1. /\ Good(hp, tb, ol, {}) /\ Shows(tb, ol, store)
      /\ tb \in Table /\ Placed(hp, tb) /\ Once(tb) /\ hp \in 0 .. MaxHp /\ Size(hp) \in Nat \ {0}
  BY Sizes DEF Represents, Good
<1>2. hp \in 0 .. MaxHp - 1 /\ hp + 1 \in 0 .. MaxHp /\ Size(hp + 1) = 2 * Size(hp)
  BY <1>1, SizeAssumption, Sizes
<1>3. \A k \in Keys, v \in Vals : Stored(tb, k, v) <=> store[k] = v
  <2>1. \A b \in BucketInds, s \in SlotInds : ~Occupied(ol, b, s)
    BY <1>1 DEF Good, PlacedUnder
  <2>2. \A k \in Keys, v \in Vals : [key |-> k, val |-> v] # None
    BY NoneAssumption DEF Entries
  <2>3. \A k \in Keys, v \in Vals : ~Stored(ol, k, v)
    BY <2>1, <2>2 DEF Stored, Occupied
  <2> QED
    BY <1>1, <2>3 DEF Shows
<1>4. \A b \in BucketInds, s \in SlotInds : ~Occupied(Empty, b, s)
  BY EmptyFacts DEF Occupied
<1> DEFINE p == hp
           e == Size(p)
           bs == 0 .. e - 1
           M == MoveBuckets(tb, Empty, p, bs)
<1>5. /\ M \in Table /\ Placed(p + 1, M) /\ Once(M)
      /\ \A b \in bs, s \in SlotInds : Occupied(tb, b, s) =>
           \E c \in BucketInds, r \in SlotInds : M[c][r] = tb[b][s]
      /\ \A c \in BucketInds, r \in SlotInds : Occupied(M, c, r) =>
           \/ M[c][r] = Empty[c][r]
           \/ \E b \in bs, s \in SlotInds : Occupied(tb, b, s) /\ M[c][r] = tb[b][s]
  <2>1. /\ p \in 0 .. MaxHp - 1 /\ tb \in Table /\ Empty \in Table /\ bs \in SUBSET (0 .. e - 1)
        /\ e \in Nat \ {0}
    BY <1>1, <1>2, EmptyFacts
  <2>2. \A b \in bs : b \in BucketInds /\ b + e \in BucketInds
    <3>1. bs \subseteq 0 .. Size(p + 1) - 1 /\ \A b \in bs : b + e \in 0 .. Size(p + 1) - 1
      BY <1>1, <1>2
    <3> QED
      BY <1>2, <3>1, BucketIndFacts
  <2>3. \A b \in bs : Empty[b] = NoEntry /\ Empty[b + e] = NoEntry
    BY <2>2, EmptyFacts
  <2>4. Placed(p + 1, Empty) /\ Once(Empty) /\ Apart(Empty, tb)
    BY <1>4 DEF Placed, Once, Apart
  <2>5. \A b \in bs, s \in SlotInds : Occupied(tb, b, s) => b \in Two(p, tb[b][s].key)
    BY <1>1, <2>2 DEF Placed
  <2> HIDE DEF p, e, bs
  <2>6. bs \in SUBSET (0 .. Size(p) - 1) /\ \A b \in bs : Empty[b] = NoEntry /\ Empty[b + Size(p)] = NoEntry
    BY <2>1, <2>3 DEF e
  <2>7. Once(tb)
    BY <1>1
  <2> QED
    BY <2>1, <2>4, <2>5, <2>6, <2>7, MovedTable
<1>6. \A b \in BucketInds, s \in SlotInds : Occupied(tb, b, s) => b \in bs
  <2>1. \A b \in BucketInds, s \in SlotInds : Occupied(tb, b, s) => tb[b][s].key \in Keys
    BY <1>1, EntryFacts
  <2>2. \A k \in Keys : Two(p, k) \subseteq 0 .. e - 1
    BY <1>1, FirstFacts
  <2> QED
    BY <1>1, <2>1, <2>2 DEF Placed
<1>7. bs \subseteq BucketInds
  BY <1>1, BucketIndFacts
<1> HIDE DEF M, bs
<1>8. \A k \in Keys, v \in Vals : Stored(M, k, v) <=> Stored(tb, k, v)
  <2> SUFFICES ASSUME NEW k \in Keys, NEW v \in Vals PROVE Stored(M, k, v) <=> Stored(tb, k, v)
    OBVIOUS
  <2>0. [key |-> k, val |-> v] # None
    BY NoneAssumption DEF Entries
  <2>1. ASSUME Stored(M, k, v) PROVE Stored(tb, k, v)
    <3>1. PICK c \in BucketInds, r \in SlotInds : M[c][r] = [key |-> k, val |-> v]
      BY <2>1 DEF Stored
    <3>2. Occupied(M, c, r) /\ M[c][r] # Empty[c][r]
      BY <1>4, <2>0, <3>1 DEF Occupied
    <3>3. PICK b \in bs, s \in SlotInds : Occupied(tb, b, s) /\ M[c][r] = tb[b][s]
      BY <1>5, <3>2
    <3> QED
      BY <1>7, <3>1, <3>3 DEF Stored
  <2>2. ASSUME Stored(tb, k, v) PROVE Stored(M, k, v)
    <3>1. PICK b \in BucketInds, s \in SlotInds : tb[b][s] = [key |-> k, val |-> v]
      BY <2>2 DEF Stored
    <3>2. Occupied(tb, b, s) /\ b \in bs
      BY <1>6, <2>0, <3>1 DEF Occupied
    <3> QED
      BY <1>5, <3>1, <3>2 DEF Stored
  <2> QED
    BY <2>1, <2>2
<1>9. Represents(hp + 1, M, Empty, {}, store)
  <2>1. Good(hp + 1, M, Empty, {})
    BY <1>2, <1>5, NoOldTable
  <2> QED
    BY <1>1, <1>3, <1>8, <2>1, NothingStored DEF Represents, Shows
<1>10. ASSUME Size(hp) >= MaxNumLocks PROVE Represents(hp + 1, Empty, tb, Locks, store)
  <2>1. /\ Placed(hp + 1, Empty) /\ Once(Empty) /\ Apart(Empty, tb) /\ Empty \in Table
        /\ \A b \in BucketInds : Empty[b] = NoEntry
    BY <1>4, EmptyFacts DEF Placed, Once, Apart
  <2>2. PlacedUnder(hp, tb, Locks)
    <3>1. \A b \in BucketInds : LockInd(b) \in Locks
      BY BucketIndFacts, LockFacts
    <3> QED
      BY <1>1, <3>1 DEF Placed, PlacedUnder
  <2>3. (hp + 1) - 1 = hp /\ hp + 1 # 0
    BY <1>1
  <2>4. Good(hp + 1, Empty, tb, Locks)
    BY <1>1, <1>2, <1>10, <2>1, <2>2, <2>3 DEF Good
  <2> QED
    BY <1>1, <1>3, <2>4, NothingStored DEF Represents, Shows
<1> QED
  BY <1>9, <1>10 DEF M, bs

-----------------------------------------------------------------------------
(* The invariant.                                                          *)

QueueItems ==
  {x \in [bucket : BucketInds, root : Nat, slots : Seq(SlotInds)] : Len(x.slots) < MaxPathLen}

\* Where a thread is in its call; the last four are of LockedTable.tla.
MapPcs == {"idle", "start", "sum", "search", "fill", "move"}
Pcs    == MapPcs \cup {"resize", "build", "forward", "backward"}

Locals ==
  [pc : Pcs, hp : 0 .. MaxHp,
   queue : Seq(QueueItems), root : Nat, slots : Seq(SlotInds),
   path : Seq(PathElements), sum : Int]

\* The element of a path was read from a bucket of its hash.
ReadAt(p, e) == \E k \in Keys : e.hv = Hash[k] /\ e.bucket \in Two(p, k)

\* A path begins in a bucket of the key and goes on to the other bucket of each
\* element read.
PathOf(p, path, k) ==
  /\ path # <<>> => path[1].bucket \in Two(p, k)
  /\ \A i \in 1 .. Len(path) - 1 :
       ReadAt(p, path[i]) /\ path[i + 1].bucket = alt_index(p, path[i].hv, path[i].bucket)

\* The local variables m of a thread in the call c.
LocalOK(m, c) ==
  /\ m \in Locals
  /\ m.pc = "idle" <=> c = None
  /\ m.pc = "sum" => c.op = "size"
  /\ m.pc \in {"search", "fill", "move"} => c.op \in Insertions
  /\ Len(m.slots) <= MaxPathLen /\ Len(m.path) <= Len(m.slots)
  /\ m.pc = "search" => m.path = <<>>
  /\ m.pc = "fill" =>
       /\ Len(m.path) < Len(m.slots)
       /\ m.path # <<>> => ReadAt(m.hp, m.path[Len(m.path)])
  /\ m.pc \in {"fill", "move"} => PathOf(m.hp, m.path, c.key)

\* A call of the table.
CallOK(c) ==
  /\ c # None
  /\ c.op \in Insertions \cup {"update"} => c.key \in Keys /\ c.val \in Vals
  /\ c.op \in {"find", "erase"} => c.key \in Keys

\* The counters c add up to the keys that have a value in store.
Counts(c, store) ==
  c \in [Locks -> Int] /\ Sum(c, Locks) = Cardinality(HeldKeys(store))

TInv ==
  /\ Good(hp, buckets, old, late)
  /\ Counts(counter, Content)
  /\ left \in 0 .. MaxCalls
  /\ call = [t \in Threads |-> call[t]]
  /\ ret = [t \in Threads |-> ret[t]]
  /\ my = [t \in Threads |-> my[t]]
  /\ \A t \in Threads : LocalOK(my[t], call[t])
  /\ \A t \in Threads : call[t] # None => CallOK(call[t])

LEMMA CallFacts == \A c \in Workload : CallOK(c)
BY NoneAssumption, WorkloadAssumption DEF CallOK

LEMMA IdleOK ==
  /\ LocalOK(Idle, None)
  /\ \A c : CallOK(c) => LocalOK(Restart, c)
<1>1. /\ Idle \in Locals /\ Restart \in Locals
      /\ Idle.pc = "idle" /\ Restart.pc = "start"
      /\ Len(Idle.slots) = 0 /\ Len(Idle.path) = 0 /\ Len(Restart.slots) = 0 /\ Len(Restart.path) = 0
  <2>1. <<>> \in Seq(QueueItems) /\ <<>> \in Seq(SlotInds) /\ <<>> \in Seq(PathElements)
    OBVIOUS
  <2>2. Idle \in Locals
    BY <2>1, SizeAssumption DEF Idle, Locals, Pcs, MapPcs
  <2>3. Restart \in Locals
    BY <2>2 DEF Restart, Locals, Pcs, MapPcs
  <2> QED
    BY <2>2, <2>3 DEF Restart, Idle
<1>2. 0 <= MaxPathLen
  BY SizeAssumption
<1> QED
  BY <1>1, <1>2 DEF LocalOK, CallOK

LEMMA SearchOK ==
  ASSUME NEW t, NEW p \in 0 .. MaxHp, CallOK(call[t]), Op(t) \in Insertions
  PROVE  LocalOK(Search(t, p), call[t])
<1> DEFINE q == [r \in 1 .. 2 |-> [bucket |-> RootBucket(t, p, r - 1), root |-> r - 1, slots |-> <<>>]]
<1>1. call[t].key \in Keys /\ call[t] # None
  BY DEF CallOK, Op
<1>2. \A r : RootBucket(t, p, r) \in BucketInds
  BY <1>1, FirstFacts DEF RootBucket, Key
<1>3. \A r \in 1 .. 2 : q[r] \in QueueItems
  BY <1>2, SizeAssumption DEF QueueItems
<1>4. q \in Seq(QueueItems)
  BY <1>3
<1> HIDE DEF q
<1>5. /\ Search(t, p) = [Idle EXCEPT !.pc = "search", !.hp = p, !.queue = q]
      /\ Idle \in Locals
  BY IdleOK DEF Search, LocalOK, q
<1>6. Search(t, p) \in Locals
  BY <1>4, <1>5 DEF Locals, Pcs, MapPcs
<1>8. /\ Search(t, p).pc = "search" /\ Search(t, p).path = <<>>
      /\ Len(Search(t, p).slots) = 0 /\ Len(Search(t, p).path) = 0
  BY <1>5 DEF Idle
<1>7. 0 <= MaxPathLen
  BY SizeAssumption
<1> QED
  BY <1>1, <1>6, <1>7, <1>8 DEF LocalOK, Op

\* A step that ends no call: the map is as before.
LEMMA StayStep ==
  ASSUME TInv, NEW t \in Threads, NEW m, Go(t, m), LocalOK(m, call[t]), Stay,
         UNCHANGED counter, Represents(hp', buckets', old', late', Content)
  PROVE  TInv' /\ UNCHANGED KVM!map
<1>1. Content' = Content
  BY ContentAfter
<1>2. UNCHANGED <<call, ret, left>>
  BY DEF Stay
<1>3. my' = [my EXCEPT ![t] = m] /\ my = [u \in Threads |-> my[u]]
  BY DEF Go, TInv
<1>4. my'[t] = m /\ \A u \in Threads : u # t => my'[u] = my[u]
  BY <1>3
<1>5. my' = [u \in Threads |-> my'[u]]
  BY <1>3
<1>6. \A u \in Threads : LocalOK(my'[u], call'[u]) /\ (call'[u] # None => CallOK(call'[u]))
  BY <1>2, <1>4 DEF TInv
<1>7. Good(hp', buckets', old', late')
  BY DEF Represents
<1> QED
  BY <1>1, <1>2, <1>5, <1>6, <1>7 DEF TInv, KVM!map

\* A step that ends a call and leaves the map store.
LEMMA ReturnStep ==
  ASSUME TInv, NEW t \in Threads, NEW result, Return(t, result), NEW store,
         Counts(counter', store), Represents(hp', buckets', old', late', store)
  PROVE  TInv' /\ Content' = store /\ KVM!Return(t, result) /\ ret'[t] = result
<1>1. Content' = store
  BY ContentAfter
<1>2. /\ call' = [call EXCEPT ![t] = None] /\ ret' = [ret EXCEPT ![t] = result]
      /\ my' = [my EXCEPT ![t] = Idle] /\ left' = left
  BY DEF Return, Go
<1>3. /\ call = [u \in Threads |-> call[u]] /\ ret = [u \in Threads |-> ret[u]]
      /\ my = [u \in Threads |-> my[u]] /\ left \in 0 .. MaxCalls
  BY DEF TInv
<1>4. my'[t] = Idle /\ call'[t] = None /\ \A u \in Threads : u # t => my'[u] = my[u] /\ call'[u] = call[u]
  BY <1>2, <1>3
<1>5. /\ call' = [u \in Threads |-> call'[u]]
      /\ ret' = [u \in Threads |-> ret'[u]] /\ ret'[t] = result
      /\ my' = [u \in Threads |-> my'[u]]
  BY <1>2, <1>3
<1>6. \A u \in Threads : LocalOK(my'[u], call'[u]) /\ (call'[u] # None => CallOK(call'[u]))
  BY <1>4, IdleOK, CallFacts DEF TInv
<1>7. Good(hp', buckets', old', late')
  BY DEF Represents
<1> QED
  BY <1>1, <1>2, <1>3, <1>5, <1>6, <1>7 DEF TInv, KVM!Return

-----------------------------------------------------------------------------
(* The steps under one set of locks.                                       *)

LEMMA Locked ==
  ASSUME TInv, NEW ls \in SUBSET Locks
  PROVE  Represents(hp, AfterMove(ls), OldAfter(ls), late \ ls, Content)
<1>1. Represents(hp, buckets, old, late, Content)
  BY ContentIs, ContentShows DEF TInv, Represents
<1> QED
  BY <1>1, MigrationFits

LEMMA Unlocked ==
  ASSUME TInv, NEW ls, NEW tb, Under(ls, tb), NEW store,
         Represents(hp, tb, OldAfter(ls), late \ ls, store)
  PROVE  Represents(hp', buckets', old', late', store)
BY DEF Under, OldAfter

LEMMA LocksOfFacts ==
  /\ \A b \in BucketInds : LockInd(b) \in Locks
  /\ \A bs \in SUBSET BucketInds : LocksOf(bs) \in SUBSET Locks
  /\ TInv => \A k \in Keys : Own(k) \subseteq BucketInds /\ LocksOf(Own(k)) \in SUBSET Locks
<1>1. \A b \in BucketInds : LockInd(b) \in Locks
  BY BucketIndFacts, LockFacts
<1>2. \A bs \in SUBSET BucketInds : LocksOf(bs) \in SUBSET Locks
  BY <1>1 DEF LocksOf
<1>3. ASSUME TInv, NEW k \in Keys PROVE Own(k) \subseteq BucketInds
  BY <1>3, FirstFacts DEF TInv, Good, Own
<1> QED
  BY <1>1, <1>2, <1>3

\* A thread that is in a call.
LEMMA InCall ==
  ASSUME TInv, NEW t \in Threads, ~At(t, "idle")
  PROVE  /\ LocalOK(my[t], call[t]) /\ my[t] \in Locals
         /\ CallOK(call[t]) /\ call[t] # None
         /\ Op(t) \in Insertions \cup {"update"} => Key(t) \in Keys /\ call[t].val \in Vals
         /\ Op(t) \in {"find", "erase"} => Key(t) \in Keys
<1>1. LocalOK(my[t], call[t]) /\ my[t] \in Locals /\ call[t] # None
  BY DEF TInv, At, LocalOK
<1>2. CallOK(call[t])
  BY <1>1 DEF TInv
<1> QED
  BY <1>1, <1>2 DEF CallOK, Op, Key

LEMMA TableNow ==
  ASSUME TInv
  PROVE  /\ Represents(hp, buckets, old, late, Content) /\ Counts(counter, Content)
         /\ IsFiniteSet(HeldKeys(Content)) /\ Cardinality(HeldKeys(Content)) \in Nat
         /\ Content \in [Keys -> Vals \cup {None}]
<1>1. Represents(hp, buckets, old, late, Content)
  BY ContentIs, ContentShows DEF TInv, Represents
<1>2. IsFiniteSet(HeldKeys(Content))
  BY <1>1, Held
<1> QED
  BY <1>1, <1>2, FS_CardinalityType DEF TInv, Represents, Shows

LEMMA CountBy ==
  ASSUME TInv, NEW b \in BucketInds, NEW d \in Int, Count(b, d)
  PROVE  /\ counter' \in [Locks -> Int]
         /\ Sum(counter', Locks) = Cardinality(HeldKeys(Content)) + d
<1> DEFINE l == LockInd(b)
<1>1. /\ counter \in [Locks -> Int] /\ counter' = [counter EXCEPT ![l] = counter[l] + d]
      /\ Sum(counter, Locks) = Cardinality(HeldKeys(Content)) /\ l \in Locks
  BY LocksOfFacts DEF TInv, Counts, Count
<1> HIDE DEF l
<1>2. counter[l] + d \in Int
  BY <1>1
<1>3. counter' \in [Locks -> Int]
  BY <1>1, <1>2
<1>4. \A x \in Locks : counter'[x] = IF x = l THEN counter[x] + d ELSE counter[x]
  BY <1>1
<1>5. IsFiniteSet(Locks)
  BY SizeAssumption, FS_Interval DEF Locks
<1>6. \A x \in Locks : counter[x] \in Int
  BY <1>1
<1>7. Sum(counter', Locks) = Sum(counter, Locks) + d
  <2> DEFINE e == counter'
  <2>1. \A x \in Locks : e[x] = IF x = l THEN counter[x] + d ELSE counter[x]
    BY <1>4
  <2> HIDE DEF e
  <2>2. Sum(e, Locks) = Sum(counter, Locks) + d
    BY SMTT(60), <1>1, <1>5, <1>6, <2>1, SumAdd
  <2> QED
    BY <2>2 DEF e
<1> QED
  BY <1>1, <1>3, <1>7

\* The counters after an element of k was added, taken away or changed.
LEMMA CountAfter ==
  ASSUME TInv, NEW k \in Keys, NEW v
  PROVE  /\ \A b \in BucketInds : Content[k] = None /\ v # None /\ Count(b, 1)
              => Counts(counter', [Content EXCEPT ![k] = v])
         /\ \A b \in BucketInds : Content[k] # None /\ v = None /\ Count(b, -1)
              => Counts(counter', [Content EXCEPT ![k] = v])
         /\ Content[k] # None /\ v # None /\ UNCHANGED counter
              => Counts(counter', [Content EXCEPT ![k] = v])
<1> DEFINE c == Content
           new == [c EXCEPT ![k] = v]
           h == HeldKeys(c)
<1>1. c \in [Keys -> Vals \cup {None}] /\ IsFiniteSet(h) /\ Counts(counter, c)
  BY TableNow
<1>0. /\ \A b \in BucketInds : Count(b, 1) =>
           counter' \in [Locks -> Int] /\ Sum(counter', Locks) = Cardinality(h) + 1
      /\ \A b \in BucketInds : Count(b, -1) =>
           counter' \in [Locks -> Int] /\ Sum(counter', Locks) = Cardinality(h) + -1
  BY CountBy
<1> HIDE DEF c
<1>2. \A j \in Keys : new[j] = IF j = k THEN v ELSE c[j]
  BY <1>1
<1>3. /\ c[k] = None /\ v # None => k \notin h /\ HeldKeys(new) = h \cup {k}
      /\ c[k] # None /\ v = None => k \in h /\ HeldKeys(new) = h \ {k}
      /\ c[k] # None /\ v # None => HeldKeys(new) = h
  <2> HIDE DEF new
  <2> QED
    BY <1>2 DEF HeldKeys
<1> HIDE DEF h, new
<1>4. /\ k \notin h => Cardinality(h \cup {k}) = Cardinality(h) + 1
      /\ k \in h => Cardinality(h \ {k}) = Cardinality(h) - 1
      /\ Cardinality(h) \in Nat
  BY <1>1, FS_AddElement, FS_RemoveElement, FS_CardinalityType
<1>5. ASSUME NEW b \in BucketInds, c[k] = None, v # None, Count(b, 1)
      PROVE  Counts(counter', new)
  BY <1>0, <1>3, <1>4, <1>5 DEF Counts
<1>6. ASSUME NEW b \in BucketInds, c[k] # None, v = None, Count(b, -1)
      PROVE  Counts(counter', new)
  <2>1. Cardinality(h) + -1 = Cardinality(h) - 1
    BY <1>4
  <2> QED
    BY <1>0, <1>3, <1>4, <1>6, <2>1 DEF Counts
<1>7. ASSUME c[k] # None, v # None, UNCHANGED counter
      PROVE  Counts(counter', new)
  BY <1>1, <1>3, <1>7 DEF Counts, h
<1> QED
  BY <1>5, <1>6, <1>7 DEF c, new

LEMMA LookUpUnder ==
  ASSUME NEW ls, NEW tb, Represents(hp, tb, OldAfter(ls), late \ ls, Content),
         NEW k \in Keys, LocksOf(Own(k)) \subseteq ls
  PROVE  /\ Positions(tb, k) = {} => Content[k] = None
         /\ \A x \in Positions(tb, k) : Content[k] # None /\ tb[x[1]][x[2]].val = Content[k]
<1> DEFINE ol == OldAfter(ls)
           lt == late \ ls
           store == Content
<1>1. LocksOf(Own(k)) \cap lt = {} /\ Represents(hp, tb, ol, lt, store)
  OBVIOUS
<1> HIDE DEF ol, lt, store
<1>2. /\ Positions(tb, k) = {} => store[k] = None
      /\ \A x \in Positions(tb, k) :
           tb[x[1]][x[2]] = [key |-> k, val |-> store[k]] /\ store[k] # None
  BY <1>1, LookUp
<1> QED
  BY <1>2 DEF store

\* The abstract operations.
Performs(t) == TInv' /\ KVM!Perform(t)

LEMMA FindStep ==
  ASSUME TInv, NEW t \in Threads, Find(t)
  PROVE  Performs(t)
<1> DEFINE k == Key(t)
           ls == LocksOf(Own(k))
           tb == AfterMove(ls)
<1>1. call[t].op = "find" /\ k = call[t].key /\ call[t] # None /\ k \in Keys
  BY InCall DEF Find, At, Op, Key
<1>2. ls \in SUBSET Locks
  BY <1>1, LocksOfFacts
<1>3. /\ Under(ls, tb)
      /\ \/ Positions(tb, k) = {} /\ Return(t, None)
         \/ \E x \in Positions(tb, k) : Return(t, tb[x[1]][x[2]].val)
      /\ Counts(counter', Content)
  BY DEF Find, TInv
<1> HIDE DEF k
<1>4. Represents(hp, tb, OldAfter(ls), late \ ls, Content) /\ ls \cap (late \ ls) = {}
  BY <1>2, Locked
<1> HIDE DEF tb
<1>5. Represents(hp', buckets', old', late', Content)
  BY <1>3, <1>4, Unlocked
<1>6. Return(t, Content[k])
  BY <1>1, <1>3, <1>4, LookUpUnder
<1>7. TInv' /\ Content' = Content /\ KVM!Return(t, Content[k])
  BY <1>3, <1>5, <1>6, ReturnStep
<1>8. KVM!Find(t, call[t].key)
  BY <1>1, <1>7 DEF KVM!Find
<1> QED
  BY <1>1, <1>7, <1>8 DEF Performs, KVM!Perform

LEMMA UpdateStep ==
  ASSUME TInv, NEW t \in Threads, Update(t)
  PROVE  Performs(t)
<1> DEFINE k == Key(t)
           v == call[t].val
           ls == LocksOf(Own(k))
           tb == AfterMove(ls)
<1>1. call[t].op = "update" /\ k = call[t].key /\ call[t] # None /\ k \in Keys /\ v \in Vals
  BY InCall DEF Update, At, Op, Key
<1>2. ls \in SUBSET Locks
  BY <1>1, LocksOfFacts
<1>3. /\ \/ Positions(tb, k) = {} /\ Under(ls, tb) /\ Return(t, "no")
         \/ \E x \in Positions(tb, k) :
              /\ Under(ls, [tb EXCEPT ![x[1]][x[2]].val = v])
              /\ Return(t, "yes")
      /\ UNCHANGED counter /\ Counts(counter', Content)
  BY DEF Update, TInv
<1> HIDE DEF k, v
<1>4. Represents(hp, tb, OldAfter(ls), late \ ls, Content) /\ ls \cap (late \ ls) = {}
  BY <1>2, Locked
<1> HIDE DEF tb
<1>5. TInv' /\ KVM!Update(t, k, v)
  <2>1. CASE Positions(tb, k) = {} /\ Under(ls, tb) /\ Return(t, "no")
    <3>1. Content[k] = None
      BY <1>1, <1>4, <2>1, LookUpUnder
    <3>2. Represents(hp', buckets', old', late', Content)
      BY <1>4, <2>1, Unlocked
    <3>3. TInv' /\ Content' = Content /\ KVM!Return(t, "no")
      BY <1>3, <2>1, <3>2, ReturnStep
    <3> QED
      BY <3>1, <3>3 DEF KVM!Update, KVM!Present, KVM!YesIf
  <2>2. ASSUME NEW x \in Positions(tb, k), Under(ls, [tb EXCEPT ![x[1]][x[2]].val = v]),
               Return(t, "yes")
        PROVE  TInv' /\ KVM!Update(t, k, v)
    <3>1. Content[k] # None
      BY <1>1, <1>4, LookUpUnder
    <3>2. Represents(hp, [tb EXCEPT ![x[1]][x[2]].val = v], OldAfter(ls), late \ ls,
               [Content EXCEPT ![k] = v])
      BY <1>1, <1>4, AssignFits
    <3>5. Counts(counter', [Content EXCEPT ![k] = v])
      BY <1>1, <1>3, <3>1, CountAfter, NoneAssumption
    <3>3. Represents(hp', buckets', old', late', [Content EXCEPT ![k] = v])
      BY <2>2, <3>2, Unlocked
    <3>4. TInv' /\ Content' = [Content EXCEPT ![k] = v] /\ KVM!Return(t, "yes")
      BY <2>2, <3>3, <3>5, ReturnStep
    <3> QED
      BY <3>1, <3>4 DEF KVM!Update, KVM!Present, KVM!YesIf, KVM!Put
  <2> QED
    BY <1>3, <2>1, <2>2
<1> QED
  BY <1>1, <1>5 DEF Performs, KVM!Perform, v

\* Under the locks of its key: del_from_bucket.
LEMMA DeleteFits ==
  ASSUME TInv, NEW ls, NEW tb, Represents(hp, tb, OldAfter(ls), late \ ls, Content),
         NEW k \in Keys, LocksOf(Own(k)) \subseteq ls, NEW x \in Positions(tb, k),
         Delete(ls, tb, x)
  PROVE  /\ Represents(hp', buckets', old', late', [Content EXCEPT ![k] = None])
         /\ Counts(counter', [Content EXCEPT ![k] = None]) /\ Content[k] # None
<1>1. LocksOf(Own(k)) \cap (late \ ls) = {}
  OBVIOUS
<1>2. Represents(hp, Put(tb, x[1], x[2], None), OldAfter(ls), late \ ls, [Content EXCEPT ![k] = None])
  BY <1>1, RemoveFits
<1>3. Content[k] # None
  BY LookUpUnder
<1>4. x[1] \in BucketInds
  BY <1>1, LookUp
<1>5. Counts(counter', [Content EXCEPT ![k] = None])
  BY <1>3, <1>4, CountAfter DEF Delete
<1> QED
  BY <1>2, <1>3, <1>5, Unlocked DEF Delete

LEMMA EraseStep ==
  ASSUME TInv, NEW t \in Threads, Erase(t)
  PROVE  Performs(t)
<1> DEFINE k == Key(t)
           ls == LocksOf(Own(k))
           tb == AfterMove(ls)
<1>1. call[t].op = "erase" /\ k = call[t].key /\ call[t] # None /\ k \in Keys
  BY InCall DEF Erase, At, Op, Key
<1>2. ls \in SUBSET Locks
  BY <1>1, LocksOfFacts
<1>3. \/ Positions(tb, k) = {} /\ Under(ls, tb) /\ Return(t, "no") /\ Counts(counter', Content)
      \/ \E x \in Positions(tb, k) : Delete(ls, tb, x) /\ Return(t, "yes")
  BY DEF Erase, TInv
<1> HIDE DEF k
<1>4. /\ Represents(hp, tb, OldAfter(ls), late \ ls, Content) /\ ls \cap (late \ ls) = {}
      /\ LocksOf(Own(k)) \subseteq ls /\ LocksOf(Own(k)) \cap (late \ ls) = {}
  BY <1>2, Locked
<1> HIDE DEF tb, ls
<1>5. TInv' /\ KVM!Erase(t, k)
  <2>1. CASE Positions(tb, k) = {} /\ Under(ls, tb) /\ Return(t, "no") /\ Counts(counter', Content)
    <3>1. Content[k] = None
      BY <1>1, <1>4, <2>1, LookUpUnder
    <3>2. Represents(hp', buckets', old', late', Content)
      BY <1>4, <2>1, Unlocked
    <3>3. TInv' /\ Content' = Content /\ KVM!Return(t, "no")
      BY <2>1, <3>2, ReturnStep
    <3>4. Content = [Content EXCEPT ![k] = None]
      <4>1. Content = [j \in Keys |-> Content[j]]
        BY <1>4 DEF Represents, Shows
      <4> QED
        BY <3>1, <4>1
    <3> QED
      BY <3>1, <3>3, <3>4 DEF KVM!Erase, KVM!Present, KVM!YesIf, KVM!Put
  <2>2. ASSUME NEW x \in Positions(tb, k), Delete(ls, tb, x), Return(t, "yes")
        PROVE  TInv' /\ KVM!Erase(t, k)
    <3>1. /\ Represents(hp', buckets', old', late', [Content EXCEPT ![k] = None])
          /\ Counts(counter', [Content EXCEPT ![k] = None]) /\ Content[k] # None
      BY <1>1, <1>4, <2>2, DeleteFits
    <3>2. TInv' /\ Content' = [Content EXCEPT ![k] = None] /\ KVM!Return(t, "yes")
      BY <2>2, <3>1, ReturnStep
    <3> QED
      BY <3>1, <3>2 DEF KVM!Erase, KVM!Present, KVM!YesIf, KVM!Put
  <2> QED
    BY <1>3, <2>1, <2>2
<1> QED
  BY <1>1, <1>5 DEF Performs, KVM!Perform

LEMMA CountNothing ==
  ASSUME NEW c, c = [l \in Locks |-> 0]
  PROVE  Counts(c, [k \in Keys |-> None])
<1>1. c \in [Locks -> Int] /\ \A l \in Locks : c[l] = 0
  OBVIOUS
<1>2. Sum(c, Locks) = 0
  <2>1. IsFiniteSet(Locks)
    BY SizeAssumption, FS_Interval DEF Locks
  <2> QED
    BY <1>1, <2>1, SumOfZeros
<1>3. HeldKeys([k \in Keys |-> None]) = {}
  BY DEF HeldKeys
<1> QED
  BY <1>1, <1>2, <1>3, FS_EmptySet DEF Counts

LEMMA ClearStep ==
  ASSUME TInv, NEW t \in Threads, Clear(t)
  PROVE  Performs(t)
<1>1. call[t].op = "clear" /\ call[t] # None
  BY InCall DEF Clear, At, Op
<1>2. /\ hp' = hp /\ buckets' = Empty /\ old' = Empty /\ late' = {} /\ Return(t, "yes")
      /\ counter' = [l \in Locks |-> 0] /\ hp \in 0 .. MaxHp
  BY DEF Clear, TInv, Good
<1>3. Represents(hp', buckets', old', late', [k \in Keys |-> None])
  BY <1>2, EmptyFits
<1>5. Counts(counter', [k \in Keys |-> None])
  BY <1>2, CountNothing
<1>4. TInv' /\ Content' = [k \in Keys |-> None] /\ KVM!Return(t, "yes")
  BY <1>2, <1>3, <1>5, ReturnStep
<1> QED
  BY <1>1, <1>4 DEF Performs, KVM!Perform, KVM!Clear

LEMMA SameTable ==
  ASSUME TInv, UNCHANGED table
  PROVE  /\ Represents(hp', buckets', old', late', Content)
         /\ UNCHANGED counter /\ Counts(counter', Content)
<1>1. Represents(hp, buckets, old, late, Content)
  BY ContentIs, ContentShows DEF TInv, Represents
<1> QED
  BY <1>1 DEF table, TInv

\* Steps that are invisible.
Hidden == TInv' /\ UNCHANGED KVM!map

LEMMA ReadCounterStep ==
  ASSUME TInv, NEW t \in Threads, ReadCounter(t)
  PROVE  Hidden
<1> DEFINE m == [my[t] EXCEPT !.pc = "sum", !.sum = @ + counter[my[t].root], !.root = @ + 1]
<1>1. /\ At(t, "start") \/ At(t, "sum")
      /\ At(t, "start") => Op(t) = "size"
      /\ Go(t, m) /\ Stay /\ UNCHANGED table
      /\ my[t].root < MaxNumLocks
  BY DEF ReadCounter, At
<1>2. LocalOK(my[t], call[t]) /\ my[t] \in Locals /\ call[t] # None
  BY <1>1, InCall DEF At
<1>3. my[t].root \in Locks
  BY <1>1, <1>2, SizeAssumption DEF Locks, Locals
<1>4. counter[my[t].root] \in Int
  BY <1>3 DEF TInv, Counts
<1>5. m \in Locals /\ m.pc = "sum" /\ m.slots = my[t].slots /\ m.path = my[t].path
  <2> DEFINE d == my[t].sum + counter[my[t].root]
             n == my[t].root + 1
  <2>1. d \in Int /\ n \in Nat
    BY <1>2, <1>4 DEF Locals
  <2>2. m = [my[t] EXCEPT !.pc = "sum", !.sum = d, !.root = n]
    OBVIOUS
  <2> HIDE DEF d, n, m
  <2> QED
    BY <1>2, <2>1, <2>2 DEF Locals, Pcs, MapPcs
<1>6. call[t].op = "size"
  BY <1>1, <1>2 DEF At, Op, LocalOK
<1> HIDE DEF m
<1>7. LocalOK(m, call[t])
  BY <1>2, <1>5, <1>6 DEF LocalOK
<1> QED
  BY <1>1, <1>7, SameTable, StayStep DEF Hidden

LEMMA ReturnSizeStep ==
  ASSUME TInv, NEW t \in Threads, ReturnSize(t)
  PROVE  Performs(t)
<1>1. At(t, "sum") /\ Return(t, my[t].sum) /\ UNCHANGED table
  BY DEF ReturnSize
<1>2. call[t].op = "size" /\ call[t] # None /\ my[t].sum \in Int
  BY <1>1, InCall DEF At, LocalOK, Locals
<1>3. /\ TInv' /\ Content' = Content /\ KVM!Return(t, my[t].sum)
      /\ ret'[t] = my[t].sum
  BY <1>1, SameTable, ReturnStep
<1>4. KVM!Size(t)
  BY <1>2, <1>3 DEF KVM!Size
<1> QED
  BY <1>2, <1>3, <1>4 DEF Performs, KVM!Perform

\* The two ways an insertion ends under the locks of its key.
LEMMA UseExistingStep ==
  ASSUME TInv, NEW t \in Threads, ~At(t, "idle"), Op(t) \in Insertions,
         NEW ls, NEW tb, Represents(hp, tb, OldAfter(ls), late \ ls, Content),
         LocksOf(Own(Key(t))) \subseteq ls,
         NEW x \in Positions(tb, Key(t)), UseExisting(t, ls, tb, x)
  PROVE  Performs(t)
<1> DEFINE k == Key(t)
           v == call[t].val
           o == Op(t)
<1>1. /\ call[t].op = o /\ k = call[t].key /\ call[t] # None /\ k \in Keys /\ v \in Vals
      /\ o \in Insertions
  BY InCall DEF Op, Key
<1>2. Return(t, "no") /\ LocksOf(Own(k)) \subseteq ls /\ x \in Positions(tb, k)
  BY DEF UseExisting
<1>3. /\ o = "insert" => Under(ls, tb) /\ UNCHANGED counter
      /\ o = "insert_or_assign" =>
           Under(ls, [tb EXCEPT ![x[1]][x[2]].val = v]) /\ UNCHANGED counter
      /\ o = "uprase" => Delete(ls, tb, x)
  BY DEF UseExisting
<1> HIDE DEF k, v, o
<1>4. Content[k] # None
  BY <1>1, <1>2, LookUpUnder
<1>5. Counts(counter, Content)
  BY DEF TInv
<1>6. TInv' /\ KVM!Insert(t, o, k, v)
  <2>1. CASE o = "insert"
    <3>1. Represents(hp', buckets', old', late', Content)
      BY <1>3, <2>1, Unlocked
    <3>2. TInv' /\ Content' = Content /\ KVM!Return(t, "no")
      BY <1>2, <1>3, <1>5, <2>1, <3>1, ReturnStep
    <3> QED
      BY <1>4, <2>1, <3>2 DEF KVM!Insert, KVM!Present, KVM!YesIf
  <2>2. CASE o = "insert_or_assign"
    <3>1. LocksOf(Own(k)) \cap (late \ ls) = {}
      BY <1>2
    <3>2. Represents(hp, [tb EXCEPT ![x[1]][x[2]].val = v], OldAfter(ls), late \ ls,
               [Content EXCEPT ![k] = v])
      BY <1>1, <1>2, <3>1, AssignFits
    <3>3. Represents(hp', buckets', old', late', [Content EXCEPT ![k] = v])
      BY <1>3, <2>2, <3>2, Unlocked
    <3>5. Counts(counter', [Content EXCEPT ![k] = v])
      BY <1>1, <1>3, <1>4, <2>2, CountAfter, NoneAssumption
    <3>4. TInv' /\ Content' = [Content EXCEPT ![k] = v] /\ KVM!Return(t, "no")
      BY <1>2, <2>2, <3>3, <3>5, ReturnStep
    <3> QED
      BY <1>4, <2>2, <3>4 DEF KVM!Insert, KVM!Present, KVM!YesIf, KVM!Put
  <2>3. CASE o = "uprase"
    <3>1. /\ Represents(hp', buckets', old', late', [Content EXCEPT ![k] = None])
          /\ Counts(counter', [Content EXCEPT ![k] = None])
      BY <1>1, <1>2, <1>3, <2>3, DeleteFits
    <3>2. TInv' /\ Content' = [Content EXCEPT ![k] = None] /\ KVM!Return(t, "no")
      BY <1>2, <3>1, ReturnStep
    <3> QED
      BY <1>4, <2>3, <3>2 DEF KVM!Insert, KVM!Present, KVM!YesIf, KVM!Put
  <2> QED
    BY <1>1, <2>1, <2>2, <2>3 DEF Insertions
<1>7. KVM!Insertions = Insertions
  BY DEF KVM!Insertions, Insertions
<1> QED
  BY <1>1, <1>6, <1>7 DEF Performs, KVM!Perform, v

LEMMA AddStep ==
  ASSUME TInv, NEW t \in Threads, ~At(t, "idle"), Op(t) \in Insertions,
         NEW ls, NEW tb, Represents(hp, tb, OldAfter(ls), late \ ls, Content),
         LocksOf(Own(Key(t))) \subseteq ls, Positions(tb, Key(t)) = {},
         NEW b \in Own(Key(t)), NEW s \in SlotInds, ~Occupied(tb, b, s),
         Add(t, ls, tb, <<b, s>>)
  PROVE  Performs(t)
<1> DEFINE k == Key(t)
           v == call[t].val
           o == Op(t)
<1>1. /\ call[t].op = o /\ k = call[t].key /\ call[t] # None /\ k \in Keys /\ v \in Vals
      /\ o \in Insertions
  BY InCall DEF Op, Key
<1>2. /\ Return(t, "yes") /\ LocksOf(Own(k)) \subseteq ls /\ Positions(tb, k) = {} /\ b \in Own(k)
      /\ Under(ls, Put(tb, b, s, [key |-> k, val |-> v])) /\ Count(b, 1)
  BY DEF Add
<1> HIDE DEF k, v, o
<1>3. Content[k] = None
  BY <1>1, <1>2, LookUpUnder
<1>4. LocksOf(Own(k)) \cap (late \ ls) = {}
  BY <1>2
<1>5. Represents(hp, Put(tb, b, s, [key |-> k, val |-> v]), OldAfter(ls), late \ ls,
           [Content EXCEPT ![k] = v])
  BY <1>1, <1>2, <1>4, AddFits
<1>6. Represents(hp', buckets', old', late', [Content EXCEPT ![k] = v])
  BY <1>2, <1>5, Unlocked
<1>7. Counts(counter', [Content EXCEPT ![k] = v])
  <2>1. b \in BucketInds /\ v # None
    BY <1>1, <1>2, LocksOfFacts, NoneAssumption
  <2> QED
    BY <1>1, <1>2, <1>3, <2>1, CountAfter
<1>8. TInv' /\ Content' = [Content EXCEPT ![k] = v] /\ KVM!Return(t, "yes")
  BY <1>2, <1>6, <1>7, ReturnStep
<1>9. KVM!Insert(t, o, k, v)
  BY <1>3, <1>8 DEF KVM!Insert, KVM!Present, KVM!YesIf, KVM!Put
<1>10. KVM!Insertions = Insertions
  BY DEF KVM!Insertions, Insertions
<1> QED
  BY <1>1, <1>8, <1>9, <1>10 DEF Performs, KVM!Perform, v

\* A step that goes on with m.
LEMMA GoOn ==
  ASSUME TInv, NEW t \in Threads, NEW ls, NEW tb, Represents(hp, tb, OldAfter(ls), late \ ls, Content),
         Under(ls, tb), NEW m, Go(t, m), LocalOK(m, call[t]), Stay, UNCHANGED counter
  PROVE  Hidden
<1>1. Represents(hp', buckets', old', late', Content)
  BY Unlocked
<1> QED
  BY <1>1, StayStep DEF Hidden

LEMMA InsertStep ==
  ASSUME TInv, NEW t \in Threads, Insert(t)
  PROVE  Hidden \/ Performs(t)
<1> DEFINE k == Key(t)
           ls == LocksOf(Own(k))
           tb == AfterMove(ls)
<1>1. Op(t) \in Insertions /\ ~At(t, "idle") /\ k \in Keys /\ CallOK(call[t])
  BY InCall DEF Insert, At
<1>2. ls \in SUBSET Locks /\ LocksOf(Own(k)) \subseteq ls /\ hp \in 0 .. MaxHp
  BY <1>1, LocksOfFacts DEF TInv, Good
<1>3. \/ \E x \in Positions(tb, k) : UseExisting(t, ls, tb, x)
      \/ /\ Positions(tb, k) = {}
         /\ \E x \in Insertable(tb, k) : Add(t, ls, tb, x)
      \/ Under(ls, tb) /\ Go(t, Search(t, hp)) /\ Stay /\ UNCHANGED counter
  BY DEF Insert
<1>4. Represents(hp, tb, OldAfter(ls), late \ ls, Content)
  BY <1>2, Locked
<1>5. \A x \in Insertable(tb, k) : \E b \in Own(k), s \in SlotInds : x = <<b, s>> /\ ~Occupied(tb, b, s)
  BY DEF Insertable, FreeSlots, Own, Two
<1> HIDE DEF tb, ls
<1>6. CASE \E x \in Positions(tb, k) : UseExisting(t, ls, tb, x)
  BY <1>1, <1>2, <1>4, <1>6, UseExistingStep
<1>7. CASE Positions(tb, k) = {} /\ \E x \in Insertable(tb, k) : Add(t, ls, tb, x)
  BY <1>1, <1>2, <1>4, <1>5, <1>7, AddStep
<1>8. CASE Under(ls, tb) /\ Go(t, Search(t, hp)) /\ Stay /\ UNCHANGED counter
  <2>1. LocalOK(Search(t, hp), call[t])
    BY <1>1, <1>2, SearchOK
  <2> QED
    BY <1>4, <1>8, <2>1, GoOn
<1> QED
  BY <1>3, <1>6, <1>7, <1>8

\* The slots of a bucket, from a component of a pathcode on.
LEMMA ScanFacts ==
  ASSUME NEW x \in QueueItems
  PROVE  /\ DOMAIN Scan(x) = 1 .. SlotPerBucket
         /\ \A i \in 1 .. SlotPerBucket : Scan(x)[i] \in SlotInds
<1> DEFINE from == IF x.slots = <<>> THEN x.root ELSE Last(x.slots)
<1>1. x.root \in Nat /\ x.slots \in Seq(SlotInds) /\ SlotPerBucket \in Nat \ {0}
  BY SizeAssumption DEF QueueItems
<1>2. x.slots # <<>> => Last(x.slots) \in SlotInds
  BY <1>1 DEF Last
<1>3. from \in Nat
  BY <1>1, <1>2 DEF SlotInds
<1> HIDE DEF from
<1>4. Scan(x) = [i \in 1 .. SlotPerBucket |-> (from + i - 1) % SlotPerBucket]
  BY DEF Scan, from
<1>5. \A i \in 1 .. SlotPerBucket : (from + i - 1) % SlotPerBucket \in SlotInds
  BY <1>1, <1>3, Quotients DEF SlotInds
<1> QED
  BY <1>4, <1>5

LEMMA SearchBucketStep ==
  ASSUME TInv, NEW t \in Threads, SearchBucket(t)
  PROVE  Hidden
<1> DEFINE x    == Head(my[t].queue)
           ls   == {LockInd(x.bucket)}
           tb   == AfterMove(ls)
           scan == Scan(x)
           child(i) == [bucket |-> alt_index(hp, Hash[tb[x.bucket][scan[i]].key], x.bucket),
                        root |-> x.root, slots |-> Append(x.slots, scan[i])]
           more == IF MayExtend(x) THEN [i \in DOMAIN scan |-> child(i)] ELSE <<>>
           found(i) == [my[t] EXCEPT !.pc = "fill", !.slots = Append(x.slots, scan[i]),
                                     !.root = x.root, !.queue = <<>>]
           next == [my[t] EXCEPT !.queue = Tail(@) \o more]
<1>1. /\ At(t, "search") /\ my[t].queue # <<>> /\ Under(ls, tb)
      /\ \/ \E i \in DOMAIN scan : Go(t, found(i))
         \/ /\ \A i \in DOMAIN scan : Occupied(tb, x.bucket, scan[i])
            /\ Go(t, next)
      /\ Stay /\ UNCHANGED counter
  BY DEF SearchBucket
<1>2. /\ LocalOK(my[t], call[t]) /\ my[t] \in Locals /\ my[t].pc = "search" /\ my[t].path = <<>>
      /\ call[t] # None /\ call[t].op \in Insertions
  BY <1>1, InCall DEF At, LocalOK
<1>3. x \in QueueItems /\ Tail(my[t].queue) \in Seq(QueueItems)
  <2>1. my[t].queue \in Seq(QueueItems) /\ my[t].queue # <<>>
    BY <1>1, <1>2 DEF Locals
  <2> QED
    BY <2>1
<1>4. x.bucket \in BucketInds /\ x.root \in Nat /\ x.slots \in Seq(SlotInds) /\ Len(x.slots) < MaxPathLen
  BY <1>3 DEF QueueItems
<1>5. DOMAIN scan = 1 .. SlotPerBucket /\ \A i \in DOMAIN scan : scan[i] \in SlotInds
  BY <1>3, ScanFacts
<1>6. ls \in SUBSET Locks
  BY <1>4, LocksOfFacts
<1>7. Represents(hp, tb, OldAfter(ls), late \ ls, Content)
  BY <1>6, Locked
<1>8. hp \in 0 .. MaxHp /\ tb \in Table
  BY <1>7 DEF Represents, Good
<1>9. \A s \in SlotInds : /\ Append(x.slots, s) \in Seq(SlotInds)
                          /\ Len(Append(x.slots, s)) = Len(x.slots) + 1
  BY <1>4
<1>10. MaxPathLen \in Nat /\ Len(x.slots) \in Nat
  BY <1>4, SizeAssumption
<1> HIDE DEF x, tb, scan, ls
<1>11. ASSUME NEW i \in DOMAIN scan, Go(t, found(i)) PROVE Hidden
  <2> DEFINE sl == Append(x.slots, scan[i])
  <2>1. sl \in Seq(SlotInds) /\ Len(sl) \in 1 .. MaxPathLen
    BY <1>4, <1>5, <1>9, <1>10
  <2> DEFINE m == [my[t] EXCEPT !.pc = "fill", !.slots = sl, !.root = x.root, !.queue = <<>>]
  <2> HIDE DEF sl
  <2>2. <<>> \in Seq(QueueItems)
    OBVIOUS
  <2>3. m \in Locals
    BY <1>2, <1>4, <2>1, <2>2 DEF Locals, Pcs, MapPcs
  <2>4. m.pc = "fill" /\ m.slots = sl /\ m.path = <<>>
    BY <1>2 DEF Locals, Pcs, MapPcs
  <2>5. Go(t, m)
    BY <1>11 DEF sl
  <2> HIDE DEF m
  <2>6. LocalOK(m, call[t])
    BY <1>2, <2>1, <2>3, <2>4 DEF LocalOK, PathOf
  <2> QED
    BY <1>1, <1>7, <2>5, <2>6, GoOn
<1>12. ASSUME \A i \in DOMAIN scan : Occupied(tb, x.bucket, scan[i]), Go(t, next) PROVE Hidden
  <2>1. more \in Seq(QueueItems)
    <3>1. CASE MayExtend(x)
      <4>1. ASSUME NEW i \in DOMAIN scan PROVE child(i) \in QueueItems
        <5> DEFINE a == alt_index(hp, Hash[tb[x.bucket][scan[i]].key], x.bucket)
                   sl == Append(x.slots, scan[i])
        <5>1. tb[x.bucket][scan[i]].key \in Keys
          BY <1>4, <1>5, <1>8, <1>12, <4>1, EntryFacts
        <5>2. a \in BucketInds
          BY <1>4, <1>8, <5>1, KeyFacts, AltFacts
        <5>3. sl \in Seq(SlotInds) /\ Len(sl) < MaxPathLen
          BY <1>5, <1>9, <1>10, <3>1, <4>1 DEF MayExtend
        <5> HIDE DEF a, sl
        <5>4. [bucket |-> a, root |-> x.root, slots |-> sl] \in QueueItems
          BY <1>4, <5>2, <5>3 DEF QueueItems
        <5> QED
          BY <5>4 DEF a, sl
      <4> HIDE DEF child
      <4>2. [i \in 1 .. SlotPerBucket |-> child(i)] \in Seq(QueueItems)
        BY <1>5, <4>1, SizeAssumption
      <4> QED
        BY <1>5, <3>1, <4>2
    <3>2. CASE ~MayExtend(x)
      BY <3>2
    <3> QED
      BY <3>1, <3>2
  <2> DEFINE m == [my[t] EXCEPT !.queue = Tail(my[t].queue) \o more]
  <2> HIDE DEF more
  <2>2. Tail(my[t].queue) \o more \in Seq(QueueItems)
    BY <1>3, <2>1
  <2>3. m \in Locals /\ m.pc = "search" /\ m.slots = my[t].slots /\ m.path = <<>>
    BY <1>2, <2>2 DEF Locals
  <2>4. Go(t, m)
    BY <1>12
  <2> HIDE DEF m
  <2>5. LocalOK(m, call[t])
    BY <1>2, <2>3 DEF LocalOK
  <2> QED
    BY <1>1, <1>7, <2>4, <2>5, GoOn
<1> QED
  BY <1>1, <1>11, <1>12

\* What is read at the end of a path.
LEMMA FillPathStep ==
  ASSUME TInv, NEW t \in Threads, FillPath(t)
  PROVE  Hidden
<1> DEFINE path == my[t].path
           n    == Len(path)
           b    == IF n = 0 THEN RootBucket(t, hp, my[t].root)
                   ELSE alt_index(hp, path[n].hv, path[n].bucket)
           s    == my[t].slots[n + 1]
           ls   == {LockInd(b)}
           tb   == AfterMove(ls)
           here == [bucket |-> b, slot |-> s,
                    hv |-> IF Occupied(tb, b, s) THEN Hash[tb[b][s].key] ELSE None]
           m    == [my[t] EXCEPT
                      !.path = Append(path, here),
                      !.pc = IF ~Occupied(tb, b, s) \/ n + 1 = Len(my[t].slots)
                             THEN "move" ELSE "fill"]
<1>1. /\ At(t, "fill") /\ my[t].hp = hp /\ Under(ls, tb) /\ Go(t, m)
      /\ Stay /\ UNCHANGED counter
  BY DEF FillPath, PathBucket, Current
<1>2. /\ LocalOK(my[t], call[t]) /\ my[t] \in Locals /\ my[t].pc = "fill"
      /\ call[t] # None /\ call[t].op \in Insertions /\ call[t].key \in Keys /\ Key(t) = call[t].key
  BY <1>1, InCall DEF At, LocalOK, Op, Key
<1>3. /\ path \in Seq(PathElements) /\ my[t].slots \in Seq(SlotInds)
      /\ n < Len(my[t].slots) /\ Len(my[t].slots) <= MaxPathLen
      /\ path # <<>> => ReadAt(hp, path[n])
      /\ PathOf(hp, path, call[t].key)
  BY <1>1, <1>2 DEF LocalOK, Locals
<1>4. n \in Nat /\ (path = <<>> <=> n = 0) /\ s \in SlotInds /\ hp \in 0 .. MaxHp
  BY <1>3 DEF TInv, Good
<1>5. /\ b \in BucketInds
      /\ n = 0 => b \in Two(hp, call[t].key)
      /\ n # 0 => b = alt_index(hp, path[n].hv, path[n].bucket)
  <2>1. CASE n = 0
    BY <1>2, <1>4, <2>1, FirstFacts DEF RootBucket, Two
  <2>2. CASE n # 0
    <3>1. PICK k \in Keys : path[n].hv = Hash[k] /\ path[n].bucket \in Two(hp, k)
      BY <1>3, <1>4, <2>2 DEF ReadAt
    <3>2. alt_index(hp, Hash[k], path[n].bucket) \in Two(hp, k)
      BY <1>4, <3>1, OtherBucket
    <3> QED
      BY <1>4, <2>2, <3>1, <3>2, FirstFacts
  <2> QED
    BY <2>1, <2>2
<1>6. Represents(hp, tb, OldAfter(ls), late \ ls, Content)
  <2>1. ls \in SUBSET Locks
    BY <1>5, LocksOfFacts
  <2> HIDE DEF ls
  <2> QED
    BY <2>1, Locked
<1>7. tb \in Table /\ Placed(hp, tb)
  BY <1>6 DEF Represents, Good
<1> HIDE DEF b, s, ls, tb
<1>8. here \in PathElements /\ here.bucket = b /\ (Occupied(tb, b, s) => ReadAt(hp, here))
  <2>1. CASE Occupied(tb, b, s)
    <3>1. tb[b][s].key \in Keys /\ b \in Two(hp, tb[b][s].key)
      BY <1>4, <1>5, <1>7, <2>1, EntryFacts DEF Placed
    <3>2. Hash[tb[b][s].key] \in HashValues
      BY <3>1, KeyFacts
    <3> QED
      BY <1>4, <1>5, <2>1, <3>1, <3>2 DEF PathElements, ReadAt
  <2>2. CASE ~Occupied(tb, b, s)
    BY <1>4, <1>5, <2>2 DEF PathElements
  <2> QED
    BY <2>1, <2>2
<1> HIDE DEF here
<1> DEFINE next == Append(path, here)
           where == IF ~Occupied(tb, b, s) \/ n + 1 = Len(my[t].slots) THEN "move" ELSE "fill"
<1>9. /\ next \in Seq(PathElements) /\ Len(next) = n + 1 /\ next[n + 1] = here
      /\ \A i \in 1 .. n : next[i] = path[i]
      /\ next # <<>>
  BY <1>3, <1>8
<1>10. PathOf(hp, next, call[t].key)
  <2>1. next[1].bucket \in Two(hp, call[t].key)
    BY <1>3, <1>4, <1>5, <1>8, <1>9 DEF PathOf
  <2>2. ASSUME NEW i \in 1 .. Len(next) - 1
        PROVE  ReadAt(hp, next[i]) /\ next[i + 1].bucket = alt_index(hp, next[i].hv, next[i].bucket)
    <3>1. i \in 1 .. n /\ next[i] = path[i]
      BY <1>4, <1>9, <2>2
    <3>2. CASE i = n
      BY <1>3, <1>4, <1>5, <1>8, <1>9, <3>1, <3>2
    <3>3. CASE i # n
      <4>1. i \in 1 .. n - 1 /\ i + 1 \in 1 .. n
        BY <1>4, <3>1, <3>3
      <4> QED
        BY <1>3, <1>9, <3>1, <4>1 DEF PathOf
    <3> QED
      BY <3>2, <3>3
  <2> HIDE DEF next
  <2> QED
    BY <2>1, <2>2 DEF PathOf
<1>11. m \in Locals /\ m.path = next /\ m.pc = where /\ m.slots = my[t].slots /\ m.hp = hp
  <2>1. where \in {"move", "fill"} /\ m = [my[t] EXCEPT !.path = next, !.pc = where]
    OBVIOUS
  <2> HIDE DEF next, where, m
  <2> QED
    BY <1>1, <1>2, <1>9, <2>1 DEF Locals, Pcs, MapPcs
<1>12. /\ where \in {"move", "fill"}
       /\ where = "fill" => n + 1 # Len(my[t].slots) /\ ReadAt(hp, here)
  BY <1>8
<1>13. Len(next) <= Len(my[t].slots) /\ (n + 1 # Len(my[t].slots) => Len(next) < Len(my[t].slots))
  BY <1>3, <1>4, <1>9
<1>14. Under(ls, tb) /\ Go(t, m)
  BY <1>1 DEF ls, tb, here, b, s
<1> HIDE DEF m, next, where
<1>15. LocalOK(m, call[t])
  BY <1>2, <1>3, <1>9, <1>10, <1>11, <1>12, <1>13 DEF LocalOK
<1> QED
  BY <1>1, <1>6, <1>14, <1>15, GoOn

\* A thread about to displace.
LEMMA PathToMove ==
  ASSUME TInv, NEW t \in Threads, At(t, "move"), Current(t)
  PROVE  /\ my[t].path \in Seq(PathElements) /\ PathOf(hp, my[t].path, Key(t))
         /\ Op(t) \in Insertions /\ ~At(t, "idle") /\ Key(t) \in Keys
         /\ CallOK(call[t]) /\ hp \in 0 .. MaxHp
         /\ LocalOK(my[t], call[t]) /\ my[t] \in Locals /\ my[t].hp = hp
<1>1. LocalOK(my[t], call[t]) /\ my[t] \in Locals /\ ~At(t, "idle") /\ CallOK(call[t])
  BY InCall DEF At
<1>2. Op(t) \in Insertions
  BY <1>1 DEF LocalOK, At, Op
<1>3. Key(t) \in Keys /\ hp \in 0 .. MaxHp
  BY <1>1, <1>2, InCall DEF TInv, Good
<1>4. my[t].hp = hp
  BY DEF Current
<1> QED
  BY <1>1, <1>2, <1>3, <1>4 DEF LocalOK, Locals, At, Key

LEMMA InsertAfterCuckooStep ==
  ASSUME TInv, NEW t \in Threads, ~At(t, "idle"), Op(t) \in Insertions,
         NEW ls, NEW tb, Represents(hp, tb, OldAfter(ls), late \ ls, Content),
         LocksOf(Own(Key(t))) \subseteq ls,
         NEW first, first.bucket \in Own(Key(t)), first.slot \in SlotInds,
         ~Occupied(tb, first.bucket, first.slot),
         InsertAfterCuckoo(t, ls, tb, first)
  PROVE  Performs(t)
<1>1. CASE \E x \in Positions(tb, Key(t)) : UseExisting(t, ls, tb, x)
  BY <1>1, UseExistingStep
<1>2. CASE Positions(tb, Key(t)) = {} /\ Add(t, ls, tb, <<first.bucket, first.slot>>)
  BY <1>2, AddStep
<1> QED
  BY <1>1, <1>2 DEF InsertAfterCuckoo

\* Two elements of a path in succession.
LEMMA Link ==
  ASSUME NEW path \in Seq(PathElements), NEW p, NEW k, PathOf(p, path, k),
         NEW n \in 2 .. Len(path)
  PROVE  /\ path[n - 1] \in PathElements /\ path[n] \in PathElements
         /\ path[n].bucket = alt_index(p, path[n - 1].hv, path[n - 1].bucket)
<1>1. n - 1 \in 1 .. Len(path) - 1 /\ (n - 1) + 1 = n /\ n - 1 \in 1 .. Len(path) /\ n \in 1 .. Len(path)
  OBVIOUS
<1> QED
  BY <1>1 DEF PathOf

LEMMA MoveElementStep ==
  ASSUME TInv, NEW t \in Threads, MoveElement(t)
  PROVE  Hidden
<1> DEFINE path == my[t].path
           n    == Len(path)
           from == path[n - 1]
           to   == path[n]
           ls   == LocksOf({from.bucket, to.bucket})
           tb   == AfterMove(ls)
           m    == [my[t] EXCEPT !.path = Front(@)]
<1>1. /\ At(t, "move") /\ Len(path) > 2 /\ Current(t)
      /\ \/ StillValid(tb, from, to) /\ Under(ls, Displaced(tb, from, to)) /\ Go(t, m)
         \/ Under(ls, tb) /\ Go(t, Search(t, hp))
      /\ Stay /\ UNCHANGED counter
  BY DEF MoveElement
<1>2. /\ path \in Seq(PathElements) /\ PathOf(hp, path, Key(t)) /\ Op(t) \in Insertions
      /\ CallOK(call[t]) /\ hp \in 0 .. MaxHp
      /\ LocalOK(my[t], call[t]) /\ my[t] \in Locals /\ my[t].hp = hp
  BY <1>1, PathToMove
<1>3. /\ from \in PathElements /\ to \in PathElements
      /\ to.bucket = alt_index(hp, from.hv, from.bucket)
  <2>1. n \in 2 .. Len(path)
    BY <1>1, <1>2
  <2> HIDE DEF n, path
  <2> QED
    BY <1>2, <2>1, Link
<1>4. ls \in SUBSET Locks /\ LockInd(to.bucket) \in ls
  <2>1. from.bucket \in BucketInds /\ to.bucket \in BucketInds
    BY <1>3 DEF PathElements
  <2>2. {from.bucket, to.bucket} \in SUBSET BucketInds
    BY <2>1
  <2> QED
    BY <2>2, LocksOfFacts DEF LocksOf
<1> HIDE DEF from, to, ls
<1>5. Represents(hp, tb, OldAfter(ls), late \ ls, Content) /\ LockInd(to.bucket) \notin late \ ls
  BY <1>4, Locked
<1> HIDE DEF tb
<1>6. CASE StillValid(tb, from, to) /\ Under(ls, Displaced(tb, from, to)) /\ Go(t, m)
  <2>1. Represents(hp, Displaced(tb, from, to), OldAfter(ls), late \ ls, Content)
    BY <1>3, <1>5, <1>6, DisplaceFits
  <2> DEFINE front == Front(path)
  <2>2. /\ front \in Seq(PathElements) /\ Len(front) = n - 1
        /\ \A i \in 1 .. n - 1 : front[i] = path[i]
        /\ n \in Nat /\ n > 2 /\ path # <<>>
    BY <1>1, <1>2 DEF Front
  <2> HIDE DEF front
  <2>3. PathOf(hp, front, Key(t))
    <3>1. front[1].bucket \in Two(hp, Key(t))
      BY <1>2, <2>2 DEF PathOf
    <3>2. \A i \in 1 .. Len(front) - 1 : i \in 1 .. Len(path) - 1 /\ front[i] = path[i] /\ front[i + 1] = path[i + 1]
      BY <2>2
    <3> QED
      BY <1>2, <3>1, <3>2 DEF PathOf
  <2>4. m \in Locals /\ m.pc = "move" /\ m.path = front /\ m.slots = my[t].slots /\ m.hp = hp
    <3>1. m = [my[t] EXCEPT !.path = front]
      BY DEF front
    <3> HIDE DEF m
    <3> QED
      BY <1>1, <1>2, <2>2, <3>1 DEF Locals, At
  <2>5. Len(front) <= Len(my[t].slots) /\ Len(my[t].slots) <= MaxPathLen
    <3>1. Len(my[t].slots) \in Nat /\ n <= Len(my[t].slots) /\ Len(my[t].slots) <= MaxPathLen
      BY <1>2 DEF LocalOK, Locals
    <3> QED
      BY <2>2, <3>1
  <2> HIDE DEF m
  <2>6. LocalOK(m, call[t])
    BY <1>2, <2>3, <2>4, <2>5, CallFacts DEF CallOK, LocalOK, Op, Key
  <2> QED
    BY <1>1, <1>6, <2>1, <2>6, GoOn
<1>7. CASE Under(ls, tb) /\ Go(t, Search(t, hp))
  <2>1. LocalOK(Search(t, hp), call[t])
    BY <1>2, SearchOK
  <2> QED
    BY <1>1, <1>5, <1>7, <2>1, GoOn
<1> QED
  BY <1>1, <1>6, <1>7 DEF from, to, ls, tb

LEMMA MoveLastStep ==
  ASSUME TInv, NEW t \in Threads, MoveLast(t)
  PROVE  Hidden \/ Performs(t)
<1> DEFINE path == my[t].path
           from == path[1]
           to   == path[2]
           ls   == LocksOf(Own(Key(t)) \cup {to.bucket})
           tb   == AfterMove(ls)
<1>1. /\ At(t, "move") /\ Len(path) = 2 /\ Current(t)
      /\ \/ /\ StillValid(tb, from, to)
            /\ InsertAfterCuckoo(t, ls, Displaced(tb, from, to), from)
         \/ Under(ls, tb) /\ Go(t, Search(t, hp)) /\ Stay /\ UNCHANGED counter
  BY DEF MoveLast
<1>2. /\ path \in Seq(PathElements) /\ PathOf(hp, path, Key(t)) /\ Op(t) \in Insertions
      /\ ~At(t, "idle") /\ Key(t) \in Keys /\ CallOK(call[t]) /\ hp \in 0 .. MaxHp
  BY <1>1, PathToMove
<1>3. /\ from \in PathElements /\ to \in PathElements
      /\ to.bucket = alt_index(hp, from.hv, from.bucket)
  <2>1. 2 \in 2 .. Len(path) /\ 2 - 1 = 1
    BY <1>1
  <2> HIDE DEF path
  <2> QED
    BY <1>2, <2>1, Link
<1>4. ls \in SUBSET Locks /\ LockInd(to.bucket) \in ls /\ LocksOf(Own(Key(t))) \subseteq ls
  <2>1. to.bucket \in BucketInds /\ Own(Key(t)) \subseteq BucketInds
    BY <1>2, <1>3, LocksOfFacts DEF PathElements
  <2>2. Own(Key(t)) \cup {to.bucket} \in SUBSET BucketInds
    BY <2>1
  <2> QED
    BY <2>2, LocksOfFacts DEF LocksOf
<1>5. from.bucket \in Own(Key(t)) /\ from.slot \in SlotInds
  <2>1. path # <<>>
    BY <1>1, <1>2
  <2> QED
    BY <1>2, <1>3, <2>1 DEF PathOf, PathElements, Own, Two
<1> HIDE DEF from, to, ls
<1>6. Represents(hp, tb, OldAfter(ls), late \ ls, Content) /\ LockInd(to.bucket) \notin late \ ls
  BY <1>4, Locked
<1> HIDE DEF tb
<1>7. CASE StillValid(tb, from, to) /\ InsertAfterCuckoo(t, ls, Displaced(tb, from, to), from)
  <2>1. /\ Represents(hp, Displaced(tb, from, to), OldAfter(ls), late \ ls, Content)
        /\ ~Occupied(Displaced(tb, from, to), from.bucket, from.slot)
    BY <1>3, <1>6, <1>7, DisplaceFits
  <2> DEFINE new == Displaced(tb, from, to)
  <2>2. /\ Represents(hp, new, OldAfter(ls), late \ ls, Content)
        /\ ~Occupied(new, from.bucket, from.slot) /\ InsertAfterCuckoo(t, ls, new, from)
    BY <1>7, <2>1
  <2> HIDE DEF new
  <2> QED
    BY <1>2, <1>4, <1>5, <2>2, InsertAfterCuckooStep
<1>8. CASE Under(ls, tb) /\ Go(t, Search(t, hp)) /\ Stay /\ UNCHANGED counter
  <2>1. LocalOK(Search(t, hp), call[t])
    BY <1>2, SearchOK
  <2> QED
    BY <1>6, <1>8, <2>1, GoOn
<1> QED
  BY <1>1, <1>7, <1>8 DEF from, to, ls, tb

LEMMA MoveNothingStep ==
  ASSUME TInv, NEW t \in Threads, MoveNothing(t)
  PROVE  Hidden \/ Performs(t)
<1> DEFINE path == my[t].path
           first == path[1]
           ls   == LocksOf(Own(Key(t)))
           tb   == AfterMove(ls)
<1>1. /\ At(t, "move") /\ Len(path) = 1 /\ Current(t)
      /\ \/ ~Occupied(tb, first.bucket, first.slot) /\ InsertAfterCuckoo(t, ls, tb, first)
         \/ Under(ls, tb) /\ Go(t, Search(t, hp)) /\ Stay /\ UNCHANGED counter
  BY DEF MoveNothing
<1>2. /\ path \in Seq(PathElements) /\ PathOf(hp, path, Key(t)) /\ Op(t) \in Insertions
      /\ ~At(t, "idle") /\ Key(t) \in Keys /\ CallOK(call[t]) /\ hp \in 0 .. MaxHp
  BY <1>1, PathToMove
<1>3. ls \in SUBSET Locks /\ LocksOf(Own(Key(t))) \subseteq ls
  BY <1>2, LocksOfFacts
<1>4. first.bucket \in Own(Key(t)) /\ first.slot \in SlotInds
  <2>1. path # <<>> /\ first \in PathElements
    BY <1>1, <1>2
  <2> QED
    BY <1>2, <2>1 DEF PathOf, PathElements, Own, Two
<1> HIDE DEF first, ls
<1>5. Represents(hp, tb, OldAfter(ls), late \ ls, Content)
  BY <1>3, Locked
<1> HIDE DEF tb
<1>6. CASE ~Occupied(tb, first.bucket, first.slot) /\ InsertAfterCuckoo(t, ls, tb, first)
  BY <1>2, <1>3, <1>4, <1>5, <1>6, InsertAfterCuckooStep
<1>7. CASE Under(ls, tb) /\ Go(t, Search(t, hp)) /\ Stay /\ UNCHANGED counter
  <2>1. LocalOK(Search(t, hp), call[t])
    BY <1>2, SearchOK
  <2> QED
    BY <1>5, <1>7, <2>1, GoOn
<1> QED
  BY <1>1, <1>6, <1>7 DEF first, ls, tb

LEMMA UnderExpansionStep ==
  ASSUME TInv, NEW t \in Threads, UnderExpansion(t)
  PROVE  Hidden
<1>1. ~At(t, "idle") /\ Go(t, Restart) /\ Stay /\ UNCHANGED table
  BY DEF UnderExpansion, At
<1>2. LocalOK(Restart, call[t])
  BY <1>1, InCall, IdleOK
<1> QED
  BY <1>1, <1>2, SameTable, StayStep DEF Hidden

-----------------------------------------------------------------------------
(* Expansion.                                                              *)

LEMMA ExpandThrowsStep ==
  ASSUME TInv, NEW t \in Threads, ExpandThrows(t)
  PROVE  Performs(t)
<1>1. At(t, "search") /\ Return(t, "exception") /\ UNCHANGED table
  BY DEF ExpandThrows, TableFull
<1>2. call[t].op \in Insertions /\ call[t] # None
  BY <1>1, InCall DEF At, LocalOK
<1>3. TInv' /\ Content' = Content /\ KVM!Return(t, "exception")
  BY <1>1, SameTable, ReturnStep
<1>4. KVM!Insertions = Insertions
  BY DEF KVM!Insertions, Insertions
<1> QED
  BY <1>2, <1>3, <1>4 DEF Performs, KVM!Perform, KVM!Throw

LEMMA ExpandLateStep ==
  ASSUME TInv, NEW t \in Threads, ExpandLate(t)
  PROVE  Hidden
<1>1. ~At(t, "idle") /\ Go(t, Restart) /\ Stay /\ UNCHANGED table
  BY DEF ExpandLate, TableFull, At
<1>2. LocalOK(Restart, call[t])
  BY <1>1, InCall, IdleOK
<1> QED
  BY <1>1, <1>2, SameTable, StayStep DEF Hidden

LEMMA DoubleStep ==
  ASSUME TInv, NEW t \in Threads, Double(t)
  PROVE  Hidden
<1> DEFINE tb == AfterMove(Locks)
<1>1. /\ ~At(t, "idle") /\ Go(t, Restart) /\ Stay /\ UNCHANGED counter
      /\ my[t].hp + 1 <= MaxHp /\ my[t].hp = hp
      /\ hp' = hp + 1
      /\ Size(hp) < MaxNumLocks =>
           /\ buckets' = MoveBuckets(tb, Empty, hp, 0 .. Size(hp) - 1)
           /\ old' = Empty /\ late' = {}
      /\ ~(Size(hp) < MaxNumLocks) => buckets' = Empty /\ old' = tb /\ late' = Locks
  <2>1. hp \in Nat /\ MaxHp \in Nat
    BY SizeAssumption DEF TInv, Good
  <2> QED
    BY <2>1 DEF Double, TableFull, At, Current, MaximumExceeded
<1>2. LocalOK(Restart, call[t])
  BY <1>1, InCall, IdleOK
<1>3. late \subseteq Locks /\ hp \in 0 .. MaxHp /\ Size(hp) \in Nat /\ MaxNumLocks \in Nat
  BY Sizes, SizeAssumption DEF TInv, Good
<1>4. Represents(hp, tb, OldAfter(Locks), {}, Content)
  <2>1. Locks \in SUBSET Locks /\ late \ Locks = {}
    BY <1>3
  <2> QED
    BY <2>1, Locked
<1> HIDE DEF tb
<1>5. /\ Represents(hp + 1, MoveBuckets(tb, Empty, hp, 0 .. Size(hp) - 1), Empty, {}, Content)
      /\ Size(hp) >= MaxNumLocks => Represents(hp + 1, Empty, tb, Locks, Content)
  BY <1>1, <1>4, DoubleFits
<1>6. Represents(hp', buckets', old', late', Content)
  <2>1. CASE Size(hp) < MaxNumLocks
    BY <1>1, <1>5, <2>1
  <2>2. CASE ~(Size(hp) < MaxNumLocks)
    <3>1. Size(hp) >= MaxNumLocks
      BY <1>3, <2>2
    <3> QED
      BY <1>1, <1>5, <2>2, <3>1
  <2> QED
    BY <2>1, <2>2
<1> QED
  BY <1>1, <1>2, <1>6, StayStep DEF Hidden

-----------------------------------------------------------------------------
(* The theorems.                                                           *)

\* The calls are those of a map; LockedTable.tla has more.
MapCalls == Workload \subseteq KVM!Calls

LEMMA CallStep ==
  ASSUME TInv, NEW t \in Threads, Call(t)
  PROVE  TInv' /\ (MapCalls => KVM!Call(t))
<1>1. PICK c \in Workload : call' = [call EXCEPT ![t] = c]
  BY DEF Call
<1>2. /\ my[t].pc = "idle" /\ left > 0 /\ left' = left - 1
      /\ ret' = [ret EXCEPT ![t] = None] /\ my' = [my EXCEPT ![t] = Restart] /\ UNCHANGED table
  BY DEF Call, At, Go
<1>3. /\ call = [u \in Threads |-> call[u]] /\ ret = [u \in Threads |-> ret[u]]
      /\ my = [u \in Threads |-> my[u]] /\ left \in 0 .. MaxCalls
      /\ call[t] = None
  BY <1>2 DEF TInv, LocalOK
<1>4. my'[t] = Restart /\ call'[t] = c /\ \A u \in Threads : u # t => my'[u] = my[u] /\ call'[u] = call[u]
  BY <1>1, <1>2, <1>3
<1>5. /\ call' = [u \in Threads |-> call'[u]]
      /\ ret' = [u \in Threads |-> ret'[u]]
      /\ my' = [u \in Threads |-> my'[u]]
  BY <1>1, <1>2, <1>3
<1>6. \A u \in Threads : LocalOK(my'[u], call'[u]) /\ (call'[u] # None => CallOK(call'[u]))
  BY <1>4, IdleOK, CallFacts DEF TInv
<1>7. Good(hp', buckets', old', late')
  BY <1>2 DEF TInv, table
<1>8. left' \in 0 .. MaxCalls
  BY <1>2, <1>3, SizeAssumption
<1>9. Content' = Content
  BY <1>2, ContentIs DEF table
<1>10. TInv'
  BY <1>2, <1>5, <1>6, <1>7, <1>8, <1>9 DEF TInv, table
<1>11. ASSUME MapCalls PROVE KVM!Call(t)
  BY <1>1, <1>2, <1>3, <1>9, <1>11 DEF MapCalls, KVM!Call
<1> QED
  BY <1>10, <1>11

LEMMA TableInit == Init => TInv /\ KVM!Init
<1> SUFFICES ASSUME Init PROVE TInv /\ KVM!Init
  OBVIOUS
<1>1. /\ hp = FirstHp /\ buckets = Empty /\ old = Empty /\ late = {}
      /\ counter = [l \in Locks |-> 0] /\ left = MaxCalls
      /\ call = [t \in Threads |-> None] /\ ret = [t \in Threads |-> None]
      /\ my = [t \in Threads |-> Idle]
  BY DEF Init
<1>2. Represents(hp, buckets, old, late, [k \in Keys |-> None])
  BY <1>1, EmptyFits, SizeAssumption
<1>3. Content = [k \in Keys |-> None]
  BY <1>2, ContentIs, ContentShows, ShowsOne DEF Represents
<1>4. \A t \in Threads : LocalOK(my[t], call[t]) /\ call[t] = None
  BY <1>1, IdleOK
<1>5. left \in 0 .. MaxCalls
  BY <1>1, SizeAssumption
<1>6. Counts(counter, Content)
  BY <1>1, <1>3, CountNothing
<1> QED
  BY <1>1, <1>2, <1>3, <1>4, <1>5, <1>6 DEF TInv, Represents, KVM!Init

LEMMA StepPerforms ==
  ASSUME TInv, NEW t \in Threads, Step(t)
  PROVE  Hidden \/ Performs(t)
BY FindStep, UpdateStep, EraseStep, ClearStep, ReadCounterStep, ReturnSizeStep,
   InsertStep, SearchBucketStep, FillPathStep, MoveElementStep, MoveLastStep,
   MoveNothingStep, UnderExpansionStep, ExpandThrowsStep, ExpandLateStep, DoubleStep DEF Step

LEMMA TableStep ==
  ASSUME TInv, [Next]_vars
  PROVE  TInv' /\ (MapCalls => [KVM!Next]_(KVM!map))
<1>1. ASSUME UNCHANGED vars PROVE TInv' /\ UNCHANGED KVM!map
  <2>1. Content' = Content
    BY <1>1, ContentIs DEF vars
  <2> QED
    BY <1>1, <2>1 DEF TInv, vars, KVM!map
<1>2. ASSUME NEW t \in Threads, Call(t) PROVE TInv' /\ (MapCalls => KVM!Next)
  BY <1>2, CallStep DEF KVM!Next
<1>3. ASSUME NEW t \in Threads, Step(t) PROVE Hidden \/ Performs(t)
  BY <1>3, StepPerforms
<1> QED
  BY <1>1, <1>2, <1>3 DEF Next, Hidden, Performs, KVM!Next

\* The inductive invariant: no element is lost, doubled or out of place, what is
\* left of an old table is under locks that are not migrated, and the paths of
\* the threads follow the hashes they read.
THEOREM Invariant == Spec => []TInv
<1>1. Init => TInv
  BY TableInit
<1>2. TInv /\ [Next]_vars => TInv'
  BY TableStep
<1> QED
  BY <1>1, <1>2, PTL DEF Spec

Shape(m) ==
  m = [pc |-> m.pc, hp |-> m.hp, queue |-> m.queue, root |-> m.root, slots |-> m.slots,
       path |-> m.path, sum |-> m.sum]

\* A local variable changes and the others stay.
LEMMA FieldKept ==
  ASSUME NEW m, Shape(m), NEW w
  PROVE  /\ LET n == [m EXCEPT !.pc = w] IN Shape(n) /\ n.pc = w
         /\ LET n == [m EXCEPT !.sum = w] IN Shape(n) /\ n.pc = m.pc
         /\ LET n == [m EXCEPT !.root = w] IN Shape(n) /\ n.pc = m.pc
         /\ LET n == [m EXCEPT !.hp = w] IN Shape(n) /\ n.pc = m.pc
         /\ LET n == [m EXCEPT !.queue = w] IN Shape(n) /\ n.pc = m.pc
         /\ LET n == [m EXCEPT !.slots = w] IN Shape(n) /\ n.pc = m.pc
         /\ LET n == [m EXCEPT !.path = w] IN Shape(n) /\ n.pc = m.pc
<1> DEFINE a == m.pc
           b == m.hp
           c == m.queue
           d == m.root
           e == m.slots
           f == m.path
           g == m.sum
<1>1. m = [pc |-> a, hp |-> b, queue |-> c, root |-> d, slots |-> e, path |-> f, sum |-> g] /\ m.pc = a
  BY DEF Shape
<1> HIDE DEF a, b, c, d, e, f, g
<1>3. [m EXCEPT !.pc = w] = [pc |-> w, hp |-> b, queue |-> c, root |-> d, slots |-> e, path |-> f, sum |-> g]
  BY <1>1
<1>4. [m EXCEPT !.sum = w] = [pc |-> a, hp |-> b, queue |-> c, root |-> d, slots |-> e, path |-> f, sum |-> w]
  BY <1>1
<1>5. [m EXCEPT !.root = w] = [pc |-> a, hp |-> b, queue |-> c, root |-> w, slots |-> e, path |-> f, sum |-> g]
  BY <1>1
<1>6. [m EXCEPT !.queue = w] = [pc |-> a, hp |-> b, queue |-> w, root |-> d, slots |-> e, path |-> f, sum |-> g]
  BY <1>1
<1>7. [m EXCEPT !.slots = w] = [pc |-> a, hp |-> b, queue |-> c, root |-> d, slots |-> w, path |-> f, sum |-> g]
  BY <1>1
<1>8. [m EXCEPT !.path = w] = [pc |-> a, hp |-> b, queue |-> c, root |-> d, slots |-> e, path |-> w, sum |-> g]
  BY <1>1
<1>9. [m EXCEPT !.hp = w] = [pc |-> a, hp |-> w, queue |-> c, root |-> d, slots |-> e, path |-> f, sum |-> g]
  BY <1>1
<1>13. LET n == [m EXCEPT !.pc = w] IN Shape(n) /\ n.pc = w
  <2> DEFINE n == [m EXCEPT !.pc = w]
  <2>1. n = [m EXCEPT !.pc = w]
    OBVIOUS
  <2> HIDE DEF n
  <2>2. Shape(n) /\ n.pc = w
    BY <1>3, <2>1 DEF Shape
  <2> QED
    BY <1>1, <2>2 DEF n
<1>14. LET n == [m EXCEPT !.sum = w] IN Shape(n) /\ n.pc = m.pc
  <2> DEFINE n == [m EXCEPT !.sum = w]
  <2>1. n = [m EXCEPT !.sum = w]
    OBVIOUS
  <2> HIDE DEF n
  <2>2. Shape(n) /\ n.pc = a
    BY <1>4, <2>1 DEF Shape
  <2> QED
    BY <1>1, <2>2 DEF n
<1>15. LET n == [m EXCEPT !.root = w] IN Shape(n) /\ n.pc = m.pc
  <2> DEFINE n == [m EXCEPT !.root = w]
  <2>1. n = [m EXCEPT !.root = w]
    OBVIOUS
  <2> HIDE DEF n
  <2>2. Shape(n) /\ n.pc = a
    BY <1>5, <2>1 DEF Shape
  <2> QED
    BY <1>1, <2>2 DEF n
<1>16. LET n == [m EXCEPT !.queue = w] IN Shape(n) /\ n.pc = m.pc
  <2> DEFINE n == [m EXCEPT !.queue = w]
  <2>1. n = [m EXCEPT !.queue = w]
    OBVIOUS
  <2> HIDE DEF n
  <2>2. Shape(n) /\ n.pc = a
    BY <1>6, <2>1 DEF Shape
  <2> QED
    BY <1>1, <2>2 DEF n
<1>17. LET n == [m EXCEPT !.slots = w] IN Shape(n) /\ n.pc = m.pc
  <2> DEFINE n == [m EXCEPT !.slots = w]
  <2>1. n = [m EXCEPT !.slots = w]
    OBVIOUS
  <2> HIDE DEF n
  <2>2. Shape(n) /\ n.pc = a
    BY <1>7, <2>1 DEF Shape
  <2> QED
    BY <1>1, <2>2 DEF n
<1>18. LET n == [m EXCEPT !.path = w] IN Shape(n) /\ n.pc = m.pc
  <2> DEFINE n == [m EXCEPT !.path = w]
  <2>1. n = [m EXCEPT !.path = w]
    OBVIOUS
  <2> HIDE DEF n
  <2>2. Shape(n) /\ n.pc = a
    BY <1>8, <2>1 DEF Shape
  <2> QED
    BY <1>1, <2>2 DEF n
<1>19. LET n == [m EXCEPT !.hp = w] IN Shape(n) /\ n.pc = m.pc
  <2> DEFINE n == [m EXCEPT !.hp = w]
  <2>1. n = [m EXCEPT !.hp = w]
    OBVIOUS
  <2> HIDE DEF n
  <2>2. Shape(n) /\ n.pc = a
    BY <1>9, <2>1 DEF Shape
  <2> QED
    BY <1>1, <2>2 DEF n
<1> QED
  BY <1>13, <1>14, <1>15, <1>16, <1>17, <1>18, <1>19

GoesOn(t) == Stay /\ \E m : Go(t, m) /\ Shape(m) /\ m.pc \in MapPcs \ {"idle"}
Returns(t) == \E r : Return(t, r)

\* A step ends the call of its thread or goes on to where CuckooTable.tla says
\* a thread can be.
LEMMA StepMoves ==
  ASSUME NEW t \in Threads, Shape(my[t]), Step(t)
  PROVE  Returns(t) \/ GoesOn(t)
<1>1. Restart.pc = "start" /\ Shape(Restart) /\ Restart.pc \in MapPcs \ {"idle"}
  BY DEF Restart, Idle, Shape, MapPcs
<1>2. ASSUME NEW p PROVE Search(t, p).pc \in MapPcs \ {"idle"} /\ Shape(Search(t, p))
  <2> DEFINE q == [r \in 1 .. 2 |-> [bucket |-> RootBucket(t, p, r - 1), root |-> r - 1, slots |-> <<>>]]
             n1 == [Idle EXCEPT !.pc = "search"]
             n2 == [n1 EXCEPT !.hp = p]
             m  == [n2 EXCEPT !.queue = q]
  <2>1. Search(t, p) = m
    BY DEF Search
  <2> HIDE DEF q
  <2>2. Shape(Idle)
    BY DEF Shape, Idle
  <2>3. n1.pc = "search" /\ Shape(n1)
    BY ZenonT(60), <2>2, FieldKept
  <2> HIDE DEF n1
  <2>4. n2.pc = "search" /\ Shape(n2)
    BY <2>3, FieldKept
  <2> HIDE DEF n2
  <2>5. m.pc = "search" /\ Shape(m)
    BY <2>4, FieldKept
  <2> HIDE DEF m
  <2> QED
    BY <2>1, <2>5 DEF MapPcs
<1>3. \A ls, tb, x : Add(t, ls, tb, x) \/ UseExisting(t, ls, tb, x) => Returns(t)
  BY DEF Add, UseExisting, Returns
<1>4. \A ls, tb, x : InsertAfterCuckoo(t, ls, tb, x) => Returns(t)
  BY <1>3 DEF InsertAfterCuckoo
<1>5. \A p : Stay /\ (Go(t, Restart) \/ Go(t, Search(t, p))) => GoesOn(t)
  BY <1>1, <1>2 DEF GoesOn
<1>6. CASE UnderExpansion(t) \/ ExpandLate(t) \/ Double(t)
  BY <1>5, <1>6 DEF UnderExpansion, ExpandLate, Double
<1>7. CASE Find(t) \/ Update(t) \/ Erase(t) \/ Clear(t) \/ ReturnSize(t) \/ ExpandThrows(t)
  BY <1>7 DEF Find, Update, Erase, Clear, ReturnSize, ExpandThrows, Returns
<1>8. CASE ReadCounter(t)
  <2> DEFINE s == my[t].sum + counter[my[t].root]
             r == my[t].root + 1
             n1 == [my[t] EXCEPT !.pc = "sum"]
             n2 == [n1 EXCEPT !.sum = s]
             m  == [n2 EXCEPT !.root = r]
  <2>1. Go(t, m) /\ Stay
    BY <1>8 DEF ReadCounter
  <2> HIDE DEF s, r
  <2>2. n1.pc = "sum" /\ Shape(n1)
    BY ZenonT(60), FieldKept
  <2> HIDE DEF n1
  <2>3. n2.pc = "sum" /\ Shape(n2)
    BY <2>2, FieldKept
  <2> HIDE DEF n2
  <2>4. m.pc = "sum" /\ Shape(m)
    BY <2>3, FieldKept
  <2> HIDE DEF m
  <2> QED
    BY <2>1, <2>4 DEF MapPcs, GoesOn
<1>9. CASE Insert(t)
  BY <1>3, <1>5, <1>9 DEF Insert
<1>10. CASE SearchBucket(t)
  <2>1. my[t].pc \in MapPcs \ {"idle"} /\ Stay
    BY <1>10 DEF SearchBucket, At, MapPcs
  <2>2. \A q : [my[t] EXCEPT !.queue = q].pc \in MapPcs \ {"idle"} /\ Shape([my[t] EXCEPT !.queue = q])
    BY <2>1, FieldKept
  <2>3. ASSUME NEW q, NEW r, NEW u
        PROVE  LET m == [my[t] EXCEPT !.pc = "fill", !.slots = u, !.root = r, !.queue = q]
               IN  m.pc \in MapPcs \ {"idle"} /\ Shape(m)
    <3> DEFINE n1 == [my[t] EXCEPT !.pc = "fill"]
               n2 == [n1 EXCEPT !.slots = u]
               n3 == [n2 EXCEPT !.root = r]
               m  == [n3 EXCEPT !.queue = q]
    <3>1. m = [my[t] EXCEPT !.pc = "fill", !.slots = u, !.root = r, !.queue = q]
      OBVIOUS
    <3>2. n1.pc = "fill" /\ Shape(n1)
      BY ZenonT(60), FieldKept
    <3> HIDE DEF n1
    <3>3. n2.pc = "fill" /\ Shape(n2)
      BY <3>2, FieldKept
    <3> HIDE DEF n2
    <3>4. n3.pc = "fill" /\ Shape(n3)
      BY <3>3, FieldKept
    <3> HIDE DEF n3
    <3>5. m.pc = "fill" /\ Shape(m)
      BY <3>4, FieldKept
    <3> HIDE DEF m
    <3> QED
      BY <3>1, <3>5 DEF MapPcs
  <2>4. \/ \E q : Go(t, [my[t] EXCEPT !.queue = q])
        \/ \E q, r, u : Go(t, [my[t] EXCEPT !.pc = "fill", !.slots = u, !.root = r, !.queue = q])
    BY <1>10 DEF SearchBucket
  <2> QED
    BY <2>1, <2>2, <2>3, <2>4 DEF GoesOn
<1>11. CASE FillPath(t)
  <2>1. \E p : \E w \in {"move", "fill"} : Go(t, [my[t] EXCEPT !.path = p, !.pc = w])
    BY <1>11 DEF FillPath
  <2>2. ASSUME NEW p, NEW w
        PROVE  LET m == [my[t] EXCEPT !.path = p, !.pc = w] IN m.pc = w /\ Shape(m)
    <3> DEFINE n == [my[t] EXCEPT !.path = p]
               m == [n EXCEPT !.pc = w]
    <3>1. m = [my[t] EXCEPT !.path = p, !.pc = w]
      OBVIOUS
    <3>2. Shape(n)
      BY FieldKept
    <3> HIDE DEF n
    <3>3. m.pc = w /\ Shape(m)
      BY ZenonT(60), <3>2, FieldKept
    <3> HIDE DEF m
    <3> QED
      BY <3>1, <3>3
  <2>3. Stay
    BY <1>11 DEF FillPath
  <2> QED
    BY <2>1, <2>2, <2>3 DEF GoesOn, MapPcs
<1>12. CASE MoveElement(t)
  <2>1. my[t].pc \in MapPcs \ {"idle"} /\ Stay
    BY <1>12 DEF MoveElement, At, MapPcs
  <2>2. \A p : [my[t] EXCEPT !.path = p].pc \in MapPcs \ {"idle"} /\ Shape([my[t] EXCEPT !.path = p])
    BY <2>1, FieldKept
  <2>3. Go(t, Search(t, hp)) \/ \E p : Go(t, [my[t] EXCEPT !.path = p])
    BY <1>12 DEF MoveElement
  <2> QED
    BY <1>5, <2>1, <2>2, <2>3 DEF GoesOn
<1>13. CASE MoveLast(t) \/ MoveNothing(t)
  BY <1>4, <1>5, <1>13 DEF MoveLast, MoveNothing
<1> QED
  BY <1>6, <1>7, <1>8, <1>9, <1>10, <1>11, <1>12, <1>13 DEF Step

\* Every variable keeps its type; a path is no longer than its bound.
THEOREM TypeCorrect == Spec => []TypeOK
<1> DEFINE Inv == \A t \in Threads : my[t].pc \in MapPcs
<1>1. Init => Inv
  BY DEF Init, Idle, MapPcs
<1>2. TInv /\ Inv /\ [Next]_vars => Inv'
  <2> SUFFICES ASSUME TInv, Inv, [Next]_vars PROVE Inv'
    OBVIOUS
  <2>1. ASSUME NEW t \in Threads, Call(t) \/ Step(t) PROVE Inv'
    <3>1. Shape(my[t])
      BY DEF TInv, LocalOK, Locals, Shape
    <3>2. PICK m : my' = [my EXCEPT ![t] = m] /\ m.pc \in MapPcs
      BY <2>1, <3>1, StepMoves DEF Call, Returns, Return, GoesOn, Go, Idle, Restart, MapPcs
    <3>3. my = [u \in Threads |-> my[u]]
      BY DEF TInv
    <3>4. \A u \in Threads : my'[u] = IF u = t THEN m ELSE my[u]
      BY <3>2, <3>3
    <3> QED
      BY <3>2, <3>4
  <2>2. CASE UNCHANGED vars
    BY <2>2 DEF vars
  <2> QED
    BY <2>1, <2>2 DEF Next
<1>3. TInv /\ Inv => TypeOK
  BY DEF TInv, Good, LocalOK, Locals, TypeOK, Counts, MapPcs
<1> HIDE DEF Inv
<1> QED
  BY <1>1, <1>2, <1>3, Invariant, PTL DEF Spec

LEMMA UniqueNow == TInv => KeysUnique
<1> SUFFICES ASSUME TInv PROVE KeysUnique
  OBVIOUS
<1>1. Once(buckets) /\ Once(old) /\ Apart(buckets, old)
  BY DEF TInv, Good
<1>2. \A tb : \A x \in Taken(tb) :
        /\ x = <<x[1], x[2]>> /\ x[1] \in BucketInds /\ x[2] \in SlotInds
        /\ Occupied(tb, x[1], x[2]) /\ KeyAt(tb, x) = tb[x[1]][x[2]].key
  BY DEF Taken, KeyAt
<1>3. ASSUME NEW tb, Once(tb), NEW x \in Taken(tb), NEW y \in Taken(tb), KeyAt(tb, x) = KeyAt(tb, y)
      PROVE  x = y
  <2>1. x[1] = y[1] /\ x[2] = y[2]
    BY <1>2, <1>3 DEF Once
  <2> QED
    BY <1>2, <2>1
<1>4. \A x \in Taken(buckets), y \in Taken(old) : KeyAt(buckets, x) # KeyAt(old, y)
  BY <1>1, <1>2 DEF Apart
<1> QED
  BY <1>1, <1>3, <1>4 DEF KeysUnique

\* No key is stored twice, whatever insertions, displacements, expansions and
\* migrations go on at the same time.
THEOREM NoKeyTwice == Spec => []KeysUnique
BY UniqueNow, Invariant, PTL

LEMMA InPlaceNow == TInv => ElementsInPlace
<1> SUFFICES ASSUME TInv PROVE ElementsInPlace
  OBVIOUS
<1>1. Placed(hp, buckets) /\ PlacedUnder(hp - 1, old, late)
  BY DEF TInv, Good
<1>2. \A tb : \A x \in Taken(tb) :
        /\ x[1] \in BucketInds /\ x[2] \in SlotInds
        /\ Occupied(tb, x[1], x[2]) /\ KeyAt(tb, x) = tb[x[1]][x[2]].key
  BY DEF Taken, KeyAt
<1>3. \A x \in Taken(buckets) : x[1] \in Two(hp, KeyAt(buckets, x))
  BY <1>1, <1>2 DEF Placed
<1>4. \A x \in Taken(old) : LockInd(x[1]) \in late /\ x[1] \in Two(hp - 1, KeyAt(old, x))
  BY <1>1, <1>2 DEF PlacedUnder
<1> QED
  BY <1>3, <1>4 DEF ElementsInPlace, Own, Two

\* Every element is in one of the two buckets of its key, or of the key in the
\* old table and then under a lock that is not migrated.
THEOREM InPlace == Spec => []ElementsInPlace
BY InPlaceNow, Invariant, PTL

LEMMA UnmovedNow == TInv => UnmovedBucketsEmpty
BY DEF TInv, Good, UnmovedBucketsEmpty

\* move_bucket overwrites nothing.
THEOREM NothingOverwritten == Spec => []UnmovedBucketsEmpty
BY UnmovedNow, Invariant, PTL

LEMMA SizeNow == TInv => SizeIsExact
<1> SUFFICES ASSUME TInv PROVE SizeIsExact
  OBVIOUS
<1>1. /\ Represents(hp, buckets, old, late, Content)
      /\ Sum(counter, Locks) = Cardinality(HeldKeys(Content))
  BY TableNow DEF Counts
<1>2. Cardinality(HeldKeys(Content)) = Cardinality(Taken(buckets)) + Cardinality(Taken(old))
  BY <1>1, Held
<1> QED
  BY <1>1, <1>2, ElementsIs DEF SizeIsExact

\* The counters, of which each may be wrong and none is locked when size() reads
\* it, add up to the number of elements at every moment.
THEOREM SizeExact == Spec => []SizeIsExact
BY SizeNow, Invariant, PTL

LEMMA PathsNow == TInv => PathFollowsHashes
<1> DEFINE Both(p, h) == {index_hash(p, h), alt_index(p, h, index_hash(p, h))}
<1>1. \A p, k : Both(p, Hash[k]) = Two(p, k)
  BY DEF Two, First, Second
<1> SUFFICES ASSUME TInv, NEW t \in Threads, At(t, "fill") \/ At(t, "move")
             PROVE  /\ my[t].path # <<>> => my[t].path[1].bucket \in Both(my[t].hp, Hash[Key(t)])
                    /\ \A i \in 1 .. Len(my[t].path) - 1 :
                         {my[t].path[i].bucket, my[t].path[i + 1].bucket}
                           = Both(my[t].hp, my[t].path[i].hv)
  BY DEF PathFollowsHashes
<1> HIDE DEF Both
<1> DEFINE p == my[t].hp
           path == my[t].path
<1>2. PathOf(p, path, Key(t)) /\ p \in 0 .. MaxHp
  BY InCall DEF At, LocalOK, Locals, Key
<1>3. ASSUME NEW i \in 1 .. Len(path) - 1
      PROVE  {path[i].bucket, path[i + 1].bucket} = Both(p, path[i].hv)
  <2>1. PICK k \in Keys : path[i].hv = Hash[k] /\ path[i].bucket \in Two(p, k)
    BY <1>2, <1>3 DEF PathOf, ReadAt
  <2>2. path[i + 1].bucket = alt_index(p, Hash[k], path[i].bucket)
    BY <1>2, <1>3, <2>1 DEF PathOf
  <2>3. {path[i].bucket, alt_index(p, Hash[k], path[i].bucket)} = Two(p, k)
    BY <1>2, <2>1, OtherBucket
  <2> QED
    BY <1>1, <2>1, <2>2, <2>3
<1> QED
  BY <1>1, <1>2, <1>3 DEF PathOf

\* The asserts of cuckoopath_search, cuckoopath_move and run_cuckoo about the
\* buckets of a path.
THEOREM PathsFollowHashes == Spec => []PathFollowsHashes
BY PathsNow, Invariant, PTL

\* The table implements the map: every operation takes effect in one step
\* between call and return, and displacement, expansion and migration are
\* invisible.
THEOREM Refinement == ASSUME MapCalls PROVE Spec => ImplementsMap
<1>1. Init => KVM!Init
  BY TableInit
<1>2. TInv /\ [Next]_vars => [KVM!Next]_(KVM!map)
  BY TableStep
<1> QED
  BY <1>1, <1>2, Invariant, PTL DEF Spec, ImplementsMap, KVM!Spec
=============================================================================
