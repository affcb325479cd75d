------------------------- MODULE LockedTableProofs -------------------------
(***************************************************************************)
(* Proofs about LockedTable.tla, for any number of threads, workers, keys, *)
(* slots and locks, any hash function and any calls: workers have nothing  *)
(* in common, and what cuckoo_expand_simple moves and a locked_table       *)
(* erases, saves and loads leaves the table as CuckooTableProofs.tla shows *)
(* it to be; and the table with its list implements LockedMap.             *)
(***************************************************************************)
EXTENDS LockedTable, CuckooTableProofs

-----------------------------------------------------------------------------
(* Shares of work.                                                         *)

Worker == [next : Nat, end : Nat, failed : BOOLEAN]

\* The shares of workers ws follow each other.
InOrder(ws) ==
  /\ ws = [w \in DOMAIN ws |-> ws[w]] /\ DOMAIN ws \subseteq Nat
  /\ \A w \in DOMAIN ws : ws[w] \in Worker
  /\ \A v, w \in DOMAIN ws : v < w => ws[v].end <= ws[w].next

LeftTo(ws, i) == \E w \in DOMAIN ws : i \in ws[w].next .. ws[w].end - 1

LEMMA WorkerIs ==
  \A a \in Nat, b \in Nat, f \in BOOLEAN : [next |-> a, end |-> b, failed |-> f] \in Worker
BY DEF Worker

LEMMA ProductGrows ==
  ASSUME NEW a \in Nat, NEW m \in Nat, NEW n \in Nat, m <= n
  PROVE  m * a \in Nat /\ n * a \in Nat /\ m * a <= n * a
<1>1. PICK d \in Nat : n = m + d
  <2>1. n - m \in Nat /\ n = m + (n - m)
    OBVIOUS
  <2> QED
    BY <2>1
<1>2. n * a = m * a + d * a /\ d * a \in Nat /\ m * a \in Nat
  BY <1>1
<1> QED
  BY <1>2

\* The shares cover everything once.
LEMMA RangesFacts ==
  ASSUME NEW size \in Nat, NEW width \in Nat \ {0}, NEW extra \in Nat
  PROVE  LET R == Ranges(size, width, extra) IN
         /\ InOrder(R)
         /\ \A i \in 0 .. size * width - 1 : LeftTo(R, i)
         /\ \A w \in DOMAIN R : R[w].end <= size * width /\ ~R[w].failed
<1> DEFINE R == Ranges(size, width, extra)
           n == extra + 1
           share == size \div n
           a == share * width
           total == size * width
<1>1. /\ n \in Nat \ {0} /\ share \in Nat /\ share * n <= size /\ a \in Nat /\ total \in Nat
      /\ a * extra <= total /\ a * n <= total /\ n = extra + 1
  <2>1. n \in Nat \ {0}
    OBVIOUS
  <2> HIDE DEF n
  <2>2. share \in Nat /\ size = share * n + (size % n) /\ size % n \in Nat
    BY <2>1, Quotients
  <2> HIDE DEF share
  <2>8. n = extra + 1
    BY DEF n
  <2>3. n * share \in Nat /\ extra * share \in Nat /\ extra * share <= n * share
    BY <2>1, <2>2, <2>8, ProductGrows
  <2>4. share * n = n * share /\ share * n <= size
    BY <2>1, <2>2, <2>3
  <2> DEFINE c == n * share
             d == extra * share
  <2>5. c \in Nat /\ d \in Nat /\ c <= size /\ d <= c
    BY <2>3, <2>4
  <2>6. c * width <= total /\ d * width <= total /\ a \in Nat /\ total \in Nat
    <3> HIDE DEF c, d
    <3>1. c * width <= size * width /\ d * width <= size * width
      BY <2>5, ProductGrows
    <3> QED
      BY <2>2, <3>1
  <2>7. c * width = a * n /\ d * width = a * extra
    BY <2>1, <2>2
  <2> QED
    BY <2>1, <2>2, <2>4, <2>6, <2>7, <2>8
<1>2. ASSUME NEW w \in 1 .. n
      PROVE  /\ R[w].next = (w - 1) * a /\ R[w].end = IF w = n THEN total ELSE w * a
             /\ R[w].failed = FALSE
             /\ R[w] = [next |-> R[w].next, end |-> R[w].end, failed |-> R[w].failed]
  <2>1. R[w] = [next |-> (w - 1) * share * width,
                end |-> IF w = n THEN size * width ELSE w * share * width, failed |-> FALSE]
    BY DEF Ranges
  <2>3. n = extra + 1
    OBVIOUS
  <2>2. (w - 1) * share * width = (w - 1) * a /\ w * share * width = w * a
    <3> HIDE DEF share
    <3> QED
      BY <1>1
  <2> QED
    BY <2>1, <2>2
<1>3. R = [w \in 1 .. n |-> R[w]] /\ DOMAIN R = 1 .. n
  BY DEF Ranges
<1> HIDE DEF R, a, total, share, n
<1>4. \A w \in 1 .. n : w - 1 \in Nat /\ w \in Nat /\ (w - 1) * a \in Nat /\ w * a \in Nat
  BY <1>1, ProductGrows
<1>5. ASSUME NEW w \in 1 .. n PROVE R[w] \in Worker
  <2>1. R[w].next \in Nat
    BY <1>2, <1>4
  <2>2. R[w].end \in Nat
    BY <1>1, <1>2, <1>4
  <2>3. R[w].failed \in BOOLEAN
    BY <1>2
  <2> QED
    BY <1>2, <2>1, <2>2, <2>3, WorkerIs
<1>6. ASSUME NEW v \in 1 .. n, NEW w \in 1 .. n, v < w PROVE R[v].end <= R[w].next
  <2>1. v # n /\ v <= w - 1 /\ v \in Nat /\ w - 1 \in Nat
    BY <1>1, <1>6
  <2>2. v * a <= (w - 1) * a
    BY <1>1, <2>1, ProductGrows
  <2> QED
    BY <1>2, <2>1, <2>2
<1>7. ASSUME NEW w \in 1 .. n PROVE R[w].end <= total
  <2>1. R[w].end = IF w = n THEN total ELSE w * a
    BY <1>2
  <2>2. w <= n /\ w \in Nat /\ n \in Nat /\ a \in Nat /\ total \in Nat /\ a * n <= total
    BY <1>1
  <2>3. w * a <= n * a /\ n * a = a * n
    BY <2>2, ProductGrows
  <2>4. w * a <= total /\ total <= total
    <3>1. w * a \in Nat /\ a * n \in Nat
      BY <2>2
    <3> QED
      BY <2>2, <2>3, <3>1
  <2> QED
    BY <2>1, <2>4
<1>8. ASSUME NEW i \in 0 .. total - 1 PROVE LeftTo(R, i)
  <2>3. extra * a \in Nat
    BY <1>1, ProductGrows
  <2>1. CASE extra * a <= i
    <3>1. n \in 1 .. n /\ n - 1 = extra
      BY <1>1
    <3>2. R[n].next = extra * a /\ R[n].end = total
      BY <1>2, <3>1
    <3>3. i \in R[n].next .. R[n].end - 1
      BY <1>1, <2>1, <2>3, <3>2
    <3> QED
      BY <1>3, <3>1, <3>3 DEF LeftTo
  <2>2. CASE i < extra * a
    <3>1. a # 0 /\ i \in Nat
      BY <1>1, <2>2
    <3> DEFINE q == i \div a
               r == i % a
    <3>2. q \in Nat /\ r \in 0 .. a - 1 /\ i = q * a + r
      BY <1>1, <3>1, Quotients
    <3> HIDE DEF q, r
    <3>3. q < extra
      <4> SUFFICES ASSUME extra <= q PROVE FALSE
        BY <3>2
      <4>1. extra * a <= q * a /\ q * a \in Nat
        BY <1>1, <3>2, ProductGrows
      <4> DEFINE c == q * a
      <4>2. c \in Nat /\ i = c + r /\ extra * a <= c
        BY <3>2, <4>1
      <4> HIDE DEF c
      <4> QED
        BY <2>2, <2>3, <3>2, <4>2
    <3> DEFINE w == q + 1
    <3>4. w \in 1 .. n /\ w # n /\ w - 1 = q
      BY <1>1, <3>2, <3>3
    <3>5. w * a = q * a + a /\ q * a \in Nat
      BY <1>1, <3>2
    <3> HIDE DEF w
    <3>6. R[w].next = q * a /\ R[w].end = w * a
      BY <1>2, <3>4
    <3>7. i \in R[w].next .. R[w].end - 1
      BY <1>1, <3>2, <3>5, <3>6
    <3> QED
      BY <1>3, <3>4, <3>7 DEF LeftTo
  <2> QED
    BY <2>1, <2>2, <2>3
<1>9. InOrder(R)
  <2>1. 1 .. n \subseteq Nat
    BY <1>1
  <2> QED
    BY <1>3, <1>5, <1>6, <2>1 DEF InOrder
<1> QED
  <2>1. \A w \in 1 .. n : ~R[w].failed
    BY <1>2, Zenon
  <2> QED
    BY <1>3, <1>7, <1>8, <1>9, <2>1 DEF R, total

\* The next step of a worker.
TakeNext(ws, w) == [ws EXCEPT ![w].next = @ + 1]

LEMMA NextInOrder ==
  ASSUME NEW ws, InOrder(ws), NEW w \in DOMAIN ws, ws[w].next < ws[w].end, NEW vs,
         vs = TakeNext(ws, w)
  PROVE  /\ InOrder(vs) /\ DOMAIN vs = DOMAIN ws
         /\ \A u \in DOMAIN ws : vs[u].end = ws[u].end /\ vs[u].failed = ws[u].failed
         /\ \A i : LeftTo(ws, i) /\ i # ws[w].next => LeftTo(vs, i)
<1> DEFINE x == ws[w]
           n == x.next + 1
           y == [next |-> n, end |-> x.end, failed |-> x.failed]
<1>1. /\ ws = [u \in DOMAIN ws |-> ws[u]] /\ DOMAIN ws \subseteq Nat /\ x \in Worker
      /\ \A u \in DOMAIN ws : ws[u] \in Worker
      /\ \A u, v \in DOMAIN ws : u < v => ws[u].end <= ws[v].next
  BY DEF InOrder
<1>2. n \in Nat /\ x.end \in Nat /\ x.next \in Nat /\ n <= x.end
      /\ x = [next |-> x.next, end |-> x.end, failed |-> x.failed]
  BY <1>1 DEF Worker
<1>3. [x EXCEPT !.next = n] = y /\ y \in Worker /\ y.next = n /\ y.end = x.end /\ y.failed = x.failed
  <2> HIDE DEF n, x
  <2> QED
    BY <1>1, <1>2 DEF Worker
<1>4. vs = [ws EXCEPT ![w] = [x EXCEPT !.next = n]]
  BY DEF TakeNext
<1>5. vs = [u \in DOMAIN ws |-> IF u = w THEN y ELSE ws[u]]
  BY <1>1, <1>3, <1>4
<1> HIDE DEF y
<1>6. DOMAIN vs = DOMAIN ws /\ vs = [u \in DOMAIN vs |-> vs[u]]
      /\ vs[w] = y /\ \A u \in DOMAIN ws : u # w => vs[u] = ws[u]
  BY <1>5
<1>7. \A u \in DOMAIN vs : vs[u] \in Worker /\ vs[u].end = ws[u].end /\ vs[u].failed = ws[u].failed
  BY <1>1, <1>3, <1>6
<1>8. ASSUME NEW u \in DOMAIN vs, NEW v \in DOMAIN vs, u < v PROVE vs[u].end <= vs[v].next
  <2>1. vs[u].end = ws[u].end /\ ws[u].end <= ws[v].next /\ ws[u].end \in Nat
    BY <1>1, <1>6, <1>7, <1>8 DEF Worker
  <2>2. CASE v = w
    BY <1>2, <1>3, <1>6, <2>1, <2>2
  <2>3. CASE v # w
    BY <1>6, <2>1, <2>3
  <2> QED
    BY <2>2, <2>3
<1>9. InOrder(vs)
  BY <1>1, <1>6, <1>7, <1>8 DEF InOrder
<1>10. ASSUME NEW i, LeftTo(ws, i), i # ws[w].next PROVE LeftTo(vs, i)
  <2>1. PICK u \in DOMAIN ws : i \in ws[u].next .. ws[u].end - 1
    BY <1>10 DEF LeftTo
  <2>2. i \in vs[u].next .. vs[u].end - 1
    <3>1. CASE u = w
      BY <1>2, <1>3, <1>6, <1>10, <2>1, <3>1
    <3>2. CASE u # w
      BY <1>6, <2>1, <3>2
    <3> QED
      BY <3>1, <3>2
  <2> QED
    BY <1>6, <2>1, <2>2 DEF LeftTo
<1> QED
  BY <1>6, <1>7, <1>9, <1>10

\* A worker that fails keeps its share.
SetFailed(ws, w, f) == [ws EXCEPT ![w].failed = f]

LEMMA FailInOrder ==
  ASSUME NEW ws, InOrder(ws), NEW w \in DOMAIN ws, NEW f \in BOOLEAN, NEW vs, vs = SetFailed(ws, w, f)
  PROVE  /\ InOrder(vs) /\ DOMAIN vs = DOMAIN ws
         /\ \A u \in DOMAIN ws : vs[u].next = ws[u].next /\ vs[u].end = ws[u].end
         /\ \A i : LeftTo(ws, i) => LeftTo(vs, i)
<1> DEFINE x == ws[w]
           y == [next |-> x.next, end |-> x.end, failed |-> f]
<1>1. /\ ws = [u \in DOMAIN ws |-> ws[u]] /\ DOMAIN ws \subseteq Nat /\ x \in Worker
      /\ \A u \in DOMAIN ws : ws[u] \in Worker
      /\ \A u, v \in DOMAIN ws : u < v => ws[u].end <= ws[v].next
  BY DEF InOrder
<1>2. /\ x.end \in Nat /\ x.next \in Nat
      /\ x = [next |-> x.next, end |-> x.end, failed |-> x.failed]
  BY <1>1 DEF Worker
<1>3. [x EXCEPT !.failed = f] = y /\ y.next = x.next /\ y.end = x.end
  <2> DEFINE a == x.next
             b == x.end
             c == x.failed
  <2>1. x = [next |-> a, end |-> b, failed |-> c]
    BY <1>2
  <2>2. y = [next |-> a, end |-> b, failed |-> f]
    OBVIOUS
  <2> HIDE DEF x, y, a, b, c
  <2>3. [x EXCEPT !.failed = f] = y /\ y.next = a /\ y.end = b
    BY <2>1, <2>2
  <2> QED
    BY <2>3 DEF a, b
<1>4. y \in Worker
  BY <1>2, WorkerIs
<1>10. vs = [ws EXCEPT ![w] = [x EXCEPT !.failed = f]]
  BY DEF SetFailed
<1>5. vs = [u \in DOMAIN ws |-> IF u = w THEN y ELSE ws[u]]
  BY <1>1, <1>3, <1>10
<1> HIDE DEF y
<1>6. DOMAIN vs = DOMAIN ws /\ vs = [u \in DOMAIN vs |-> vs[u]]
      /\ vs[w] = y /\ \A u \in DOMAIN ws : u # w => vs[u] = ws[u]
  BY <1>5
<1>7. \A u \in DOMAIN vs : vs[u] \in Worker /\ vs[u].end = ws[u].end /\ vs[u].next = ws[u].next
  BY <1>1, <1>3, <1>4, <1>6
<1>8. InOrder(vs)
  BY <1>1, <1>6, <1>7 DEF InOrder
<1>9. \A i : LeftTo(ws, i) => LeftTo(vs, i)
  BY <1>6, <1>7 DEF LeftTo
<1> QED
  BY <1>6, <1>7, <1>8, <1>9

-----------------------------------------------------------------------------
(* The local variables of an operation that has all the locks.             *)

JobIs(j, s, ws, h, i, v, a) ==
  j = [stage |-> s, workers |-> ws, hp |-> h, into |-> i, moved |-> v, at |-> a]
JobShape(j) == JobIs(j, j.stage, j.workers, j.hp, j.into, j.moved, j.at)

LEMMA JobFields ==
  ASSUME NEW j, NEW s, NEW ws, NEW h, NEW i, NEW v, NEW a, JobIs(j, s, ws, h, i, v, a)
  PROVE  /\ JobShape(j)
         /\ j.stage = s /\ j.workers = ws /\ j.hp = h /\ j.into = i /\ j.moved = v /\ j.at = a
BY DEF JobIs, JobShape

\* One of the variables changes.
LEMMA JobSet ==
  ASSUME NEW j, NEW s, NEW ws, NEW h, NEW i, NEW v, NEW a, JobIs(j, s, ws, h, i, v, a), NEW x
  PROVE  /\ JobIs([j EXCEPT !.stage = x], x, ws, h, i, v, a)
         /\ JobIs([j EXCEPT !.workers = x], s, x, h, i, v, a)
         /\ JobIs([j EXCEPT !.hp = x], s, ws, x, i, v, a)
         /\ JobIs([j EXCEPT !.into = x], s, ws, h, x, v, a)
         /\ JobIs([j EXCEPT !.moved = x], s, ws, h, i, x, a)
         /\ JobIs([j EXCEPT !.at = x], s, ws, h, i, v, x)
<1>1. j = [stage |-> s, workers |-> ws, hp |-> h, into |-> i, moved |-> v, at |-> a]
  BY DEF JobIs
<1>2. [j EXCEPT !.stage = x] = [stage |-> x, workers |-> ws, hp |-> h, into |-> i, moved |-> v, at |-> a]
  BY <1>1
<1>3. [j EXCEPT !.workers = x] = [stage |-> s, workers |-> x, hp |-> h, into |-> i, moved |-> v, at |-> a]
  BY <1>1
<1>4. [j EXCEPT !.hp = x] = [stage |-> s, workers |-> ws, hp |-> x, into |-> i, moved |-> v, at |-> a]
  BY <1>1
<1>5. [j EXCEPT !.into = x] = [stage |-> s, workers |-> ws, hp |-> h, into |-> x, moved |-> v, at |-> a]
  BY <1>1
<1>6. [j EXCEPT !.moved = x] = [stage |-> s, workers |-> ws, hp |-> h, into |-> i, moved |-> x, at |-> a]
  BY <1>1
<1>7. [j EXCEPT !.at = x] = [stage |-> s, workers |-> ws, hp |-> h, into |-> i, moved |-> v, at |-> x]
  BY <1>1
<1> QED
  BY <1>2, <1>3, <1>4, <1>5, <1>6, <1>7 DEF JobIs

JobOK ==
  /\ JobShape(job)
  /\ job.stage \in {"none", "migrate", "transfer"} /\ job.hp \in 0 .. MaxHp
  /\ InOrder(job.workers)

LEMMA NoWorkers == InOrder(<<>>) /\ DOMAIN <<>> = {}
BY DEF InOrder

LEMMA NoJobIs == JobIs(NoJob, "none", <<>>, 0, {}, {}, None)
BY DEF NoJob, JobIs

\* The hashpower a resize is to have.
TargetOf(c) == IF c.op = "rehash" THEN c.hp ELSE ReserveCalc(c.num)
Settle      == [op |-> "settle"]
AllCalls    == Workload \cup SessionWork \cup {Settle}
Resizes     == {"rehash", "reserve"}

LEMMA LockedCallFacts ==
  /\ \A c \in AllCalls : c # None /\ CallOK(c)
  /\ \A c \in Workload \cup SessionWork : c.op # "settle"
  /\ \A c \in AllCalls : c.op \in Resizes => TargetOf(c) \in Nat
<1>1. /\ Workload \cup SessionWork \subseteq LM!LockedCalls
      /\ None \notin AllCalls
  BY CallsAssumption DEF AllCalls, Settle
<1>2. ASSUME NEW c \in LM!LockedCalls
      PROVE  /\ c.op # "settle"
             /\ c.op = "rehash" => c.hp \in Nat
             /\ c.op = "reserve" => c.num \in Nat
             /\ c.op \in Insertions \cup {"update"} => c.key \in Keys /\ c.val \in Vals
             /\ c.op \in {"find", "erase"} => c.key \in Keys
  <2>1. CASE c \in [op : LM!OnValues, key : Keys, val : Vals]
    BY <2>1 DEF LM!OnValues, LM!Insertions, Insertions
  <2>2. CASE c \in [op : {"find", "erase"}, key : Keys]
    BY <2>2 DEF Insertions
  <2>3. CASE c \in [op : {"clear", "size"}]
    BY <2>3 DEF Insertions
  <2>4. CASE c \in [op : {"rehash"}, hp : Nat]
    BY <2>4 DEF Insertions
  <2>5. CASE c \in [op : {"reserve"}, num : Nat]
    BY <2>5 DEF Insertions
  <2>6. CASE c \in [op : LM!Moves \cup {"lock", "unlock", "erase_at", "save", "load"}]
    BY <2>6 DEF LM!Moves, Insertions
  <2> QED
    BY <2>1, <2>2, <2>3, <2>4, <2>5, <2>6 DEF LM!LockedCalls, LM!Calls, LM!Resizing
<1>3. Settle.op = "settle"
  BY DEF Settle
<1>4. ASSUME NEW c \in Workload \cup SessionWork, c.op = "reserve" PROVE ReserveCalc(c.num) \in Nat
  <2> DEFINE n == c.num
             enough == {p \in 0 .. n : Size(p) >= (n + SlotPerBucket - 1) \div SlotPerBucket}
  <2>1. n \in Nat
    BY <1>1, <1>2, <1>4
  <2>2. enough \subseteq Nat /\ enough # {}
    BY <1>4, <2>1, ReserveAssumption
  <2>3. ReserveCalc(n) = CHOOSE p \in enough : \A q \in enough : p <= q
    BY DEF ReserveCalc
  <2> HIDE DEF n, enough
  <2>4. \E p \in enough : \A q \in enough : p <= q
    BY <2>2, LeastElement
  <2>5. ReserveCalc(n) \in enough
    BY <2>3, <2>4
  <2> QED
    BY <2>2, <2>5 DEF n
<1>5. ASSUME NEW c \in AllCalls, c.op \in Resizes PROVE TargetOf(c) \in Nat
  <2>1. c \in Workload \cup SessionWork
    BY <1>3, <1>5 DEF AllCalls, Resizes
  <2>2. CASE c.op = "rehash"
    BY <1>1, <1>2, <2>1, <2>2 DEF TargetOf
  <2>3. CASE c.op = "reserve"
    BY <1>4, <2>1, <2>3 DEF TargetOf
  <2> QED
    BY <1>5, <2>2, <2>3 DEF Resizes
<1>6. ASSUME NEW c \in AllCalls PROVE c # None /\ CallOK(c)
  <2>1. c # None
    BY <1>1
  <2>2. CASE c \in Workload \cup SessionWork
    BY <1>1, <1>2, <2>1, <2>2 DEF CallOK
  <2>3. CASE c = Settle
    BY <1>3, <2>1, <2>3 DEF CallOK, Insertions
  <2> QED
    BY <2>1, <2>2, <2>3 DEF AllCalls
<1>7. \A c \in Workload \cup SessionWork : c.op # "settle"
  BY <1>1, <1>2
<1> QED
  BY <1>5, <1>6, <1>7

LEMMA MigrationRanges ==
  ASSUME NEW extra \in ExtraWorkers
  PROVE  LET R == Ranges(MaxNumLocks, 1, extra) IN
         /\ InOrder(R)
         /\ \A l \in Locks : LeftTo(R, l)
         /\ \A w \in DOMAIN R : R[w].end <= MaxNumLocks /\ ~R[w].failed
<1> DEFINE n == MaxNumLocks
<1>1. n \in Nat /\ extra \in Nat /\ 1 \in Nat \ {0} /\ n * 1 = n /\ Locks = 0 .. n - 1
  BY SizeAssumption, WorkersAssumption DEF Locks
<1> HIDE DEF n
<1> DEFINE R == Ranges(n, 1, extra)
           m == n * 1
<1>2. /\ InOrder(R)
      /\ \A i \in 0 .. m - 1 : LeftTo(R, i)
      /\ \A w \in DOMAIN R : R[w].end <= m /\ ~R[w].failed
  BY <1>1, RangesFacts
<1>3. m = n
  BY <1>1
<1> HIDE DEF R, m
<1> QED
  BY <1>1, <1>2, <1>3 DEF R, n

LEMMA TransferRanges ==
  ASSUME NEW extra \in ExtraWorkers, NEW p \in 0 .. MaxHp
  PROVE  LET R == Ranges(Size(p), SlotPerBucket, extra) IN
         /\ InOrder(R)
         /\ \A i \in 0 .. Size(p) * SlotPerBucket - 1 : LeftTo(R, i)
         /\ \A w \in DOMAIN R : R[w].end <= Size(p) * SlotPerBucket /\ ~R[w].failed
<1> DEFINE n == Size(p)
<1>1. n \in Nat /\ extra \in Nat /\ SlotPerBucket \in Nat \ {0}
  BY Sizes, SizeAssumption, WorkersAssumption
<1> HIDE DEF n
<1>2. LET R == Ranges(n, SlotPerBucket, extra) IN
      /\ InOrder(R)
      /\ \A i \in 0 .. n * SlotPerBucket - 1 : LeftTo(R, i)
      /\ \A w \in DOMAIN R : R[w].end <= n * SlotPerBucket /\ ~R[w].failed
  BY <1>1, RangesFacts
<1> QED
  BY <1>2 DEF n

-----------------------------------------------------------------------------
(* Who has the locks.                                                      *)

\* The thread t with local variables m in the call c, when the owner is o, l
\* tells whether it has a locked_table, s is the stage of its operation and f
\* the stream.
InsideOK(t, m, c, o, l, s, f) ==
  /\ Shape(m) /\ m.pc \in Pcs
  /\ m.pc = "idle" <=> c = None
  /\ c # None => c \in AllCalls
  /\ m.pc \in {"search", "fill", "move"} => c.op \in Insertions
  /\ m.pc = "resize" => c.op \in Resizes
  /\ m.pc = "build" => o = t /\ l /\ s = "migrate" /\ c.op = "lock"
  /\ m.pc \in {"forward", "backward"} => o = t /\ l /\ s = "none"
  /\ o = t => IF s = "none" THEN l
              ELSE m.pc = "build" \/ (m.pc = "resize" /\ TargetOf(c) <= MaxHp)
  /\ o = t /\ m.pc = "start" /\ c.op = "load" => f # None

Inside(t) == InsideOK(t, my[t], call[t], owner, locked, job.stage, file)

Ownership ==
  /\ owner \in Threads \cup {None} /\ locked \in BOOLEAN
  /\ owner = None => ~locked /\ job.stage = "none"
  /\ ~locked => it = None

\* An owner works for its call, and nobody else does.
CInv ==
  /\ hp \in 0 .. MaxHp /\ (file # None => file.hp \in 0 .. MaxHp)
  /\ JobOK /\ Ownership
  /\ my = [t \in Threads |-> my[t]] /\ call = [t \in Threads |-> call[t]]
  /\ \A t \in Threads : Inside(t)

\* A step of t.
LEMMA ControlStep ==
  ASSUME CInv, NEW t \in Threads, NEW m, NEW c,
         my' = [my EXCEPT ![t] = m], call' = [call EXCEPT ![t] = c],
         hp' \in 0 .. MaxHp, file' # None => file'.hp \in 0 .. MaxHp, JobOK', Ownership',
         \/ UNCHANGED <<owner, locked, file>> /\ job'.stage = job.stage
         \/ owner \in {None, t} /\ owner' \in {None, t},
         InsideOK(t, m, c, owner', locked', job'.stage, file')
  PROVE  CInv' /\ my'[t] = m /\ call'[t] = c
               /\ \A u \in Threads : u # t => my'[u] = my[u] /\ call'[u] = call[u]
<1>1. /\ my = [u \in Threads |-> my[u]] /\ call = [u \in Threads |-> call[u]]
      /\ \A u \in Threads : Inside(u)
  BY DEF CInv
<1>2. /\ my' = [u \in Threads |-> my'[u]] /\ call' = [u \in Threads |-> call'[u]]
      /\ my'[t] = m /\ call'[t] = c
      /\ \A u \in Threads : u # t => my'[u] = my[u] /\ call'[u] = call[u]
  BY <1>1
<1>3. ASSUME NEW u \in Threads PROVE Inside(u)'
  <2>1. CASE u = t
    BY <1>2, <2>1 DEF Inside
  <2>2. CASE u # t
    <3>1. InsideOK(u, my[u], call[u], owner, locked, job.stage, file)
      BY <1>1 DEF Inside
    <3>2. my'[u] = my[u] /\ call'[u] = call[u] /\ u # None
      BY <1>2, <2>2, OwnerAssumption
    <3>3. CASE UNCHANGED <<owner, locked, file>> /\ job'.stage = job.stage
      BY <3>1, <3>2, <3>3 DEF Inside
    <3>4. CASE owner \in {None, t} /\ owner' \in {None, t}
      <4>1. owner # u /\ owner' # u
        BY <2>2, <3>2, <3>4
      <4> QED
        BY <3>1, <3>2, <4>1 DEF Inside, InsideOK
    <3> QED
      BY <3>3, <3>4
  <2> QED
    BY <2>1, <2>2
<1> QED
  BY <1>2, <1>3 DEF CInv

\* A step of a worker.
LEMMA ControlWork ==
  ASSUME CInv, UNCHANGED <<hp, call, my, owner, locked, it, file>>, JobOK', job'.stage = job.stage
  PROVE  CInv'
<1>1. Ownership'
  BY DEF CInv, Ownership
<1>2. \A u \in Threads : Inside(u)'
  BY DEF CInv, Inside
<1> QED
  BY <1>1, <1>2 DEF CInv

LEMMA ControlInit == LockedInit => CInv
<1> SUFFICES ASSUME LockedInit PROVE CInv
  OBVIOUS
<1>1. /\ hp = FirstHp /\ call = [t \in Threads |-> None] /\ my = [t \in Threads |-> Idle]
      /\ owner = None /\ locked = FALSE /\ job = NoJob /\ it = None /\ file = None
  BY DEF LockedInit
<1>2. /\ JobShape(job) /\ job.stage = "none" /\ job.workers = <<>> /\ job.hp = 0
  BY <1>1, NoJobIs, JobFields
<1>3. JobOK
  BY <1>2, NoWorkers, SizeAssumption DEF JobOK
<1>4. Idle.pc = "idle" /\ Shape(Idle)
  BY DEF Idle, Shape
<1>5. \A t \in Threads : Inside(t)
  BY <1>1, <1>2, <1>4, OwnerAssumption DEF Inside, InsideOK, Pcs, MapPcs
<1> QED
  BY <1>1, <1>2, <1>3, <1>5, SizeAssumption DEF CInv, Ownership

LEMMA StepBusy ==
  ASSUME NEW t \in Threads, Step(t)
  PROVE  my[t].pc \in MapPcs \ {"idle"}
BY DEF Step, Find, Update, Erase, Clear, ReadCounter, ReturnSize, Insert, SearchBucket, FillPath,
       MoveElement, MoveLast, MoveNothing, UnderExpansion, ExpandThrows, ExpandLate, Double,
       TableFull, At, MapPcs

LEMMA HpAfter ==
  ASSUME NEW t \in Threads, Step(t), hp \in 0 .. MaxHp,
         my[t].pc = "move" => call[t].op \in Insertions
  PROVE  hp' \in 0 .. MaxHp
<1>1. CASE Double(t)
  BY <1>1, SizeAssumption DEF Double, MaximumExceeded, Current
<1>7. \A ls, tb : Under(ls, tb) => hp' = hp
  BY DEF Under
<1>8. \A ls, tb, x : Delete(ls, tb, x) \/ Add(t, ls, tb, x) => hp' = hp
  BY <1>7 DEF Delete, Add
<1>9. ASSUME NEW ls, NEW tb, NEW x, UseExisting(t, ls, tb, x), Op(t) \in Insertions PROVE hp' = hp
  BY <1>7, <1>8, <1>9 DEF UseExisting, Insertions
<1>2. \A ls, tb, x : Under(ls, tb) \/ Delete(ls, tb, x) \/ Add(t, ls, tb, x) 
                       \/ (UseExisting(t, ls, tb, x) /\ Op(t) \in Insertions)
        => hp' = hp
  BY <1>7, <1>8, <1>9
<1>3. \A ls, tb, x : InsertAfterCuckoo(t, ls, tb, x) /\ Op(t) \in Insertions => hp' = hp
  BY <1>2 DEF InsertAfterCuckoo
<1>4. CASE Find(t) \/ Update(t) \/ Erase(t) \/ Insert(t) \/ SearchBucket(t) \/ FillPath(t)
  BY <1>2, <1>4 DEF Find, Update, Erase, Insert, SearchBucket, FillPath
<1>5. CASE MoveElement(t) \/ MoveLast(t) \/ MoveNothing(t)
  BY <1>2, <1>3, <1>5 DEF MoveElement, MoveLast, MoveNothing, At, Op
<1>6. CASE Clear(t) \/ ReadCounter(t) \/ ReturnSize(t) \/ UnderExpansion(t) \/ ExpandThrows(t) \/ ExpandLate(t)
  BY <1>6 DEF Clear, ReadCounter, ReturnSize, UnderExpansion, ExpandThrows, ExpandLate, table
<1> QED
  BY <1>1, <1>4, <1>5, <1>6 DEF Step

\* What a step does to its thread.
LEMMA Onward ==
  ASSUME NEW t \in Threads
  PROVE  /\ \A r : Return(t, r) => my' = [my EXCEPT ![t] = Idle] /\ call' = [call EXCEPT ![t] = None]
         /\ \A m : Go(t, m) /\ Stay /\ CInv =>
              my' = [my EXCEPT ![t] = m] /\ call' = [call EXCEPT ![t] = call[t]]
         /\ CInv /\ UNCHANGED <<my, call>> =>
              my' = [my EXCEPT ![t] = my[t]] /\ call' = [call EXCEPT ![t] = call[t]]
BY DEF Return, Go, Stay, CInv

LEMMA IdleIs ==
  /\ Shape(Idle) /\ Idle.pc = "idle" /\ Shape(Restart) /\ Restart.pc = "start"
  /\ \A w : LET m == [Idle EXCEPT !.pc = w] IN Shape(m) /\ m.pc = w
<1>1. Shape(Idle) /\ Idle.pc = "idle"
  BY DEF Shape, Idle
<1> DEFINE i == Idle
<1> HIDE DEF i
<1>2. Shape(i)
  BY <1>1 DEF i
<1>3. ASSUME NEW w PROVE LET m == [i EXCEPT !.pc = w] IN Shape(m) /\ m.pc = w
  BY ZenonT(60), <1>2, FieldKept
<1> QED
  BY <1>1, <1>3 DEF Restart, i

\* A call returns, of any thread but an owner without a locked_table.
LEMMA ReturnedOK ==
  ASSUME NEW t, NEW o, NEW l, NEW s, NEW f, o = t => l /\ s = "none"
  PROVE  InsideOK(t, Idle, None, o, l, s, f)
BY IdleIs DEF InsideOK, Pcs, MapPcs

\* Only an insertion searches, or begins again.
LEMMA OnlyInsertionsSearch ==
  ASSUME CInv, NEW t \in Threads, Step(t), my'[t].pc \in {"start", "search", "fill", "move"}
  PROVE  call[t].op \in Insertions
<1>1. my = [u \in Threads |-> my[u]] /\ InsideOK(t, my[t], call[t], owner, locked, job.stage, file)
  BY DEF CInv, Inside
<1>2. CASE my[t].pc \in {"search", "fill", "move"}
  BY <1>1, <1>2 DEF InsideOK
<1>3. CASE Insert(t)
  BY <1>3 DEF Insert, Op
<1>4. CASE Find(t) \/ Update(t) \/ Erase(t) \/ Clear(t) \/ ReturnSize(t)
  <2>1. \E r : Return(t, r)
    BY <1>4 DEF Find, Update, Erase, Clear, ReturnSize
  <2>2. my'[t] = Idle
    BY <1>1, <2>1 DEF Return, Go
  <2> QED
    BY <2>2, IdleIs
<1>5. CASE ReadCounter(t)
  <2> DEFINE m == [my[t] EXCEPT !.pc = "sum", !.sum = @ + counter[my[t].root], !.root = @ + 1]
  <2>1. my' = [my EXCEPT ![t] = m]
    BY <1>5 DEF ReadCounter, Go
  <2>2. m.pc = "sum"
    <3>1. my[t] = [pc |-> my[t].pc, hp |-> my[t].hp, queue |-> my[t].queue, root |-> my[t].root,
                   slots |-> my[t].slots, path |-> my[t].path, sum |-> my[t].sum]
      BY <1>1 DEF InsideOK, Shape
    <3> QED
      BY <3>1
  <2> HIDE DEF m
  <2>3. my'[t] = m
    BY <1>1, <2>1
  <2> QED
    BY <2>2, <2>3
<1>6. my[t].pc \notin {"search", "fill", "move"} =>
        Insert(t) \/ Find(t) \/ Update(t) \/ Erase(t) \/ Clear(t) \/ ReadCounter(t) \/ ReturnSize(t)
  BY DEF Step, SearchBucket, FillPath, MoveElement, MoveLast, MoveNothing, UnderExpansion,
         ExpandThrows, ExpandLate, Double, TableFull, At
<1> QED
  BY <1>2, <1>3, <1>4, <1>5, <1>6

\* A step of CuckooTable.tla by a thread that has not got the locks, or that has
\* a locked_table.
LEMMA StepControl ==
  ASSUME CInv, NEW t \in Threads, Step(t), Ownership', JobOK', job'.stage = job.stage,
         UNCHANGED <<owner, locked, file>>
  PROVE  CInv'
<1>1. /\ InsideOK(t, my[t], call[t], owner, locked, job.stage, file)
      /\ hp \in 0 .. MaxHp /\ (file # None => file.hp \in 0 .. MaxHp)
      /\ my = [u \in Threads |-> my[u]] /\ call = [u \in Threads |-> call[u]]
  BY DEF CInv, Inside
<1>2. my[t].pc \in MapPcs \ {"idle"} /\ call[t] # None /\ call[t] \in AllCalls
  BY <1>1, StepBusy DEF InsideOK
<1>3. hp' \in 0 .. MaxHp
  BY <1>1, HpAfter DEF InsideOK
<1>4. owner = t => locked /\ job.stage = "none"
  BY <1>1, <1>2 DEF InsideOK, MapPcs
<1>5. Returns(t) \/ GoesOn(t)
  BY <1>1, StepMoves DEF InsideOK
<1>6. CASE Returns(t)
  <2>1. my' = [my EXCEPT ![t] = Idle] /\ call' = [call EXCEPT ![t] = None]
    BY <1>6 DEF Returns, Return, Go
  <2>2. InsideOK(t, Idle, None, owner', locked', job'.stage, file')
    BY <1>4, ReturnedOK
  <2> QED
    BY <1>1, <1>3, <2>1, <2>2, ControlStep
<1>7. CASE GoesOn(t)
  <2>1. PICK m : Stay /\ Go(t, m) /\ Shape(m) /\ m.pc \in MapPcs \ {"idle"}
    BY <1>7 DEF GoesOn
  <2>2. my' = [my EXCEPT ![t] = m] /\ call' = [call EXCEPT ![t] = call[t]] /\ my'[t] = m
    BY <1>1, <2>1 DEF Stay, Go
  <2>3. m.pc \in {"search", "fill", "move"} => call[t].op \in Insertions
    BY <2>2, OnlyInsertionsSearch
  <2>4. owner = t /\ m.pc = "start" /\ call[t].op = "load" => file # None
    BY <2>2, OnlyInsertionsSearch DEF Insertions
  <2>5. InsideOK(t, m, call[t], owner', locked', job'.stage, file')
    BY <1>2, <1>4, <2>1, <2>3, <2>4 DEF InsideOK, Pcs, MapPcs
  <2> QED
    BY <1>1, <1>3, <2>2, <2>5, ControlStep
<1> QED
  BY <1>5, <1>6, <1>7

-----------------------------------------------------------------------------
(* Each step keeps this.                                                   *)

LEMMA CallsControl ==
  ASSUME CInv, NEW t \in Threads, PlainCall(t) \/ SessionCall(t)
  PROVE  /\ CInv' /\ my'[t] = Restart /\ call'[t] \in Workload \cup SessionWork
         /\ \A u \in Threads : u # t => my'[u] = my[u] /\ call'[u] = call[u]
<1>1. PICK c \in Workload \cup SessionWork :
        /\ call' = [call EXCEPT ![t] = c]
        /\ SessionCall(t) => MayCall(c)
  BY DEF PlainCall, Call, SessionCall
<1>2. /\ my[t].pc = "idle" /\ my' = [my EXCEPT ![t] = Restart]
      /\ UNCHANGED <<hp, owner, locked, job, it, file>>
      /\ c.op = "load" /\ owner = t /\ locked => file # None
  BY <1>1 DEF PlainCall, Call, SessionCall, Session, MayCall, At, Go, inside, table
<1>3. /\ InsideOK(t, my[t], call[t], owner, locked, job.stage, file)
      /\ hp \in 0 .. MaxHp /\ (file # None => file.hp \in 0 .. MaxHp)
      /\ JobOK /\ Ownership
  BY DEF CInv, Inside
<1>4. JobOK' /\ Ownership'
  BY <1>2, <1>3 DEF JobOK, Ownership
<1>5. c \in AllCalls /\ c # None
  BY LockedCallFacts DEF AllCalls
<1>6. owner = t => locked /\ job.stage = "none"
  BY <1>2, <1>3 DEF InsideOK
<1>7. InsideOK(t, Restart, c, owner', locked', job'.stage, file')
  BY <1>2, <1>5, <1>6, IdleIs DEF InsideOK, Pcs, MapPcs
<1>8. CInv' /\ my'[t] = Restart /\ call'[t] = c
      /\ \A u \in Threads : u # t => my'[u] = my[u] /\ call'[u] = call[u]
  BY <1>1, <1>2, <1>3, <1>4, <1>7, ControlStep
<1> QED
  BY <1>8

LEMMA PlainControl ==
  ASSUME CInv, NEW t \in Threads, PlainStep(t) \/ SizeStep(t)
  PROVE  CInv'
<1>1. Step(t) /\ UNCHANGED <<owner, locked, job, it, file>>
  BY DEF PlainStep, SizeStep, Step, inside
<1>2. JobOK' /\ Ownership'
  BY <1>1 DEF CInv, JobOK, Ownership
<1> QED
  BY <1>1, <1>2, StepControl

LEMMA CompareControl ==
  ASSUME CInv, NEW t \in Threads, CompareHashpower(t)
  PROVE  CInv'
<1>1. /\ my[t].pc = "start" /\ call[t].op \in Resizes /\ UNCHANGED <<hp, owner, locked, job, it, file>>
      /\ \/ Return(t, "no")
         \/ Stay /\ Go(t, [Idle EXCEPT !.pc = "resize"])
  BY DEF CompareHashpower, At, Resizing, Resizes, Op, table, inside
<1>2. /\ InsideOK(t, my[t], call[t], owner, locked, job.stage, file)
      /\ hp \in 0 .. MaxHp /\ (file # None => file.hp \in 0 .. MaxHp)
      /\ JobOK' /\ Ownership'
  BY <1>1 DEF CInv, Inside, JobOK, Ownership
<1>3. /\ owner = t => locked /\ job.stage = "none"
      /\ call[t] # None /\ call[t] \in AllCalls
  BY <1>1, <1>2 DEF InsideOK
<1> DEFINE m == [Idle EXCEPT !.pc = "resize"]
<1>4. Shape(m) /\ m.pc = "resize"
  BY IdleIs
<1> HIDE DEF m
<1>5. InsideOK(t, m, call[t], owner', locked', job'.stage, file')
  BY <1>1, <1>3, <1>4 DEF InsideOK, Pcs, MapPcs
<1>6. InsideOK(t, Idle, None, owner', locked', job'.stage, file')
  BY <1>1, <1>3, ReturnedOK
<1>7. \/ my' = [my EXCEPT ![t] = Idle] /\ call' = [call EXCEPT ![t] = None]
      \/ my' = [my EXCEPT ![t] = m] /\ call' = [call EXCEPT ![t] = call[t]]
  BY <1>1, Onward DEF m
<1> QED
  BY <1>1, <1>2, <1>5, <1>6, <1>7, ControlStep

\* What begins with StartMigration.
LEMMA MigrationStarts ==
  ASSUME StartMigration
  PROVE  /\ JobOK' /\ job'.stage = "migrate" /\ job'.into = {} /\ job'.at = None
         /\ \A l \in Locks : LeftTo(job'.workers, l)
         /\ \A w \in DOMAIN job'.workers :
              job'.workers[w].end <= MaxNumLocks /\ ~job'.workers[w].failed
<1>1. PICK extra \in ExtraWorkers :
        job' = [NoJob EXCEPT !.stage = "migrate", !.workers = Ranges(MaxNumLocks, 1, extra)]
  BY DEF StartMigration
<1> DEFINE R == Ranges(MaxNumLocks, 1, extra)
           j == [NoJob EXCEPT !.stage = "migrate"]
<1>2. /\ InOrder(R)
      /\ \A l \in Locks : LeftTo(R, l)
      /\ \A w \in DOMAIN R : R[w].end <= MaxNumLocks /\ ~R[w].failed
  BY MigrationRanges
<1>3. job' = [j EXCEPT !.workers = R]
  BY <1>1
<1> HIDE DEF R
<1>4. JobIs(j, "migrate", <<>>, 0, {}, {}, None)
  BY NoJobIs, JobSet
<1> HIDE DEF j
<1>5. JobIs(job', "migrate", R, 0, {}, {}, None)
  BY <1>3, <1>4, JobSet
<1>6. /\ JobShape(job') /\ job'.stage = "migrate" /\ job'.workers = R /\ job'.hp = 0
      /\ job'.into = {} /\ job'.at = None
  BY <1>5, JobFields
<1>7. 0 \in 0 .. MaxHp
  BY SizeAssumption
<1> QED
  BY <1>2, <1>6, <1>7 DEF JobOK

LEMMA ExpandControl ==
  ASSUME CInv, NEW t \in Threads, ExpandSimple(t)
  PROVE  CInv'
<1>1. /\ my[t].pc = "resize" /\ job.stage = "none" /\ owner \in {None, t} /\ (owner = t => locked)
      /\ UNCHANGED <<hp, locked, it, file>>
      /\ \/ Return(t, "exception") /\ UNCHANGED <<owner, job>>
         \/ Target(t) <= MaxHp /\ owner' = t /\ StartMigration /\ UNCHANGED <<my, call>>
  BY OwnerAssumption DEF ExpandSimple, At, Session, table
<1>2. /\ InsideOK(t, my[t], call[t], owner, locked, job.stage, file)
      /\ hp \in 0 .. MaxHp /\ (file # None => file.hp \in 0 .. MaxHp)
      /\ JobOK /\ Ownership
  BY DEF CInv, Inside
<1>3. CASE Return(t, "exception") /\ UNCHANGED <<owner, job>>
  <2>1. JobOK' /\ Ownership'
    BY <1>1, <1>2, <1>3 DEF JobOK, Ownership
  <2>2. InsideOK(t, Idle, None, owner', locked', job'.stage, file')
    BY <1>1, <1>3, ReturnedOK
  <2> QED
    BY <1>1, <1>2, <1>3, <2>1, <2>2, Onward, ControlStep
<1>4. CASE Target(t) <= MaxHp /\ owner' = t /\ StartMigration /\ UNCHANGED <<my, call>>
  <2>1. JobOK' /\ job'.stage = "migrate"
    BY <1>4, MigrationStarts
  <2>2. Ownership'
    BY <1>1, <1>2, <1>4, OwnerAssumption DEF Ownership
  <2>3. Target(t) = TargetOf(call[t])
    BY DEF Target, TargetOf, Op
  <2>4. InsideOK(t, my[t], call[t], owner', locked', job'.stage, file')
    BY <1>1, <1>2, <1>4, <2>1, <2>3 DEF InsideOK
  <2> QED
    BY <1>1, <1>2, <1>4, <2>1, <2>2, <2>4, Onward, ControlStep
<1> QED
  BY <1>1, <1>3, <1>4

LEMMA LockControl ==
  ASSUME CInv, NEW t \in Threads, LockTable(t)
  PROVE  CInv'
<1> DEFINE m == [Idle EXCEPT !.pc = "build"]
<1>1. /\ my[t].pc = "start" /\ call[t].op = "lock" /\ owner = None /\ owner' = t /\ locked' = TRUE
      /\ StartMigration /\ Go(t, m) /\ Stay /\ UNCHANGED <<hp, it, file>>
  BY DEF LockTable, At, Op, table
<1>2. /\ InsideOK(t, my[t], call[t], owner, locked, job.stage, file)
      /\ hp \in 0 .. MaxHp /\ (file # None => file.hp \in 0 .. MaxHp)
      /\ Ownership
  BY DEF CInv, Inside
<1>3. Shape(m) /\ m.pc = "build"
  BY IdleIs
<1> HIDE DEF m
<1>4. JobOK' /\ job'.stage = "migrate"
  BY <1>1, MigrationStarts
<1>5. Ownership'
  BY <1>1, OwnerAssumption DEF Ownership
<1>6. InsideOK(t, m, call[t], owner', locked', job'.stage, file')
  BY <1>1, <1>2, <1>3, <1>4 DEF InsideOK, Pcs, MapPcs
<1> QED
  BY <1>1, <1>2, <1>4, <1>5, <1>6, Onward, ControlStep

LEMMA NoJobOK == job' = NoJob => JobOK' /\ job'.stage = "none" /\ job'.at = None
<1> SUFFICES ASSUME job' = NoJob PROVE JobOK' /\ job'.stage = "none" /\ job'.at = None
  OBVIOUS
<1>1. JobShape(job') /\ job'.stage = "none" /\ job'.workers = <<>> /\ job'.hp = 0 /\ job'.at = None
  BY NoJobIs, JobFields
<1> QED
  BY <1>1, NoWorkers, SizeAssumption DEF JobOK

\* The last of the workers is joined.
LEMMA EndMigrationControl ==
  ASSUME CInv, NEW t \in Threads, EndMigration(t)
  PROVE  CInv' /\ \/ job' = NoJob
                  \/ \E extra \in ExtraWorkers :
                       JobIs(job', "transfer", Ranges(Size(hp), SlotPerBucket, extra), Target(t),
                             job.into, job.moved, job.at)
<1>1. /\ owner = t /\ job.stage = "migrate" /\ UNCHANGED <<hp, owner, locked, it, file>>
  BY DEF EndMigration
<1>2. /\ InsideOK(t, my[t], call[t], owner, locked, job.stage, file)
      /\ hp \in 0 .. MaxHp /\ (file # None => file.hp \in 0 .. MaxHp)
      /\ JobOK /\ Ownership
  BY DEF CInv, Inside
<1>3. Ownership'
  BY <1>1, <1>2, OwnerAssumption DEF Ownership
<1>4. CASE Building(t)
  <2>1. job' = NoJob /\ Return(t, "yes")
    BY <1>4 DEF EndMigration
  <2>2. locked
    BY <1>1, <1>2, <1>4 DEF InsideOK, Building, At, Op, Resizes
  <2>3. InsideOK(t, Idle, None, owner', locked', job'.stage, file')
    BY <1>1, <2>1, <2>2, NoJobOK, ReturnedOK
  <2> QED
    BY <1>1, <1>2, <1>3, <2>1, <2>3, NoJobOK, Onward, ControlStep
<1>5. CASE ~Building(t)
  <2>1. PICK extra \in ExtraWorkers :
          /\ job' = [job EXCEPT !.stage = "transfer", !.hp = Target(t),
                                !.workers = Ranges(Size(hp), SlotPerBucket, extra)]
          /\ UNCHANGED <<call, my>>
    BY <1>5 DEF EndMigration
  <2> DEFINE R == Ranges(Size(hp), SlotPerBucket, extra)
             j == [job EXCEPT !.stage = "transfer"]
             i == [j EXCEPT !.hp = Target(t)]
  <2>2. /\ my[t].pc = "resize" /\ call[t].op \in Resizes /\ call[t] # None /\ call[t] \in AllCalls
        /\ TargetOf(call[t]) <= MaxHp
    BY <1>1, <1>2, <1>5 DEF InsideOK, Building, At, Op
  <2>3. Target(t) = TargetOf(call[t]) /\ Target(t) \in 0 .. MaxHp
    <3>1. Target(t) = TargetOf(call[t])
      BY DEF Target, TargetOf, Op
    <3>2. TargetOf(call[t]) \in Nat
      BY <2>2, LockedCallFacts
    <3> QED
      BY <2>2, <3>1, <3>2, SizeAssumption
  <2>4. InOrder(R)
    BY <1>2, TransferRanges
  <2>5. job' = [i EXCEPT !.workers = R]
    BY <2>1
  <2> HIDE DEF R
  <2> DEFINE p == Target(t)
  <2>9. p \in 0 .. MaxHp
    BY <2>3
  <2> HIDE DEF p
  <2>6. JobIs(j, "transfer", job.workers, job.hp, job.into, job.moved, job.at)
    BY <1>2, JobSet DEF JobOK, JobShape
  <2>7. JobIs(i, "transfer", job.workers, p, job.into, job.moved, job.at)
    <3>1. i = [j EXCEPT !.hp = p]
      BY DEF p
    <3> HIDE DEF i, j
    <3> QED
      BY <2>6, <3>1, JobSet
  <2> HIDE DEF i, j
  <2>8. JobIs(job', "transfer", R, p, job.into, job.moved, job.at)
    BY <2>5, <2>7, JobSet
  <2>10. JobShape(job') /\ job'.stage = "transfer" /\ job'.workers = R /\ job'.hp = p
    BY <2>8, JobFields
  <2>11. JobOK'
    BY <2>4, <2>9, <2>10 DEF JobOK
  <2>12. InsideOK(t, my[t], call[t], owner', locked', job'.stage, file')
    BY <1>1, <1>2, <2>2, <2>10 DEF InsideOK
  <2>13. CInv'
    BY <1>1, <1>2, <1>3, <2>1, <2>11, <2>12, Onward, ControlStep
  <2> QED
    BY <2>8, <2>13 DEF R, p
<1> QED
  BY <1>4, <1>5

LEMMA EndResizeControl ==
  ASSUME CInv, NEW t \in Threads, SwapBuckets(t) \/ RethrowTransfer(t)
  PROVE  CInv'
<1>1. /\ owner = t /\ job.stage = "transfer" /\ hp' \in {hp, job.hp} /\ job' = NoJob
      /\ it' \in {None, it} /\ Release /\ UNCHANGED <<locked, file>>
      /\ \E r : Return(t, r)
  BY DEF SwapBuckets, RethrowTransfer, AllMoved
<1>2. /\ hp \in 0 .. MaxHp /\ (file # None => file.hp \in 0 .. MaxHp)
      /\ JobOK /\ Ownership
  BY DEF CInv
<1>3. owner' = IF locked THEN t ELSE None
  BY <1>1 DEF Release
<1>4. JobOK' /\ job'.stage = "none"
  BY <1>1, NoJobOK
<1>5. Ownership'
  BY <1>1, <1>2, <1>3, <1>4, OwnerAssumption DEF Ownership
<1>6. hp' \in 0 .. MaxHp
  BY <1>1, <1>2 DEF JobOK
<1>7. InsideOK(t, Idle, None, owner', locked', job'.stage, file')
  BY <1>1, <1>3, <1>4, OwnerAssumption, ReturnedOK
<1> QED
  BY <1>1, <1>2, <1>3, <1>4, <1>5, <1>6, <1>7, Onward, ControlStep

-----------------------------------------------------------------------------
(* The steps of a locked_table.                                            *)

\* A return, or a loop that goes on.
Loops(t, w, p) ==
  /\ Stay /\ Go(t, [Idle EXCEPT !.pc = w]) /\ w \in {"forward", "backward"}
  /\ job' = [NoJob EXCEPT !.at = p] /\ UNCHANGED it
Scans(t, p) ==
  /\ Stay /\ UNCHANGED my /\ my[t].pc \in {"forward", "backward"}
  /\ job' = [job EXCEPT !.at = p] /\ UNCHANGED it

LEMMA AtIs ==
  ASSUME NEW p
  PROVE  /\ job' = [NoJob EXCEPT !.at = p] => JobOK' /\ job'.stage = "none" /\ job'.at = p
         /\ JobOK /\ job' = [job EXCEPT !.at = p] => JobOK' /\ job'.stage = job.stage /\ job'.at = p
<1>1. ASSUME job' = [NoJob EXCEPT !.at = p] PROVE JobOK' /\ job'.stage = "none" /\ job'.at = p
  <2>1. JobIs(job', "none", <<>>, 0, {}, {}, p)
    BY <1>1, NoJobIs, JobSet
  <2>2. /\ JobShape(job') /\ job'.stage = "none" /\ job'.workers = <<>> /\ job'.hp = 0
        /\ job'.at = p
    BY <2>1, JobFields
  <2> QED
    BY <2>2, NoWorkers, SizeAssumption DEF JobOK
<1>2. ASSUME JobOK, job' = [job EXCEPT !.at = p] PROVE JobOK' /\ job'.stage = job.stage /\ job'.at = p
  <2>1. JobIs(job', job.stage, job.workers, job.hp, job.into, job.moved, p)
    BY <1>2, JobSet DEF JobOK, JobShape
  <2>2. /\ JobShape(job') /\ job'.stage = job.stage /\ job'.workers = job.workers
        /\ job'.hp = job.hp /\ job'.at = p
    BY <2>1, JobFields
  <2> QED
    BY <1>2, <2>2 DEF JobOK
<1> QED
  BY <1>1, <1>2

\* A step of the owner of a locked_table, of which nothing but the stream and
\* the hashpower is looked at.
LEMMA SessionControl ==
  ASSUME CInv, NEW t \in Threads, owner = t, locked, job.stage = "none",
         UNCHANGED <<owner, locked>>, JobOK', job'.stage = "none",
         hp' \in 0 .. MaxHp, file' # None => file'.hp \in 0 .. MaxHp,
         \/ \E r : Return(t, r)
         \/ /\ UNCHANGED file
            /\ \/ call[t] # None
                  /\ \E w \in {"forward", "backward"} : Stay /\ Go(t, [Idle EXCEPT !.pc = w])
               \/ my[t].pc # "idle" /\ Stay /\ UNCHANGED my
               \/ my[t].pc = "start" /\ UNCHANGED my /\ call' = [call EXCEPT ![t] = Settle]
  PROVE  CInv'
<1>1. /\ InsideOK(t, my[t], call[t], owner, locked, job.stage, file)
      /\ hp \in 0 .. MaxHp /\ (file # None => file.hp \in 0 .. MaxHp)
      /\ Ownership /\ my = [u \in Threads |-> my[u]] /\ call = [u \in Threads |-> call[u]]
  BY DEF CInv, Inside
<1>2. Ownership'
  BY <1>1, OwnerAssumption DEF Ownership
<1>3. CASE \E r : Return(t, r)
  <2>1. my' = [my EXCEPT ![t] = Idle] /\ call' = [call EXCEPT ![t] = None]
    BY <1>3 DEF Return, Go
  <2>2. InsideOK(t, Idle, None, owner', locked', job'.stage, file')
    BY ReturnedOK
  <2> QED
    BY <1>2, <2>1, <2>2, ControlStep
<1>4. ASSUME NEW w \in {"forward", "backward"}, Stay, Go(t, [Idle EXCEPT !.pc = w]), UNCHANGED file,
             call[t] # None
      PROVE  CInv'
  <2> DEFINE m == [Idle EXCEPT !.pc = w]
  <2>1. Shape(m) /\ m.pc = w
    BY IdleIs
  <2>3. my' = [my EXCEPT ![t] = m] /\ call' = [call EXCEPT ![t] = call[t]]
    BY <1>1, <1>4 DEF Stay, Go
  <2> HIDE DEF m
  <2>2. InsideOK(t, m, call[t], owner', locked', job'.stage, file')
    BY <1>1, <1>4, <2>1 DEF InsideOK, Pcs, MapPcs
  <2> QED
    BY <1>1, <1>2, <1>4, <2>2, <2>3, ControlStep
<1>5. CASE Stay /\ UNCHANGED my /\ UNCHANGED file
  <2>1. my' = [my EXCEPT ![t] = my[t]] /\ call' = [call EXCEPT ![t] = call[t]]
    BY <1>1, <1>5 DEF Stay
  <2>2. InsideOK(t, my[t], call[t], owner', locked', job'.stage, file')
    BY <1>1, <1>5 DEF InsideOK
  <2> QED
    BY <1>1, <1>2, <1>5, <2>1, <2>2, ControlStep
<1>6. CASE my[t].pc = "start" /\ UNCHANGED my /\ call' = [call EXCEPT ![t] = Settle] /\ UNCHANGED file
  <2>1. my' = [my EXCEPT ![t] = my[t]]
    BY <1>1, <1>6
  <2>2. Settle.op = "settle" /\ Settle \in AllCalls /\ Settle # None
    BY LockedCallFacts DEF Settle, AllCalls
  <2>3. InsideOK(t, my[t], Settle, owner', locked', job'.stage, file')
    BY <1>1, <1>6, <2>2 DEF InsideOK
  <2> QED
    BY <1>1, <1>2, <1>6, <2>1, <2>3, ControlStep
<1> QED
  BY <1>1, <1>3, <1>4, <1>5, <1>6 DEF InsideOK

\* The iterator arrives, or looks on.
Looks(t) ==
  \/ \E p : Arrive(t, p)
  \/ \E p : \E w \in {"forward", "backward"} : Loops(t, w, p)
  \/ \E p : Scans(t, p)

LEMMA IterationLooks ==
  ASSUME CInv, NEW t \in Threads, Iterate(t) \/ ScanForward(t) \/ ScanBackward(t)
  PROVE  /\ Looks(t) /\ owner = t /\ locked /\ job.stage = "none" /\ call[t] # None
         /\ UNCHANGED <<table, owner, locked, file>>
<1>1. InsideOK(t, my[t], call[t], owner, locked, job.stage, file)
  BY DEF CInv, Inside
<1>2. /\ owner = t /\ locked /\ job.stage = "none" /\ call[t] # None
      /\ UNCHANGED <<table, owner, locked, file>>
  <2>1. CASE Iterate(t)
    BY <1>1, <2>1 DEF Iterate, Session, At, InsideOK
  <2>2. CASE ScanForward(t) \/ ScanBackward(t)
    BY <1>1, <2>2 DEF ScanForward, ScanBackward, At, InsideOK
  <2> QED
    BY <2>1, <2>2
<1>3. \A p : Advance(t, p) => Loops(t, "forward", <<p[1], p[2] + 1>>)
  BY DEF Advance, Loops
<1>4. \A p : Construct(t, p) => Looks(t)
  BY <1>3 DEF Construct, Looks
<1>5. ASSUME Iterate(t) PROVE Looks(t)
  <2>1. CASE Op(t) = "begin" \/ Op(t) = "settle"
    BY <1>4, <1>5, <2>1 DEF Iterate
  <2>2. CASE Op(t) = "end"
    BY <1>5, <2>2 DEF Iterate, Looks
  <2>3. CASE Op(t) = "next"
    BY <1>3, <1>5, <2>3 DEF Iterate, Looks
  <2>4. CASE Op(t) = "prev"
    <3>1. Loops(t, "backward", StepBackward(it))
      BY <1>5, <2>4 DEF Iterate, Loops
    <3> QED
      BY <3>1 DEF Looks
  <2>5. Op(t) \in {"begin", "settle", "end", "next", "prev"}
    BY <1>5 DEF Iterate
  <2> QED
    BY <2>1, <2>2, <2>3, <2>4, <2>5
<1>6. ASSUME ScanForward(t) PROVE Looks(t)
  <2>1. Arrive(t, job.at) \/ Scans(t, StepForward(job.at))
    BY <1>6 DEF ScanForward, Scans, At
  <2> QED
    BY <2>1 DEF Looks
<1>7. ASSUME ScanBackward(t) PROVE Looks(t)
  <2>1. Arrive(t, job.at) \/ Scans(t, StepBackward(job.at))
    BY <1>7 DEF ScanBackward, Scans, At
  <2> QED
    BY <2>1 DEF Looks
<1> QED
  BY <1>2, <1>5, <1>6, <1>7

LEMMA IterationControl ==
  ASSUME CInv, NEW t \in Threads, Iterate(t) \/ ScanForward(t) \/ ScanBackward(t)
  PROVE  CInv'
<1>1. /\ Looks(t) /\ owner = t /\ locked /\ job.stage = "none" /\ call[t] # None
      /\ UNCHANGED <<hp, owner, locked, file>>
  BY IterationLooks DEF table
<1>2. hp \in 0 .. MaxHp /\ (file # None => file.hp \in 0 .. MaxHp) /\ JobOK
  BY DEF CInv
<1>3. ASSUME NEW p, Arrive(t, p) PROVE CInv'
  <2>1. job' = NoJob /\ \E r : Return(t, r)
    BY <1>3 DEF Arrive
  <2> QED
    BY <1>1, <1>2, <2>1, NoJobOK, SessionControl
<1>4. ASSUME NEW p, NEW w \in {"forward", "backward"}, Loops(t, w, p) PROVE CInv'
  <2>1. JobOK' /\ job'.stage = "none"
    BY <1>4, AtIs DEF Loops
  <2> QED
    BY <1>1, <1>2, <1>4, <2>1, SessionControl DEF Loops
<1>5. ASSUME NEW p, Scans(t, p) PROVE CInv'
  <2>1. JobOK' /\ job'.stage = "none" /\ my[t].pc # "idle"
    BY <1>1, <1>2, <1>5, AtIs DEF Scans
  <2> QED
    BY <1>1, <1>2, <1>5, <2>1, SessionControl DEF Scans
<1> QED
  BY <1>1, <1>3, <1>4, <1>5 DEF Looks

LEMMA SessionStepsControl ==
  ASSUME CInv, NEW t \in Threads,
         \/ Unlock(t) \/ EraseAt(t) \/ FindIt(t) \/ EraseKey(t) \/ ClearAll(t) \/ Save(t) \/ Load(t)
  PROVE  CInv'
<1>1. /\ InsideOK(t, my[t], call[t], owner, locked, job.stage, file)
      /\ hp \in 0 .. MaxHp /\ (file # None => file.hp \in 0 .. MaxHp)
      /\ JobOK /\ Ownership
  BY DEF CInv, Inside
<1>2. my[t].pc = "start" /\ owner = t /\ locked
  BY DEF Unlock, EraseAt, FindIt, EraseKey, Erase, ClearAll, Clear, Save, Load, Session, At
<1>3. job.stage = "none"
  BY <1>1, <1>2 DEF InsideOK
<1>4. UNCHANGED job => JobOK' /\ job'.stage = "none"
  BY <1>1, <1>3 DEF JobOK
<1>5. CASE Unlock(t)
  <2>1. /\ owner' = None /\ locked' = FALSE /\ it' = None /\ UNCHANGED <<hp, job, file>>
        /\ Return(t, "yes")
    BY <1>5 DEF Unlock, table
  <2>2. Ownership'
    BY <1>4, <2>1 DEF Ownership
  <2>3. InsideOK(t, Idle, None, owner', locked', job'.stage, file')
    BY <2>1, OwnerAssumption, ReturnedOK
  <2> QED
    BY <1>1, <1>2, <1>4, <2>1, <2>2, <2>3, Onward, ControlStep
<1>6. CASE EraseAt(t)
  <2>1. /\ UNCHANGED <<my, owner, locked, job, file>> /\ call' = [call EXCEPT ![t] = Settle]
        /\ UNCHANGED hp
    BY <1>6 DEF EraseAt, inside, Settle, Delete, Under
  <2> QED
    BY <1>1, <1>2, <1>3, <1>4, <2>1, SessionControl
<1>7. CASE FindIt(t)
  <2>1. UNCHANGED <<hp, owner, locked, job, file>> /\ \E r : Return(t, r)
    BY <1>7 DEF FindIt, table
  <2> QED
    BY <1>1, <1>2, <1>3, <1>4, <2>1, SessionControl
<1>8. CASE EraseKey(t) \/ ClearAll(t)
  <2>1. Step(t) /\ UNCHANGED <<owner, locked, job, file>>
    BY <1>8 DEF EraseKey, ClearAll, Step
  <2>2. Ownership'
    BY <1>1, <1>2, <2>1, OwnerAssumption DEF Ownership
  <2> QED
    BY <1>3, <1>4, <2>1, <2>2, StepControl
<1>9. CASE Save(t)
  <2>1. UNCHANGED <<hp, owner, locked, job>> /\ file'.hp = hp /\ Return(t, "yes")
    BY <1>9 DEF Save, table
  <2> QED
    BY <1>1, <1>2, <1>3, <1>4, <2>1, SessionControl
<1>10. CASE Load(t)
  <2>1. UNCHANGED <<owner, locked, job>> /\ hp' = file.hp /\ file' = None /\ Return(t, "yes")
        /\ call[t].op = "load"
    BY <1>10 DEF Load, Op
  <2>2. file # None
    BY <1>1, <1>2, <2>1 DEF InsideOK
  <2> QED
    BY <1>1, <1>2, <1>3, <1>4, <2>1, <2>2, SessionControl
<1> QED
  BY <1>5, <1>6, <1>7, <1>8, <1>9, <1>10

-----------------------------------------------------------------------------
(* The workers.                                                            *)

Advanced(w) == TakeNext(job.workers, w)
Failing(w)  == SetFailed(job.workers, w, TRUE)

LEMMA DoneFacts ==
  ASSUME JobOK, NEW w, Working(w)
  PROVE  LET vs == Advanced(w)
             ws == job.workers
         IN  /\ JobIs(Done(w), job.stage, vs, job.hp, job.into, job.moved, job.at)
             /\ w \in DOMAIN ws /\ ws[w].next < ws[w].end /\ ws[w] \in Worker
             /\ InOrder(vs) /\ DOMAIN vs = DOMAIN ws
             /\ \A u \in DOMAIN ws : vs[u].end = ws[u].end /\ vs[u].failed = ws[u].failed
             /\ \A i : LeftTo(ws, i) /\ i # ws[w].next => LeftTo(vs, i)
<1> DEFINE vs == Advanced(w)
           ws == job.workers
<1>1. w \in DOMAIN ws /\ ws[w].next < ws[w].end /\ InOrder(ws)
  BY DEF Working, JobOK
<1>2. vs = TakeNext(ws, w)
  BY DEF Advanced
<1>3. Done(w) = [job EXCEPT !.workers = vs]
  BY DEF Done, Advanced, TakeNext
<1>7. ws[w] \in Worker
  BY <1>1 DEF InOrder
<1>8. \A vv, ww : InOrder(ww) /\ w \in DOMAIN ww /\ ww[w].next < ww[w].end
                  /\ vv = TakeNext(ww, w)
        => /\ InOrder(vv) /\ DOMAIN vv = DOMAIN ww
           /\ \A u \in DOMAIN ww : vv[u].end = ww[u].end /\ vv[u].failed = ww[u].failed
           /\ \A i : LeftTo(ww, i) /\ i # ww[w].next => LeftTo(vv, i)
  BY NextInOrder
<1>5. JobIs(job, job.stage, job.workers, job.hp, job.into, job.moved, job.at)
  BY DEF JobOK, JobShape
<1> HIDE DEF ws, vs
<1>4. /\ InOrder(vs) /\ DOMAIN vs = DOMAIN ws
      /\ \A u \in DOMAIN ws : vs[u].end = ws[u].end /\ vs[u].failed = ws[u].failed
      /\ \A i : LeftTo(ws, i) /\ i # ws[w].next => LeftTo(vs, i)
  BY <1>1, <1>2, <1>8
<1>6. JobIs(Done(w), job.stage, vs, job.hp, job.into, job.moved, job.at)
  <2> DEFINE d == Done(w)
             s == job.stage
             wk == job.workers
             h == job.hp
             i == job.into
             v == job.moved
             a == job.at
  <2>1. d = [job EXCEPT !.workers = vs] /\ JobIs(job, s, wk, h, i, v, a)
    BY <1>3, <1>5
  <2> HIDE DEF d, s, wk, h, i, v, a
  <2>2. JobIs(d, s, vs, h, i, v, a)
    BY <2>1, JobSet
  <2> QED
    BY <2>2 DEF d, s, wk, h, i, v, a
<1> QED
  BY <1>1, <1>4, <1>6, <1>7 DEF vs, ws

\* What the steps of a worker do to its job: the share that is left gets
\* smaller, or it fails, or the new table grows.
LEMMA WorkerJob ==
  ASSUME CInv, NEW w
  PROVE  /\ MigrateLock(w) \/ SkipSlot(w) =>
              JobIs(job', job.stage, Advanced(w), job.hp, job.into, job.moved, job.at)
         /\ MoveOut(w) =>
              JobIs(job', job.stage, Advanced(w), job.hp, job.into \cup {Source(w)},
                    job.moved \cup {Place(w)}, job.at)
         /\ GrowNewMap(w) =>
              JobIs(job', job.stage, job.workers, job.hp + 1, job.into, job.moved, job.at)
         /\ FailTransfer(w) =>
              JobIs(job', job.stage, Failing(w), job.hp,
                    job.into, job.moved, job.at)
<1> DEFINE s == job.stage
           ws == job.workers
           h == job.hp
           i == job.into
           v == job.moved
           a == job.at
           vs == Advanced(w)
           d == Done(w)
<1>1. JobOK /\ JobIs(job, s, ws, h, i, v, a)
  BY DEF CInv, JobOK, JobShape
<1>2. Working(w) => JobIs(d, s, vs, h, i, v, a)
  BY <1>1, DoneFacts
<1>3. ASSUME MigrateLock(w) \/ SkipSlot(w) PROVE JobIs(job', s, vs, h, i, v, a)
  <2>1. Working(w) /\ job' = d
    BY <1>3 DEF MigrateLock, SkipSlot, Transferring
  <2> QED
    BY <1>2, <2>1
<1>4. ASSUME MoveOut(w) PROVE JobIs(job', s, vs, h, i \cup {Source(w)}, v \cup {Place(w)}, a)
  <2> DEFINE i2 == i \cup {Source(w)}
             v2 == v \cup {Place(w)}
             d2 == [d EXCEPT !.into = i2]
  <2>1. Working(w)
    BY <1>4 DEF MoveOut, Transferring
  <2>2. d.into = i /\ d.moved = v
    BY <1>2, <2>1, JobFields
  <2>3. job' = [Done(w) EXCEPT !.into = @ \cup {Source(w)}, !.moved = @ \cup {Place(w)}]
    BY <1>4 DEF MoveOut
  <2>7. [Done(w) EXCEPT !.into = @ \cup {Source(w)}, !.moved = @ \cup {Place(w)}]
          = [Done(w) EXCEPT !.into = Done(w).into \cup {Source(w)}, !.moved = Done(w).moved \cup {Place(w)}]
    OBVIOUS
  <2>4. job' = [d2 EXCEPT !.moved = v2]
    BY <2>2, <2>3, <2>7
  <2> HIDE DEF i2, v2, d, s, vs, h, i, v, a
  <2>5. JobIs(d2, s, vs, h, i2, v, a)
    BY <1>2, <2>1, JobSet
  <2> HIDE DEF d2
  <2>6. JobIs(job', s, vs, h, i2, v2, a)
    BY <2>4, <2>5, JobSet
  <2> QED
    BY <2>6 DEF i2, v2, s, vs, h, i, v, a
<1>5. ASSUME GrowNewMap(w) PROVE JobIs(job', s, ws, h + 1, i, v, a)
  <2> DEFINE n == h + 1
  <2>1. job' = [job EXCEPT !.hp = n]
    BY <1>5 DEF GrowNewMap
  <2> HIDE DEF n, s, ws, h, i, v, a
  <2>2. JobIs(job', s, ws, n, i, v, a)
    BY <1>1, <2>1, JobSet
  <2> QED
    BY <2>2 DEF n
<1>6. ASSUME FailTransfer(w) PROVE JobIs(job', s, Failing(w), h, i, v, a)
  <2> DEFINE n == Failing(w)
  <2>1. job' = [job EXCEPT !.workers = n]
    BY <1>6 DEF FailTransfer, Failing, SetFailed
  <2> HIDE DEF n, s, ws, h, i, v, a
  <2>2. JobIs(job', s, n, h, i, v, a)
    BY <1>1, <2>1, JobSet
  <2> QED
    BY <2>2 DEF n
<1> QED
  BY <1>3, <1>4, <1>5, <1>6

LEMMA WorkControl ==
  ASSUME CInv, NEW w, WorkerStep(w)
  PROVE  CInv' /\ job'.stage = job.stage
<1>1. JobOK /\ job.hp \in 0 .. MaxHp /\ InOrder(job.workers)
      /\ job.stage \in {"none", "migrate", "transfer"}
  BY DEF CInv, JobOK
<1>2. UNCHANGED <<hp, call, my, owner, locked, it, file>>
  <2>1. CASE MigrateLock(w)
    BY <2>1 DEF MigrateLock, Under
  <2>2. CASE TransferStep(w)
    BY <2>2 DEF TransferStep, table
  <2> QED
    BY <2>1, <2>2 DEF WorkerStep
<1>3. /\ Working(w) /\ w \in DOMAIN job.workers
      /\ MigrateLock(w) \/ SkipSlot(w) \/ MoveOut(w) \/ GrowNewMap(w) \/ FailTransfer(w)
  BY DEF WorkerStep, MigrateLock, TransferStep, SkipSlot, MoveOut, GrowNewMap, FailTransfer,
         Transferring, Working
<1>4. InOrder(Advanced(w))
  BY <1>1, <1>3, DoneFacts
<1>5. JobOK' /\ job'.stage = job.stage
  <2> DEFINE s == job.stage
             ws == job.workers
             h == job.hp
             i == job.into
             v == job.moved
             a == job.at
             n == Advanced(w)
             i2 == i \cup {Source(w)}
             v2 == v \cup {Place(w)}
             vs == Failing(w)
             g == h + 1
  <2>5. /\ MigrateLock(w) \/ SkipSlot(w) => JobIs(job', s, n, h, i, v, a)
        /\ MoveOut(w) => JobIs(job', s, n, h, i2, v2, a)
        /\ GrowNewMap(w) => JobIs(job', s, ws, g, i, v, a)
        /\ FailTransfer(w) => JobIs(job', s, vs, h, i, v, a)
    BY WorkerJob
  <2>6. /\ s \in {"none", "migrate", "transfer"} /\ h \in 0 .. MaxHp
        /\ InOrder(ws) /\ InOrder(n)
    BY <1>1, <1>4
  <2>7. GrowNewMap(w) => g \in 0 .. MaxHp
    BY <1>1, SizeAssumption DEF GrowNewMap
  <2>8. w \in DOMAIN ws
    BY <1>3
  <2>9. vs = SetFailed(ws, w, TRUE) /\ TRUE \in BOOLEAN /\ s = job.stage
    BY DEF Failing
  <2> HIDE DEF s, ws, h, i, v, a, n, i2, v2, g, vs
  <2>10. InOrder(vs)
    BY <2>6, <2>8, <2>9, FailInOrder
  <2>11. \A j, x, p, q, r : JobIs(j, s, x, p, q, r, a) /\ InOrder(x) /\ p \in 0 .. MaxHp
           => /\ JobShape(j) /\ j.stage = s /\ j.hp \in 0 .. MaxHp
              /\ InOrder(j.workers)
    BY JobFields
  <2>12. JobShape(job') /\ job'.stage = s /\ job'.hp \in 0 .. MaxHp /\ InOrder(job'.workers)
    BY <1>3, <2>5, <2>6, <2>7, <2>10, <2>11
  <2> QED
    BY <2>6, <2>9, <2>12 DEF JobOK
<1> QED
  BY <1>2, <1>5, ControlWork

LEMMA Control ==
  ASSUME CInv, [LockedNext]_lockedVars
  PROVE  CInv'
<1>1. ASSUME UNCHANGED lockedVars PROVE CInv'
  <2>1. JobOK' /\ Ownership' /\ \A t \in Threads : Inside(t)'
    BY <1>1 DEF CInv, JobOK, Ownership, Inside, lockedVars
  <2> QED
    BY <1>1, <2>1 DEF CInv, lockedVars
<1>2. ASSUME NEW t \in Threads,
             PlainCall(t) \/ PlainStep(t) \/ SizeStep(t) \/ SessionCall(t) \/ LockedStep(t)
      PROVE  CInv'
  <2>1. CASE PlainCall(t) \/ PlainStep(t) \/ SizeStep(t) \/ SessionCall(t)
    BY <2>1, CallsControl, PlainControl
  <2>2. CASE ResizeStep(t)
    BY <2>2, CompareControl, ExpandControl, EndMigrationControl, EndResizeControl DEF ResizeStep
  <2>3. CASE LockTable(t) \/ Iterate(t) \/ ScanForward(t) \/ ScanBackward(t)
    BY <2>3, LockControl, IterationControl
  <2>4. CASE \/ Unlock(t) \/ EraseAt(t) \/ FindIt(t) \/ EraseKey(t) \/ ClearAll(t) \/ Save(t) \/ Load(t)
    BY <2>4, SessionStepsControl
  <2> QED
    BY <1>2, <2>1, <2>2, <2>3, <2>4 DEF LockedStep
<1> QED
  BY <1>1, <1>2, WorkControl DEF LockedNext

\* An owner works for its call alone, and the shares of workers follow each
\* other.
THEOREM ControlInvariant == LockedSpec => []CInv
<1>1. LockedInit => CInv
  BY ControlInit
<1>2. CInv /\ [LockedNext]_lockedVars => CInv'
  BY Control
<1> QED
  BY <1>1, <1>2, PTL DEF LockedSpec

\* Two of the threads parallel_exec starts have no lock and no bucket in common
\* that they still work on, however the work is split.
THEOREM NothingShared == LockedSpec => []WorkersApart
<1>1. CInv => WorkersApart
  <2> SUFFICES ASSUME CInv, NEW v \in DOMAIN job.workers, NEW w \in DOMAIN job.workers, v # w
               PROVE  (job.workers[v].next .. job.workers[v].end - 1)
                        \cap (job.workers[w].next .. job.workers[w].end - 1) = {}
    BY DEF WorkersApart
  <2> DEFINE x == job.workers[v]
             y == job.workers[w]
  <2>1. /\ v \in Nat /\ w \in Nat
        /\ x.next \in Nat /\ x.end \in Nat /\ y.next \in Nat /\ y.end \in Nat
        /\ v < w => x.end <= y.next
        /\ w < v => y.end <= x.next
    BY DEF CInv, JobOK, InOrder, Worker
  <2> HIDE DEF x, y
  <2>2. (x.next .. x.end - 1) \cap (y.next .. y.end - 1) = {}
    BY <2>1
  <2> QED
    BY <2>2 DEF x, y
<1> QED
  BY <1>1, ControlInvariant, PTL

-----------------------------------------------------------------------------
(* The data.  What follows is about elements that are left as they are when  *)
(* they are moved out of: ~MoveEmpties.                                      *)

Spot(p, i)     == i \in (0 .. Size(p) - 1) \X SlotInds
EndOf(p)        == <<Size(p), 0>>
Earlier(tb, i) == \E x \in Taken(tb) : Before(x, i)

\* What is left to workers, and what they have done.
JobData(j, lt, p, tb) ==
  /\ j.stage # "transfer" => j.into = {}
  /\ j.stage # "none" => j.at = None
  /\ j.stage = "migrate" =>
       /\ \A w \in DOMAIN j.workers : j.workers[w].end <= MaxNumLocks /\ ~j.workers[w].failed
       /\ \A l \in lt : LeftTo(j.workers, l)
  /\ j.stage = "transfer" =>
       /\ \A w \in DOMAIN j.workers : j.workers[w].end <= Size(p) * SlotPerBucket
       /\ \A e \in j.into : \E b \in BucketInds, s \in SlotInds : Occupied(tb, b, s) /\ tb[b][s] = e
       /\ \A b \in BucketInds, s \in SlotInds :
            Occupied(tb, b, s) => tb[b][s] \in j.into \/ LeftTo(j.workers, b * SlotPerBucket + s)

\* A thread with local variables m in the call c of its locked_table, its
\* iterator at i, looking at a, on a table tb of hashpower p.
SessionOK(m, c, p, tb, i, a) ==
  /\ i # None => \/ i = EndOf(p)
                 \/ Spot(p, i) /\ (Occupied(tb, i[1], i[2]) \/ (c # None /\ c.op = "settle"))
  /\ a # None => m.pc \in {"forward", "backward"}
  /\ m.pc = "start" /\ c.op \in {"next", "erase_at", "settle"} => i # None /\ i # EndOf(p)
  /\ m.pc = "start" /\ c.op = "prev" => i # None /\ Earlier(tb, i)
  /\ m.pc = "forward" => a = EndOf(p) \/ a \in (0 .. Size(p) - 1) \X (0 .. SlotPerBucket)
  /\ m.pc = "backward" => Spot(p, a) /\ (Occupied(tb, a[1], a[2]) \/ Earlier(tb, a))

FileOK(f) ==
  f # None => Good(f.hp, f.buckets, Empty, {}) /\ f.size = Cardinality(Taken(f.buckets))

\* Nothing is late.
Settled == job.stage = "transfer" \/ (locked /\ job.stage = "none") \/ it # None => late = {}

Data ==
  /\ JobData(job, late, hp, buckets)
  /\ Settled
  /\ FileOK(file)
  /\ ~locked => job.at = None
  /\ \A t \in Threads : Session(t) => SessionOK(my[t], call[t], hp, buckets, it, job.at)

LEMMA NothingOld ==
  ASSUME NEW p, NEW tb, NEW ol, Good(p, tb, ol, {})
  PROVE  ol = Empty
<1>1. ol \in Table /\ \A b \in BucketInds, s \in SlotInds : ~Occupied(ol, b, s)
  BY DEF Good, PlacedUnder
<1>2. \A b \in BucketInds : ol[b] = NoEntry
  <2> SUFFICES ASSUME NEW b \in BucketInds PROVE ol[b] = NoEntry
    OBVIOUS
  <2>1. ol[b] \in [SlotInds -> Entries \cup {None}] /\ \A s \in SlotInds : ol[b][s] = None
    BY <1>1 DEF Table, Occupied
  <2> QED
    BY <2>1 DEF NoEntry
<1>3. ol = [b \in BucketInds |-> ol[b]]
  BY <1>1 DEF Table
<1> QED
  BY <1>2, <1>3 DEF Empty

LEMMA PlaceFacts ==
  ASSUME NEW p, NEW tb, NEW ol, NEW lt, Good(p, tb, ol, lt)
  PROVE  /\ \A b \in BucketInds, s \in SlotInds : Occupied(tb, b, s) => b \in 0 .. Size(p) - 1
         /\ \A x \in Taken(tb) : Spot(p, x)
         /\ \A i : Spot(p, i) => i = <<i[1], i[2]>> /\ i[1] \in BucketInds /\ i[2] \in SlotInds
         /\ Spot(p, <<0, 0>>)
<1>1. /\ p \in 0 .. MaxHp /\ tb \in Table
      /\ \A b \in BucketInds, s \in SlotInds : Occupied(tb, b, s) => b \in Two(p, tb[b][s].key)
  BY DEF Good, Placed
<1>2. 0 .. Size(p) - 1 \subseteq BucketInds /\ Size(p) \in Nat \ {0}
  BY <1>1, BucketIndFacts, Sizes
<1>3. ASSUME NEW b \in BucketInds, NEW s \in SlotInds, Occupied(tb, b, s)
      PROVE  b \in 0 .. Size(p) - 1
  <2>1. tb[b][s].key \in Keys
    BY <1>1, <1>3, EntryFacts
  <2> QED
    BY <1>1, <1>3, <2>1, FirstFacts
<1>4. ASSUME NEW x \in Taken(tb) PROVE Spot(p, x)
  <2>1. /\ x = <<x[1], x[2]>> /\ x[1] \in BucketInds /\ x[2] \in SlotInds
        /\ Occupied(tb, x[1], x[2])
    BY DEF Taken
  <2> QED
    BY <1>3, <2>1 DEF Spot
<1>5. ASSUME NEW i, Spot(p, i)
      PROVE  i = <<i[1], i[2]>> /\ i[1] \in BucketInds /\ i[2] \in SlotInds
  BY <1>2, <1>5 DEF Spot
<1>6. Spot(p, <<0, 0>>)
  <2>1. 0 \in 0 .. Size(p) - 1
    BY <1>2
  <2>2. 0 \in SlotInds
    BY SizeAssumption DEF SlotInds
  <2> QED
    BY <2>1, <2>2 DEF Spot
<1> QED
  BY <1>3, <1>4, <1>5, <1>6

\* A thread that waits in an operation with all the locks.
LEMMA PauseOK ==
  ASSUME NEW w \in {"resize", "build", "forward", "backward"}, NEW c, c # None
  PROVE  LocalOK([Idle EXCEPT !.pc = w], c)
<1> DEFINE m == [Idle EXCEPT !.pc = w]
<1>1. m = [pc |-> w, hp |-> 0, queue |-> <<>>, root |-> 0, slots |-> <<>>, path |-> <<>>, sum |-> 0]
  BY DEF Idle
<1> HIDE DEF m
<1>2. <<>> \in Seq(QueueItems) /\ <<>> \in Seq(SlotInds) /\ <<>> \in Seq(PathElements)
  OBVIOUS
<1>3. m \in Locals
  BY <1>1, <1>2, SizeAssumption DEF Locals, Pcs
<1>4. m.pc = w /\ Len(m.slots) = 0 /\ Len(m.path) = 0
  BY <1>1
<1>5. LocalOK(m, c)
  BY <1>3, <1>4, SizeAssumption DEF LocalOK
<1> QED
  BY <1>5 DEF m

\* No thread goes on.
LEMMA WorkStep ==
  ASSUME TInv, UNCHANGED <<call, ret, my, left, counter>>,
         Represents(hp', buckets', old', late', Content)
  PROVE  TInv' /\ Content' = Content
<1>1. Content' = Content
  BY ContentAfter
<1>2. Good(hp', buckets', old', late')
  BY DEF Represents
<1> QED
  BY <1>1, <1>2 DEF TInv

\* A thread gets another call.
LEMMA OtherCall ==
  ASSUME TInv, NEW t \in Threads, NEW c, CallOK(c), NEW m, LocalOK(m, c),
         call' = [call EXCEPT ![t] = c], my' = [my EXCEPT ![t] = m],
         \/ UNCHANGED ret
         \/ \E r : ret' = [ret EXCEPT ![t] = r],
         UNCHANGED left, NEW store, Counts(counter', store),
         Represents(hp', buckets', old', late', store)
  PROVE  TInv' /\ Content' = store
<1>1. Content' = store
  BY ContentAfter
<1>3. /\ call = [u \in Threads |-> call[u]] /\ ret = [u \in Threads |-> ret[u]]
      /\ my = [u \in Threads |-> my[u]] /\ left \in 0 .. MaxCalls
  BY DEF TInv
<1>4. my'[t] = m /\ call'[t] = c /\ \A u \in Threads : u # t => my'[u] = my[u] /\ call'[u] = call[u]
  BY <1>3
<1>5. /\ call' = [u \in Threads |-> call'[u]]
      /\ ret' = [u \in Threads |-> ret'[u]]
      /\ my' = [u \in Threads |-> my'[u]]
  BY <1>3
<1>6. \A u \in Threads : LocalOK(my'[u], call'[u]) /\ (call'[u] # None => CallOK(call'[u]))
  BY <1>4 DEF TInv
<1>7. Good(hp', buckets', old', late')
  BY DEF Represents
<1> QED
  BY <1>1, <1>3, <1>5, <1>6, <1>7 DEF TInv

-----------------------------------------------------------------------------
(* The steps that leave the table as it is, and those of CuckooTable.tla.   *)

TableInv == CInv /\ TInv /\ Data

\* A step of t, which has the locks afterwards or changes nothing the owner
\* looks at.
LEMMA DataStep ==
  ASSUME CInv, NEW t \in Threads, NEW m, NEW c,
         my' = [my EXCEPT ![t] = m], call' = [call EXCEPT ![t] = c],
         \/ owner' \in {None, t}
         \/ Data /\ UNCHANGED <<owner, locked, hp, buckets, it>> /\ job'.at = job.at,
         JobData(job', late', hp', buckets'), Settled', FileOK(file'),
         ~locked' => job'.at = None,
         owner' = t /\ locked' => SessionOK(m, c, hp', buckets', it', job'.at)
  PROVE  Data'
<1>1. /\ my'[t] = m /\ call'[t] = c
      /\ \A u \in Threads : u # t => my'[u] = my[u] /\ call'[u] = call[u]
  BY DEF CInv
<1>2. ASSUME NEW u \in Threads, Session(u)'
      PROVE  SessionOK(my'[u], call'[u], hp', buckets', it', job'.at)
  <2>1. owner' = u /\ locked' /\ u # None
    BY <1>2, OwnerAssumption DEF Session
  <2>2. CASE u = t
    BY <1>1, <2>1, <2>2
  <2>3. CASE u # t
    <3>1. Data /\ UNCHANGED <<owner, locked, hp, buckets, it>> /\ job'.at = job.at
      BY <2>1, <2>3
    <3>2. SessionOK(my[u], call[u], hp, buckets, it, job.at)
      BY <2>1, <3>1 DEF Data, Session
    <3> QED
      BY <1>1, <2>3, <3>1, <3>2
  <2> QED
    BY <2>2, <2>3
<1> QED
  BY <1>2 DEF Data

LEMMA SameData ==
  ASSUME Data, UNCHANGED <<table, inside>>
  PROVE  /\ JobData(job', late', hp', buckets') /\ Settled' /\ FileOK(file')
         /\ ~locked' => job'.at = None
         /\ UNCHANGED <<owner, locked, hp, buckets, it>> /\ job'.at = job.at
BY DEF Data, Settled, table, inside

LEMMA PlainCallData ==
  ASSUME TableInv, NEW t \in Threads, PlainCall(t)
  PROVE  TInv' /\ Data'
<1>1. CInv /\ TInv /\ Data
  BY DEF TableInv
<1>2. Call(t) /\ ~Session(t) /\ UNCHANGED <<table, inside>>
  BY DEF PlainCall, Call
<1>3. PICK c : my' = [my EXCEPT ![t] = Restart] /\ call' = [call EXCEPT ![t] = c]
  BY <1>2 DEF Call, Go
<1>4. ~(owner' = t /\ locked')
  BY <1>2 DEF Session, inside
<1>5. Data'
  BY <1>1, <1>2, <1>3, <1>4, SameData, DataStep
<1> QED
  BY <1>1, <1>2, <1>5, CallStep

LEMMA NextStep ==
  ASSUME TInv, NEW t \in Threads, Step(t)
  PROVE  TInv'
BY TableStep DEF Next

LEMMA PlainStepData ==
  ASSUME TableInv, NEW t \in Threads, PlainStep(t)
  PROVE  TInv' /\ Data'
<1>1. CInv /\ TInv /\ Data /\ Step(t) /\ owner = None /\ UNCHANGED inside
  BY DEF TableInv, PlainStep
<1>2. ~locked /\ job.stage = "none" /\ it = None
  BY <1>1 DEF CInv, Ownership
<1>3. job.into = {} /\ job.at = None
  BY <1>1, <1>2 DEF Data, JobData
<1>4. UNCHANGED <<owner, locked, job, it, file>>
  BY <1>1 DEF inside
<1>5. Settled' /\ FileOK(file')
  BY <1>1, <1>2, <1>4 DEF Settled, Data
<1>6. JobData(job', late', hp', buckets')
  BY <1>2, <1>3, <1>4 DEF JobData
<1>7. Data'
  BY <1>2, <1>3, <1>4, <1>5, <1>6 DEF Data, Session
<1> QED
  BY <1>1, <1>7, NextStep

LEMMA SizeStepData ==
  ASSUME TableInv, NEW t \in Threads, SizeStep(t)
  PROVE  TInv' /\ Data'
<1>1. CInv /\ TInv /\ Data /\ Step(t) /\ UNCHANGED <<table, inside>>
  BY DEF TableInv, SizeStep, Step, ReadCounter, ReturnSize
<1>2. my[t].pc \in {"start", "sum"} /\ call[t].op = "size" /\ call[t] # None
  <2>1. my[t].pc = "sum" \/ (my[t].pc = "start" /\ call[t].op = "size")
    BY DEF SizeStep, ReadCounter, ReturnSize, At, Op
  <2>2. LocalOK(my[t], call[t])
    BY <1>1 DEF TInv
  <2> QED
    BY <2>1, <2>2 DEF LocalOK
<1>3. PICK m, c : /\ my' = [my EXCEPT ![t] = m] /\ call' = [call EXCEPT ![t] = c]
                  /\ m.pc \in {"sum", "idle"} /\ (c = None \/ c = call[t])
  <2>1. CASE ReturnSize(t)
    BY <2>1, IdleIs DEF ReturnSize, Return, Go
  <2>2. CASE ReadCounter(t)
    <3> DEFINE m == [my[t] EXCEPT !.pc = "sum", !.sum = @ + counter[my[t].root], !.root = @ + 1]
    <3>1. my' = [my EXCEPT ![t] = m] /\ Stay
      BY <2>2 DEF ReadCounter, Go
    <3>2. m.pc = "sum"
      <4>1. my[t] = [pc |-> my[t].pc, hp |-> my[t].hp, queue |-> my[t].queue, root |-> my[t].root,
                     slots |-> my[t].slots, path |-> my[t].path, sum |-> my[t].sum]
        BY <1>1 DEF CInv, Inside, InsideOK, Shape
      <4> QED
        BY <4>1
    <3> HIDE DEF m
    <3>3. call' = [call EXCEPT ![t] = call[t]]
      BY <1>1, <3>1 DEF CInv, Stay
    <3> QED
      BY <3>1, <3>2, <3>3
  <2> QED
    BY <2>1, <2>2 DEF SizeStep
<1>4. ASSUME owner' = t, locked' PROVE SessionOK(m, c, hp', buckets', it', job'.at)
  <2>1. SessionOK(my[t], call[t], hp, buckets, it, job.at) /\ UNCHANGED <<hp, buckets, it, job>>
    BY <1>1, <1>4 DEF Data, Session, inside, table
  <2> QED
    BY <1>2, <1>3, <2>1 DEF SessionOK
<1>5. Data'
  BY <1>1, <1>3, <1>4, SameData, DataStep
<1> QED
  BY <1>1, <1>5, NextStep

LEMMA SessionCallData ==
  ASSUME TableInv, NEW t \in Threads, SessionCall(t)
  PROVE  TInv' /\ Data'
<1>1. /\ CInv /\ TInv /\ Data /\ Session(t) /\ my[t].pc = "idle"
      /\ UNCHANGED <<table, left, inside>>
  BY DEF TableInv, SessionCall, At
<1>2. PICK c \in SessionWork : MayCall(c) /\ call' = [call EXCEPT ![t] = c]
  BY DEF SessionCall
<1>3. my' = [my EXCEPT ![t] = Restart] /\ ret' = [ret EXCEPT ![t] = None]
  BY DEF SessionCall, Go
<1>4. CallOK(c) /\ c.op # "settle" /\ LocalOK(Restart, c)
  BY LockedCallFacts, IdleOK DEF AllCalls
<1>5. /\ SessionOK(my[t], call[t], hp, buckets, it, job.at) /\ call[t] = None
      /\ job.stage = "none" /\ UNCHANGED <<hp, buckets, it, job>>
  BY <1>1 DEF Data, Session, CInv, Inside, InsideOK, table, inside
<1>6. /\ c.op \in {"next", "erase_at"} => it # None /\ it # EndOf(hp)
      /\ c.op = "prev" => it # None /\ Earlier(buckets, it)
  BY <1>2 DEF MayCall, EndPos, EndOf, Earlier
<1>7. Restart.pc = "start"
  BY IdleIs
<1>8. SessionOK(Restart, c, hp', buckets', it', job'.at)
  BY <1>1, <1>4, <1>5, <1>6, <1>7 DEF SessionOK
<1>9. Data'
  BY <1>1, <1>2, <1>3, <1>8, SameData, DataStep
<1>10. Represents(hp', buckets', old', late', Content) /\ Counts(counter', Content)
  BY <1>1, SameTable
<1>11. TInv'
  BY <1>1, <1>2, <1>3, <1>4, <1>10, OtherCall
<1> QED
  BY <1>9, <1>11

-----------------------------------------------------------------------------
(* How a resize, and the construction of a locked_table, begins.            *)

\* A return from an operation that leaves the table as it is.
LEMMA ReturnSame ==
  ASSUME TInv, NEW t \in Threads, NEW r, Return(t, r), UNCHANGED table
  PROVE  TInv'
<1>1. Represents(hp', buckets', old', late', Content) /\ Counts(counter', Content)
  BY SameTable
<1> QED
  BY <1>1, ReturnStep

\* A pause.
LEMMA PauseSame ==
  ASSUME TInv, NEW t \in Threads, NEW w \in {"resize", "build", "forward", "backward"},
         call[t] # None, Go(t, [Idle EXCEPT !.pc = w]), Stay, UNCHANGED table
  PROVE  TInv' /\ my' = [my EXCEPT ![t] = [Idle EXCEPT !.pc = w]]
               /\ call' = [call EXCEPT ![t] = call[t]]
<1> DEFINE m == [Idle EXCEPT !.pc = w]
<1>1. LocalOK(m, call[t]) /\ Go(t, m)
  BY PauseOK
<1> HIDE DEF m
<1>2. Represents(hp', buckets', old', late', Content) /\ UNCHANGED counter
  BY SameTable
<1>3. TInv'
  BY <1>1, <1>2, StayStep
<1>4. my' = [my EXCEPT ![t] = m] /\ call' = [call EXCEPT ![t] = call[t]]
  BY <1>1 DEF TInv, Go, Stay
<1> QED
  BY <1>3, <1>4 DEF m

LEMMA CompareData ==
  ASSUME TableInv, NEW t \in Threads, CompareHashpower(t)
  PROVE  TInv' /\ Data'
<1>1. /\ CInv /\ TInv /\ Data /\ UNCHANGED <<table, inside>> /\ my[t].pc = "start"
      /\ call[t].op \in Resizes
      /\ \/ Return(t, "no")
         \/ Go(t, [Idle EXCEPT !.pc = "resize"]) /\ Stay
  BY DEF TableInv, CompareHashpower, At, Resizing, Resizes, Op
<1>2. call[t] # None
  BY <1>1 DEF CInv, Inside, InsideOK
<1> DEFINE m == [Idle EXCEPT !.pc = "resize"]
<1>3. m.pc = "resize" /\ Idle.pc = "idle"
  BY IdleIs
<1>4. /\ TInv'
      /\ \/ my' = [my EXCEPT ![t] = Idle] /\ call' = [call EXCEPT ![t] = None]
         \/ my' = [my EXCEPT ![t] = m] /\ call' = [call EXCEPT ![t] = call[t]]
  BY <1>1, <1>2, ReturnSame, PauseSame DEF Return, Go
<1> HIDE DEF m
<1>5. ASSUME owner' = t, locked'
      PROVE  /\ SessionOK(m, call[t], hp', buckets', it', job'.at)
             /\ SessionOK(Idle, None, hp', buckets', it', job'.at)
  <2>1. SessionOK(my[t], call[t], hp, buckets, it, job.at) /\ UNCHANGED <<hp, buckets, it, job>>
    BY <1>1, <1>5 DEF Data, Session, inside, table
  <2> QED
    BY <1>1, <1>3, <2>1 DEF SessionOK, Resizes
<1>6. Data'
  BY <1>1, <1>4, <1>5, SameData, DataStep
<1> QED
  BY <1>4, <1>6

LEMMA ExpandData ==
  ASSUME TableInv, NEW t \in Threads, ExpandSimple(t)
  PROVE  TInv' /\ Data'
<1>1. /\ CInv /\ TInv /\ Data /\ UNCHANGED <<table, locked, it, file>> /\ my[t].pc = "resize"
      /\ job.stage = "none" /\ owner \in {None, t} /\ (owner = t => locked)
      /\ \/ Return(t, "exception") /\ UNCHANGED <<owner, job>>
         \/ owner' = t /\ StartMigration /\ UNCHANGED <<call, ret, my, left>>
  BY OwnerAssumption DEF TableInv, ExpandSimple, At, Session
<1>2. call[t].op \in Resizes /\ call[t] # None /\ (locked => owner = t)
  BY <1>1 DEF CInv, Inside, InsideOK, Ownership
<1>3. locked => SessionOK(my[t], call[t], hp, buckets, it, job.at)
  BY <1>1, <1>2 DEF Data, Session
<1>4. CASE Return(t, "exception") /\ UNCHANGED <<owner, job>>
  <2>1. SessionOK(my[t], call[t], hp, buckets, it, job.at) => SessionOK(Idle, None, hp, buckets, it, job.at)
    BY <1>1, <1>2, IdleIs DEF SessionOK, Resizes
  <2>2. UNCHANGED <<table, inside>> /\ UNCHANGED <<hp, buckets, it, job, locked>>
    BY <1>1, <1>4 DEF inside, table
  <2>3. my' = [my EXCEPT ![t] = Idle] /\ call' = [call EXCEPT ![t] = None]
    BY <1>4 DEF Return, Go
  <2>4. locked' => SessionOK(Idle, None, hp', buckets', it', job'.at)
    BY <1>3, <2>1, <2>2
  <2>5. Data'
    BY <1>1, <2>2, <2>3, <2>4, SameData, DataStep
  <2> QED
    BY <1>1, <1>4, <2>5, ReturnSame
<1>5. CASE owner' = t /\ StartMigration /\ UNCHANGED <<call, ret, my, left>>
  <2>1. /\ job'.stage = "migrate" /\ job'.into = {} /\ job'.at = None
        /\ \A l \in Locks : LeftTo(job'.workers, l)
        /\ \A w \in DOMAIN job'.workers :
             job'.workers[w].end <= MaxNumLocks /\ ~job'.workers[w].failed
    BY <1>5, MigrationStarts
  <2>2. late \subseteq Locks /\ UNCHANGED <<hp, buckets, late>>
    BY <1>1 DEF TInv, Good, table
  <2>3. JobData(job', late', hp', buckets')
    BY <2>1, <2>2 DEF JobData
  <2>4. Settled' /\ FileOK(file')
    BY <1>1, <2>1, <2>2 DEF Settled, Data
  <2>5. locked => SessionOK(my[t], call[t], hp, buckets, it, None)
    BY <1>1, <1>3 DEF SessionOK
  <2>6. my' = [my EXCEPT ![t] = my[t]] /\ call' = [call EXCEPT ![t] = call[t]]
    BY <1>1, <1>5 DEF CInv
  <2>7. Data'
    BY <1>1, <1>5, <2>1, <2>2, <2>3, <2>4, <2>5, <2>6, DataStep
  <2>8. Represents(hp', buckets', old', late', Content) /\ UNCHANGED counter
    BY <1>1, SameTable
  <2> QED
    BY <1>1, <1>5, <2>7, <2>8, WorkStep
<1> QED
  BY <1>1, <1>4, <1>5

LEMMA LockData ==
  ASSUME TableInv, NEW t \in Threads, LockTable(t)
  PROVE  TInv' /\ Data'
<1>1. /\ CInv /\ TInv /\ Data /\ UNCHANGED <<table, it, file>> /\ my[t].pc = "start"
      /\ owner = None /\ owner' = t /\ locked' = TRUE
      /\ StartMigration /\ Go(t, [Idle EXCEPT !.pc = "build"]) /\ Stay
  BY DEF TableInv, LockTable, At
<1>2. it = None /\ call[t] # None
  BY <1>1 DEF CInv, Inside, InsideOK, Ownership
<1>3. /\ job'.stage = "migrate" /\ job'.into = {} /\ job'.at = None
      /\ \A l \in Locks : LeftTo(job'.workers, l)
      /\ \A w \in DOMAIN job'.workers :
           job'.workers[w].end <= MaxNumLocks /\ ~job'.workers[w].failed
  BY <1>1, MigrationStarts
<1>4. late \subseteq Locks /\ UNCHANGED <<hp, buckets, late, it, file>>
  BY <1>1 DEF TInv, Good, table
<1>5. JobData(job', late', hp', buckets')
  BY <1>3, <1>4 DEF JobData
<1>6. Settled' /\ FileOK(file')
  BY <1>1, <1>2, <1>3, <1>4 DEF Settled, Data
<1> DEFINE m == [Idle EXCEPT !.pc = "build"]
<1>7. m.pc = "build"
  BY IdleIs
<1>8. TInv' /\ my' = [my EXCEPT ![t] = m] /\ call' = [call EXCEPT ![t] = call[t]]
  BY <1>1, <1>2, PauseSame
<1> HIDE DEF m
<1>9. SessionOK(m, call[t], hp', buckets', it', job'.at)
  BY <1>2, <1>3, <1>4, <1>7 DEF SessionOK
<1>10. Data'
  BY <1>1, <1>3, <1>5, <1>6, <1>8, <1>9, DataStep
<1> QED
  BY <1>8, <1>10

-----------------------------------------------------------------------------
(* What the workers do.                                                     *)

LEMMA IndexFacts ==
  ASSUME NEW n \in Nat, NEW b \in 0 .. n - 1, NEW s \in SlotInds
  PROVE  /\ b * SlotPerBucket + s \in 0 .. n * SlotPerBucket - 1
         /\ (b * SlotPerBucket + s) \div SlotPerBucket = b
         /\ (b * SlotPerBucket + s) % SlotPerBucket = s
<1> DEFINE m == SlotPerBucket
<1>1. m \in Nat \ {0} /\ s \in 0 .. m - 1 /\ b \in Nat /\ b + 1 \in Nat /\ b + 1 <= n
  BY SizeAssumption DEF SlotInds
<1> HIDE DEF m
<1>2. (b * m + s) % m = s /\ (b * m + s) \div m = b
  BY <1>1, QuotientIs
<1>3. (b + 1) * m <= n * m /\ b * m \in Nat /\ n * m \in Nat
  BY <1>1, ProductGrows
<1>4. (b + 1) * m = b * m + m
  BY <1>1
<1> DEFINE x == b * m
           y == n * m
<1>5. x \in Nat /\ y \in Nat /\ x + m <= y
  BY <1>3, <1>4
<1> HIDE DEF x, y
<1>6. x + s \in 0 .. y - 1
  BY <1>1, <1>5
<1> QED
  BY <1>2, <1>6 DEF x, y, m

\* The place a number stands for.
LEMMA PlaceOf ==
  ASSUME NEW n \in Nat, NEW i \in 0 .. n * SlotPerBucket - 1
  PROVE  i \div SlotPerBucket \in 0 .. n - 1 /\ i % SlotPerBucket \in SlotInds
<1> DEFINE m == SlotPerBucket
           q == i \div m
           r == i % m
<1>1. m \in Nat \ {0} /\ SlotInds = 0 .. m - 1
  BY SizeAssumption DEF SlotInds
<1>4. i \in Nat /\ n * m \in Nat /\ i < n * m
  BY <1>1
<1> HIDE DEF m
<1>2. q \in Nat /\ r \in 0 .. m - 1 /\ i = q * m + r
  BY <1>1, <1>4, Quotients
<1> HIDE DEF q, r
<1>3. q < n
  <2> SUFFICES ASSUME n <= q PROVE FALSE
    BY <1>2
  <2>1. n * m <= q * m /\ q * m \in Nat
    BY <1>1, <1>2, ProductGrows
  <2> DEFINE x == q * m
             y == n * m
  <2>2. x \in Nat /\ y \in Nat /\ y <= x /\ i = x + r /\ i < y
    BY <1>2, <1>4, <2>1
  <2> HIDE DEF x, y
  <2> QED
    BY <1>2, <2>2
<1> QED
  BY <1>1, <1>2, <1>3 DEF q, r, m

\* The step of a worker, seen by a session.
LEMMA WorkData ==
  ASSUME CInv, Data, UNCHANGED <<hp, call, my, owner, locked, it, file>>, job'.at = job.at,
         job.stage # "none", job'.stage = job.stage, JobData(job', late', hp', buckets'),
         late' \subseteq late, it # None => buckets' = buckets
  PROVE  Data'
<1>1. Settled'
  BY DEF Data, Settled
<1>2. ASSUME NEW t \in Threads, Session(t)'
      PROVE  SessionOK(my'[t], call'[t], hp', buckets', it', job'.at)
  <2>1. SessionOK(my[t], call[t], hp, buckets, it, job.at) /\ owner = t
    BY <1>2 DEF Data, Session
  <2>2. my[t].pc \in {"build", "resize"}
    BY <2>1 DEF CInv, Inside, InsideOK
  <2> QED
    BY <2>1, <2>2 DEF SessionOK
<1> QED
  BY <1>1, <1>2 DEF Data

LEMMA MigrateData ==
  ASSUME TableInv, NEW w, MigrateLock(w)
  PROVE  TInv' /\ Data' /\ Content' = Content
<1> DEFINE l == job.workers[w].next
           ls == {l}
           ws == job.workers
           vs == Advanced(w)
<1>1. /\ CInv /\ TInv /\ Data /\ JobOK /\ Working(w) /\ job.stage = "migrate"
      /\ Under(ls, AfterMove(ls)) /\ UNCHANGED <<counter, call, ret, my, left, owner, locked, it, file>>
  BY DEF TableInv, MigrateLock, CInv
<1>2. /\ w \in DOMAIN ws /\ ws[w].next < ws[w].end /\ ws[w] \in Worker
      /\ DOMAIN vs = DOMAIN ws
      /\ \A u \in DOMAIN ws : vs[u].end = ws[u].end /\ vs[u].failed = ws[u].failed
      /\ \A i : LeftTo(ws, i) /\ i # l => LeftTo(vs, i)
  BY <1>1, DoneFacts
<1>3. /\ job.into = {} /\ job.at = None
      /\ \A u \in DOMAIN ws : ws[u].end <= MaxNumLocks /\ ~ws[u].failed
      /\ \A i \in late : LeftTo(ws, i)
  BY <1>1 DEF Data, JobData
<1>4. ls \in SUBSET Locks
  <2>1. ws[w].next \in Nat /\ ws[w].end \in Nat /\ ws[w].end <= MaxNumLocks /\ MaxNumLocks \in Nat
    BY <1>2, <1>3, SizeAssumption DEF Worker
  <2> DEFINE n == ws[w].next
             e == ws[w].end
  <2>2. n \in Nat /\ e \in Nat /\ e <= MaxNumLocks /\ n < e
    BY <1>2, <2>1
  <2> HIDE DEF n, e
  <2>3. n \in 0 .. MaxNumLocks - 1
    BY <2>1, <2>2
  <2> QED
    BY <2>3 DEF Locks, n
<1>5. job'.stage = "migrate" /\ job'.workers = vs /\ job'.into = {} /\ job'.at = None
  <2> DEFINE s == job.stage
             h == job.hp
             i == job.into
             v == job.moved
             a == job.at
  <2>1. JobIs(job', s, vs, h, i, v, a)
    BY <1>1, WorkerJob
  <2>2. s = "migrate" /\ i = {} /\ a = None
    BY <1>1, <1>3
  <2> HIDE DEF s, h, i, v, a, vs
  <2> QED
    BY <2>1, <2>2, JobFields
<1> HIDE DEF ws, vs
<1>6. late' = late \ ls
  BY <1>1 DEF Under
<1>7. JobData(job', late', hp', buckets')
  <2>1. \A i \in late' : LeftTo(vs, i)
    BY <1>2, <1>3, <1>6
  <2>2. \A u \in DOMAIN vs : vs[u].end <= MaxNumLocks /\ ~vs[u].failed
    BY <1>2, <1>3
  <2> QED
    BY <1>5, <2>1, <2>2 DEF JobData
<1>8. it # None => buckets' = buckets
  BY <1>1 DEF Data, Settled, Under, AfterMove
<1>9. UNCHANGED hp /\ late' \subseteq late
  BY <1>1 DEF Under
<1>10. Data'
  BY <1>1, <1>3, <1>5, <1>7, <1>8, <1>9, WorkData
<1>11. Represents(hp, AfterMove(ls), OldAfter(ls), late \ ls, Content)
  BY <1>1, <1>4, Locked
<1>12. Represents(hp', buckets', old', late', Content)
  <2> DEFINE tb == AfterMove(ls)
  <2>1. Under(ls, tb) /\ Represents(hp, tb, OldAfter(ls), late \ ls, Content)
    BY <1>1, <1>11
  <2> HIDE DEF tb, ls
  <2> QED
    BY <1>1, <2>1, Unlocked
<1>13. TInv' /\ Content' = Content
  BY <1>1, <1>12, WorkStep
<1> QED
  BY <1>10, <1>13

LEMMA TransferData ==
  ASSUME TableInv, NEW w, TransferStep(w)
  PROVE  TInv' /\ Data' /\ Content' = Content
<1> DEFINE n == Size(hp)
           top == n * SlotPerBucket
           ws == job.workers
           into == job.into
           next == ws[w].next
           b0 == next \div SlotPerBucket
           s0 == next % SlotPerBucket
           e0 == buckets[b0][s0]
           vs == Advanced(w)
           fs == Failing(w)
<1>1. /\ CInv /\ TInv /\ Data /\ JobOK /\ Working(w) /\ job.stage = "transfer"
      /\ UNCHANGED <<table, counter, call, ret, my, left, owner, locked, it, file>>
  BY DEF TableInv, TransferStep, SkipSlot, MoveOut, GrowNewMap, FailTransfer, Transferring, CInv, table
<1>2. /\ \A u \in DOMAIN ws : ws[u].end <= top
      /\ \A e \in into : \E b \in BucketInds, s \in SlotInds : Occupied(buckets, b, s) /\ buckets[b][s] = e
      /\ \A b \in BucketInds, s \in SlotInds :
           Occupied(buckets, b, s) => buckets[b][s] \in into \/ LeftTo(ws, b * SlotPerBucket + s)
      /\ job.at = None
  BY <1>1 DEF Data, JobData
<1>3. /\ w \in DOMAIN ws /\ ws[w].next < ws[w].end /\ ws[w] \in Worker
      /\ DOMAIN vs = DOMAIN ws
      /\ \A u \in DOMAIN ws : vs[u].end = ws[u].end
      /\ \A i : LeftTo(ws, i) /\ i # next => LeftTo(vs, i)
  BY <1>1, DoneFacts
<1>4. DOMAIN fs = DOMAIN ws /\ (\A u \in DOMAIN ws : fs[u].end = ws[u].end)
      /\ \A i : LeftTo(ws, i) => LeftTo(fs, i)
  <2> DEFINE f == TRUE
  <2>1. InOrder(ws) /\ w \in DOMAIN ws /\ fs = SetFailed(ws, w, f) /\ f \in BOOLEAN
    BY <1>1, <1>3 DEF JobOK, Failing
  <2> HIDE DEF fs, ws, f
  <2> QED
    BY <2>1, FailInOrder
<1>5. n \in Nat /\ 0 .. n - 1 \subseteq BucketInds /\ hp \in 0 .. MaxHp
  BY <1>1, Sizes, BucketIndFacts DEF TInv, Good
<1>6. next \in 0 .. top - 1
  <2>1. ws[w].next \in Nat /\ ws[w].end \in Nat /\ ws[w].end <= top
    BY <1>2, <1>3 DEF Worker
  <2>2. top \in Nat
    <3> HIDE DEF n
    <3> QED
      BY <1>5, SizeAssumption
  <2> DEFINE x == ws[w].next
             e == ws[w].end
  <2>3. x \in Nat /\ e \in Nat /\ e <= top /\ x < e
    BY <1>3, <2>1
  <2> HIDE DEF x, e, top
  <2>4. x \in 0 .. top - 1
    BY <2>2, <2>3
  <2> QED
    BY <2>4 DEF x
<1>7. b0 \in 0 .. n - 1 /\ s0 \in SlotInds /\ b0 \in BucketInds
  <2> HIDE DEF next, n
  <2>1. b0 \in 0 .. n - 1 /\ s0 \in SlotInds
    BY <1>5, <1>6, PlaceOf
  <2> QED
    BY <1>5, <2>1
<1>8. Place(w) = <<b0, s0>> /\ Source(w) = e0
  BY DEF Place, Source
<1>9. ASSUME NEW b \in BucketInds, NEW s \in SlotInds, Occupied(buckets, b, s),
             b * SlotPerBucket + s = next
      PROVE  b = b0 /\ s = s0
  <2>1. b \in 0 .. n - 1
    BY <1>1, <1>9, PlaceFacts DEF TInv
  <2> HIDE DEF n, next
  <2> QED
    BY <1>5, <1>9, <2>1, IndexFacts
<1> HIDE DEF e0
<1>10. /\ SkipSlot(w) => e0 = None
       /\ MoveOut(w) => e0 # None
  BY <1>8 DEF SkipSlot, MoveOut
<1> DEFINE s == job.stage
           h == job.hp
           v == job.moved
           a == job.at
           i2 == into \cup {Source(w)}
           v2 == v \cup {Place(w)}
           g == h + 1
<1>11. /\ SkipSlot(w) => JobIs(job', s, vs, h, into, v, a)
       /\ MoveOut(w) => JobIs(job', s, vs, h, i2, v2, a)
       /\ GrowNewMap(w) => JobIs(job', s, ws, g, into, v, a)
       /\ FailTransfer(w) => JobIs(job', s, fs, h, into, v, a)
  BY <1>1, WorkerJob
<1>12. s = "transfer" /\ a = None /\ i2 = into \cup {e0}
  BY <1>1, <1>2, <1>8
<1>13. SkipSlot(w) \/ MoveOut(w) \/ GrowNewMap(w) \/ FailTransfer(w)
  BY DEF TransferStep
<1> HIDE DEF s, h, v, a, i2, v2, g, vs, fs, ws, into, next, top, b0, s0
<1>14. /\ job'.stage = "transfer" /\ job'.at = None
       /\ SkipSlot(w) => job'.workers = vs /\ job'.into = into
       /\ MoveOut(w) => job'.workers = vs /\ job'.into = i2
       /\ GrowNewMap(w) => job'.workers = ws /\ job'.into = into
       /\ FailTransfer(w) => job'.workers = fs /\ job'.into = into
  BY <1>11, <1>12, <1>13, JobFields
<1>15. \A u \in DOMAIN job'.workers : job'.workers[u].end <= top
  BY <1>2, <1>3, <1>4, <1>13, <1>14
<1>16. ASSUME NEW e \in job'.into
       PROVE  \E b \in BucketInds, r \in SlotInds : Occupied(buckets, b, r) /\ buckets[b][r] = e
  <2>1. CASE e \in into
    BY <1>2, <2>1
  <2>2. CASE e \notin into
    <3>1. MoveOut(w) /\ e = e0 /\ e0 # None
      BY <1>10, <1>12, <1>13, <1>14, <1>16, <2>2
    <3>2. Occupied(buckets, b0, s0) /\ buckets[b0][s0] = e
      BY <3>1 DEF Occupied, e0
    <3> QED
      BY <1>7, <3>2
  <2> QED
    BY <2>1, <2>2
<1>17. ASSUME NEW b \in BucketInds, NEW r \in SlotInds, Occupied(buckets, b, r)
       PROVE  buckets[b][r] \in job'.into \/ LeftTo(job'.workers, b * SlotPerBucket + r)
  <2> DEFINE k == b * SlotPerBucket + r
  <2>1. buckets[b][r] \in into \/ LeftTo(ws, k)
    BY <1>2, <1>17
  <2>2. k = next => b = b0 /\ r = s0 /\ buckets[b][r] = e0
    BY <1>9, <1>17 DEF e0
  <2>3. SkipSlot(w) => k # next
    BY <1>10, <1>17, <2>2 DEF Occupied
  <2>9. k = b * SlotPerBucket + r
    OBVIOUS
  <2> HIDE DEF k
  <2>4. CASE SkipSlot(w)
    BY <1>3, <1>14, <2>1, <2>3, <2>4, <2>9
  <2>5. CASE MoveOut(w)
    BY <1>3, <1>12, <1>14, <2>1, <2>2, <2>5, <2>9
  <2>6. CASE GrowNewMap(w)
    BY <1>14, <2>1, <2>6, <2>9
  <2>7. CASE FailTransfer(w)
    BY <1>4, <1>14, <2>1, <2>7, <2>9
  <2> QED
    BY <1>13, <2>4, <2>5, <2>6, <2>7
<1>18. UNCHANGED <<hp, buckets, late>>
  BY <1>1 DEF table
<1>19. JobData(job', late', hp', buckets')
  BY <1>14, <1>15, <1>16, <1>17, <1>18 DEF JobData, top
<1>20. Data'
  BY <1>1, <1>2, <1>14, <1>18, <1>19, WorkData
<1>21. Represents(hp', buckets', old', late', Content) /\ UNCHANGED counter
  BY <1>1, SameTable
<1> QED
  BY <1>1, <1>20, <1>21, WorkStep

-----------------------------------------------------------------------------
(* The ends of migrations and resizes.                                      *)

LEMMA EndMigrationData ==
  ASSUME TableInv, NEW t \in Threads, EndMigration(t)
  PROVE  TInv' /\ Data' /\ late = {} /\ UNCHANGED table
<1>1. /\ CInv /\ TInv /\ Data /\ owner = t /\ job.stage = "migrate" /\ Joined /\ old' = Empty
      /\ UNCHANGED <<hp, buckets, late, counter, owner, locked, it, file>>
  BY DEF TableInv, EndMigration
<1>2. /\ job.into = {} /\ job.at = None
      /\ \A w \in DOMAIN job.workers : ~job.workers[w].failed
      /\ \A l \in late : LeftTo(job.workers, l)
  BY <1>1 DEF Data, JobData
<1>3. late = {}
  <2> SUFFICES ASSUME NEW l \in late PROVE FALSE
    OBVIOUS
  <2>1. PICK w \in DOMAIN job.workers : l \in job.workers[w].next .. job.workers[w].end - 1
    BY <1>2 DEF LeftTo
  <2>2. job.workers[w] \in Worker
    BY <1>1 DEF CInv, JobOK, InOrder
  <2>3. job.workers[w].next \in Nat /\ job.workers[w].end \in Nat
    BY <2>2 DEF Worker
  <2> DEFINE n == job.workers[w].next
             e == job.workers[w].end
  <2>4. n \in Nat /\ e \in Nat /\ l \in n .. e - 1
    BY <2>1, <2>3
  <2> HIDE DEF n, e
  <2>5. n < e
    BY <2>4
  <2> QED
    BY <1>1, <1>2, <2>5 DEF Joined, Working, n, e
<1>4. old = Empty
  BY <1>1, <1>3, NothingOld DEF TInv
<1>5. UNCHANGED table
  BY <1>1, <1>4 DEF table
<1>6. InsideOK(t, my[t], call[t], owner, locked, job.stage, file)
  BY <1>1 DEF CInv, Inside
<1>7. FileOK(file')
  BY <1>1 DEF Data
<1>8. CASE Building(t)
  <2>1. job' = NoJob /\ Return(t, "yes")
    BY <1>8 DEF EndMigration
  <2>2. call[t].op = "lock" /\ locked
    BY <1>1, <1>6, <1>8 DEF InsideOK, Building, At, Op, Resizes
  <2>3. job'.stage = "none" /\ job'.into = {} /\ job'.at = None
    BY <2>1, NoJobIs, JobFields
  <2>4. JobData(job', late', hp', buckets') /\ Settled'
    BY <1>1, <1>3, <2>3 DEF JobData, Settled
  <2>5. my' = [my EXCEPT ![t] = Idle] /\ call' = [call EXCEPT ![t] = None]
    BY <2>1 DEF Return, Go
  <2>6. SessionOK(my[t], call[t], hp, buckets, it, job.at)
    BY <1>1, <2>2 DEF Data, Session
  <2>7. SessionOK(Idle, None, hp', buckets', it', job'.at)
    BY <1>1, <2>2, <2>3, <2>6, IdleIs DEF SessionOK
  <2>8. Data'
    BY <1>1, <1>7, <2>3, <2>4, <2>5, <2>7, DataStep
  <2> QED
    BY <1>1, <1>3, <1>5, <2>1, <2>8, ReturnSame
<1>9. CASE ~Building(t)
  <2>1. UNCHANGED <<call, ret, my, left>>
    BY <1>9 DEF EndMigration
  <2>2. job'.stage = "transfer"
    <3>1. PICK extra \in ExtraWorkers :
            job' = [job EXCEPT !.stage = "transfer", !.hp = Target(t),
                               !.workers = Ranges(Size(hp), SlotPerBucket, extra)]
      BY <1>9 DEF EndMigration
    <3>2. job = [stage |-> job.stage, workers |-> job.workers, hp |-> job.hp,
                 into |-> job.into, moved |-> job.moved, at |-> job.at]
      BY <1>1 DEF CInv, JobOK, JobShape, JobIs
    <3> QED
      BY <3>1, <3>2
  <2>3. PICK extra \in ExtraWorkers :
          JobIs(job', "transfer", Ranges(Size(hp), SlotPerBucket, extra), Target(t), {}, job.moved, None)
    <3>1. job' # NoJob
      BY <2>2, NoJobIs, JobFields
    <3> QED
      BY <1>1, <1>2, <3>1, EndMigrationControl
  <2> DEFINE R == Ranges(Size(hp), SlotPerBucket, extra)
  <2>4. hp \in 0 .. MaxHp
    BY <1>1 DEF CInv
  <2>5. /\ \A i \in 0 .. Size(hp) * SlotPerBucket - 1 : LeftTo(R, i)
        /\ \A w \in DOMAIN R : R[w].end <= Size(hp) * SlotPerBucket
    BY <2>4, TransferRanges
  <2>6. JobIs(job', "transfer", R, Target(t), {}, job.moved, None)
    BY <2>3
  <2> HIDE DEF R
  <2>7. /\ job'.stage = "transfer" /\ job'.workers = R /\ job'.into = {} /\ job'.at = None
    BY <2>6, JobFields
  <2>8. ASSUME NEW b \in BucketInds, NEW s \in SlotInds, Occupied(buckets, b, s)
        PROVE  LeftTo(R, b * SlotPerBucket + s)
    <3>1. b \in 0 .. Size(hp) - 1
      BY <1>1, <2>8, PlaceFacts DEF TInv
    <3>2. Size(hp) \in Nat
      BY <2>4, Sizes
    <3> QED
      BY <2>5, <3>1, <3>2, IndexFacts
  <2>9. JobData(job', late', hp', buckets')
    BY <1>1, <2>5, <2>7, <2>8 DEF JobData
  <2>10. Settled'
    BY <1>1, <1>3 DEF Settled
  <2>11. my' = [my EXCEPT ![t] = my[t]] /\ call' = [call EXCEPT ![t] = call[t]]
    BY <1>1, <2>1 DEF CInv
  <2>12. locked' => SessionOK(my[t], call[t], hp', buckets', it', job'.at)
    BY <1>1, <1>2, <2>7 DEF Data, Session
  <2>13. Data'
    BY <1>1, <1>7, <2>7, <2>9, <2>10, <2>11, <2>12, DataStep
  <2>14. Represents(hp', buckets', old', late', Content) /\ UNCHANGED counter
    BY <1>1, <1>5, SameTable
  <2> QED
    BY <1>1, <1>3, <1>5, <2>1, <2>13, <2>14, WorkStep
<1> QED
  BY <1>8, <1>9

-----------------------------------------------------------------------------
(* A table that holds given elements.                                       *)

\* Every element is where its placement says, and nothing else is there.
LEMMA FilledFacts ==
  ASSUME NEW p \in 0 .. MaxHp, NEW es, es \subseteq Entries,
         \A d, e \in es : d.key = e.key => d = e,
         NEW f \in Placements(es, p)
  PROVE  /\ FilledAs(f) \in Table /\ Placed(p, FilledAs(f)) /\ Once(FilledAs(f))
         /\ \A e \in es : \E b \in BucketInds, s \in SlotInds :
              Occupied(FilledAs(f), b, s) /\ FilledAs(f)[b][s] = e
         /\ \A b \in BucketInds, s \in SlotInds :
              Occupied(FilledAs(f), b, s) => FilledAs(f)[b][s] \in es
<1> DEFINE F == FilledAs(f)
<1>1. /\ DOMAIN f = es
      /\ \A e \in es : f[e] = <<f[e][1], f[e][2]>> /\ f[e][2] \in SlotInds /\ f[e][1] \in Two(p, e.key)
      /\ \A e, d \in es : f[e] = f[d] => e = d
  <2>1. /\ f \in [es -> (UNION {Two(p, e.key) : e \in es}) \X SlotInds]
        /\ \A e \in es : f[e][1] \in Two(p, e.key)
        /\ \A e, d \in es : f[e] = f[d] => e = d
    BY DEF Placements
  <2>2. \A e \in es : f[e] \in (UNION {Two(p, d.key) : d \in es}) \X SlotInds
    BY <2>1
  <2>3. \A e \in es : f[e] = <<f[e][1], f[e][2]>> /\ f[e][2] \in SlotInds
    BY <2>2
  <2> QED
    BY <2>1, <2>3
<1>2. \A e \in es : e \in Entries /\ e # None /\ e.key \in Keys
  BY NoneAssumption DEF Entries
<1>3. \A e \in es : f[e][1] \in BucketInds
  BY <1>1, <1>2, FirstFacts
<1>4. ASSUME NEW b \in BucketInds, NEW s \in SlotInds
      PROVE  /\ F[b][s] \in es \cup {None}
             /\ F[b][s] # None => f[F[b][s]] = <<b, s>>
             /\ \A e \in es : f[e] = <<b, s>> => F[b][s] = e
  <2>1. F[b][s] = IF \E e \in es : f[e] = <<b, s>> THEN CHOOSE e \in es : f[e] = <<b, s>> ELSE None
    BY <1>1 DEF FilledAs
  <2> HIDE DEF F
  <2> QED
    BY <1>1, <2>1
<1>5. F = [b \in BucketInds |-> [s \in SlotInds |-> F[b][s]]]
  BY DEF FilledAs
<1> HIDE DEF F
<1>6. F \in Table
  <2>1. \A b \in BucketInds, s \in SlotInds : F[b][s] \in Entries \cup {None}
    BY <1>2, <1>4
  <2> QED
    BY <1>5, <2>1 DEF Table
<1>7. Placed(p, F)
  BY <1>1, <1>4 DEF Placed, Occupied
<1>8. Once(F)
  <2> SUFFICES ASSUME NEW b \in BucketInds, NEW c \in BucketInds, NEW s \in SlotInds, NEW r \in SlotInds,
                      F[b][s] # None, F[c][r] # None, F[b][s].key = F[c][r].key
               PROVE  b = c /\ s = r
    BY DEF Once, Occupied
  <2>1. F[b][s] = F[c][r]
    BY <1>4
  <2>2. <<b, s>> = <<c, r>>
    BY <1>4, <2>1
  <2> QED
    BY <2>2
<1>9. ASSUME NEW e \in es
      PROVE  \E b \in BucketInds, s \in SlotInds : Occupied(F, b, s) /\ F[b][s] = e
  <2> DEFINE b == f[e][1]
             s == f[e][2]
  <2>1. f[e] = <<b, s>> /\ b \in BucketInds /\ s \in SlotInds
    BY <1>1, <1>3
  <2> HIDE DEF b, s
  <2>2. F[b][s] = e /\ e # None
    BY <1>2, <1>4, <2>1
  <2> QED
    BY <2>1, <2>2 DEF Occupied
<1>10. \A b \in BucketInds, s \in SlotInds : Occupied(F, b, s) => F[b][s] \in es
  BY <1>4 DEF Occupied
<1> QED
  BY <1>6, <1>7, <1>8, <1>9, <1>10 DEF F

\* The elements of a table, in another place each, are the same map.
LEMMA SameElements ==
  ASSUME NEW p \in 0 .. MaxHp, NEW tb \in Table, NEW F \in Table, NEW store,
         Placed(p, F), Once(F), Shows(tb, Empty, store),
         \A b \in BucketInds, s \in SlotInds : Occupied(F, b, s) =>
           \E c \in BucketInds, r \in SlotInds : Occupied(tb, c, r) /\ tb[c][r] = F[b][s],
         \A b \in BucketInds, s \in SlotInds : Occupied(tb, b, s) =>
           \E c \in BucketInds, r \in SlotInds : Occupied(F, c, r) /\ F[c][r] = tb[b][s]
  PROVE  Represents(p, F, Empty, {}, store)
<1>1. Good(p, F, Empty, {})
  BY NoOldTable
<1>2. \A k \in Keys, v \in Vals : [key |-> k, val |-> v] # None
  BY NoneAssumption DEF Entries
<1>3. ASSUME NEW k \in Keys, NEW v \in Vals PROVE Stored(F, k, v) <=> Stored(tb, k, v)
  BY <1>2 DEF Stored, Occupied
<1>4. Shows(F, Empty, store)
  BY <1>3 DEF Shows
<1> QED
  BY <1>1, <1>4 DEF Represents

\* When all the workers of a resize are joined and none has failed, the new
\* table has got every element, once.
LEMMA SwapData ==
  ASSUME TableInv, NEW t \in Threads, SwapBuckets(t)
  PROVE  TInv' /\ Data' /\ Content' = Content
<1> DEFINE es == job.into
<1>1. /\ CInv /\ TInv /\ Data /\ owner = t /\ AllMoved /\ Return(t, "yes") /\ Release
      /\ hp' = job.hp /\ job' = NoJob /\ it' = None
      /\ UNCHANGED <<old, late, counter, locked, file>>
      /\ job.stage = "transfer" /\ Joined /\ \A w \in DOMAIN job.workers : ~job.workers[w].failed
  BY DEF TableInv, SwapBuckets, AllMoved
<1>2. PICK f \in Placements(es, job.hp) : buckets' = FilledAs(f)
  BY DEF SwapBuckets
<1>3. /\ \A e \in es : \E b \in BucketInds, s \in SlotInds : Occupied(buckets, b, s) /\ buckets[b][s] = e
      /\ \A b \in BucketInds, s \in SlotInds :
           Occupied(buckets, b, s) => buckets[b][s] \in es \/ LeftTo(job.workers, b * SlotPerBucket + s)
      /\ late = {}
  BY <1>1 DEF Data, JobData, Settled
<1>4. \A i : ~LeftTo(job.workers, i)
  <2> SUFFICES ASSUME NEW i, LeftTo(job.workers, i) PROVE FALSE
    OBVIOUS
  <2>1. PICK w \in DOMAIN job.workers : i \in job.workers[w].next .. job.workers[w].end - 1
    BY DEF LeftTo
  <2>2. job.workers[w] \in Worker
    BY <1>1 DEF CInv, JobOK, InOrder
  <2>3. job.workers[w].next \in Nat /\ job.workers[w].end \in Nat
    BY <2>2 DEF Worker
  <2> DEFINE n == job.workers[w].next
             e == job.workers[w].end
  <2>4. n \in Nat /\ e \in Nat /\ i \in n .. e - 1
    BY <2>1, <2>3
  <2> HIDE DEF n, e
  <2>5. n < e
    BY <2>4
  <2> QED
    BY <1>1, <2>5 DEF Joined, Working, n, e
<1>5. \A b \in BucketInds, s \in SlotInds : Occupied(buckets, b, s) => buckets[b][s] \in es
  BY <1>3, <1>4
<1>6. old = Empty /\ Good(hp, buckets, old, late) /\ buckets \in Table /\ Once(buckets)
  BY <1>1, <1>3, NothingOld DEF TInv, Good
<1>7. es \subseteq Entries /\ \A d, e \in es : d.key = e.key => d = e
  <2>3. \A b \in BucketInds, s \in SlotInds : Occupied(buckets, b, s) => buckets[b][s] \in Entries
    BY <1>6, EntryFacts
  <2>1. \A e \in es : \E b \in BucketInds, s \in SlotInds :
          Occupied(buckets, b, s) /\ buckets[b][s] = e /\ e \in Entries
    BY <1>3, <2>3
  <2>2. \A d, e \in es : d.key = e.key => d = e
    BY <1>6, <2>1 DEF Once
  <2> QED
    BY <2>1, <2>2
<1>8. job.hp \in 0 .. MaxHp
  BY <1>1 DEF CInv, JobOK
<1> DEFINE F == FilledAs(f)
           q == job.hp
<1>9. /\ F \in Table /\ Placed(q, F) /\ Once(F)
      /\ \A e \in es : \E b \in BucketInds, s \in SlotInds : Occupied(F, b, s) /\ F[b][s] = e
      /\ \A b \in BucketInds, s \in SlotInds : Occupied(F, b, s) => F[b][s] \in es
  BY <1>7, <1>8, FilledFacts
<1>10. Shows(buckets, Empty, Content) /\ Counts(counter, Content)
  BY <1>1, <1>6, TableNow DEF Represents
<1>11. q \in 0 .. MaxHp /\ buckets' = F /\ hp' = q
  BY <1>1, <1>2, <1>8
<1> HIDE DEF F, q, es
<1>12. Represents(q, F, Empty, {}, Content)
  BY <1>3, <1>5, <1>6, <1>9, <1>10, <1>11, SameElements
<1>13. Represents(hp', buckets', old', late', Content) /\ Counts(counter', Content)
  BY <1>1, <1>3, <1>6, <1>10, <1>11, <1>12
<1>14. TInv' /\ Content' = Content
  BY <1>1, <1>13, ReturnStep
<1>15. job'.stage = "none" /\ job'.into = {} /\ job'.at = None
  BY <1>1, NoJobIs, JobFields
<1>16. JobData(job', late', hp', buckets') /\ Settled' /\ FileOK(file')
  BY <1>1, <1>3, <1>15 DEF JobData, Settled, Data
<1>17. my' = [my EXCEPT ![t] = Idle] /\ call' = [call EXCEPT ![t] = None] /\ owner' \in {None, t}
  BY <1>1 DEF Return, Go, Release
<1>18. SessionOK(Idle, None, hp', buckets', it', job'.at)
  BY <1>1, <1>15, IdleIs DEF SessionOK
<1>19. Data'
  BY <1>1, <1>15, <1>16, <1>17, <1>18, DataStep
<1> QED
  BY <1>14, <1>19

\* Elements that keep their value when they are moved are all still there when
\* the new table is thrown away.
LEMMA RethrowData ==
  ASSUME TableInv, NEW t \in Threads, RethrowTransfer(t), ~MoveEmpties
  PROVE  TInv' /\ Data' /\ Content' = Content
<1>1. /\ CInv /\ TInv /\ Data /\ owner = t /\ job.stage = "transfer" /\ Return(t, "exception")
      /\ Release /\ job' = NoJob /\ UNCHANGED table /\ UNCHANGED <<locked, it, file>>
  BY DEF TableInv, RethrowTransfer, table
<1>2. job'.stage = "none" /\ job'.into = {} /\ job'.at = None
  BY <1>1, NoJobIs, JobFields
<1>3. UNCHANGED <<hp, buckets, late>> /\ late = {}
  BY <1>1 DEF table, Data, Settled
<1>4. JobData(job', late', hp', buckets') /\ Settled' /\ FileOK(file')
  BY <1>1, <1>2, <1>3 DEF JobData, Settled, Data
<1>5. my' = [my EXCEPT ![t] = Idle] /\ call' = [call EXCEPT ![t] = None] /\ owner' \in {None, t}
  BY <1>1 DEF Return, Go, Release
<1>6. locked => SessionOK(my[t], call[t], hp, buckets, it, job.at) /\ my[t].pc = "resize"
                /\ call[t].op \in Resizes
  BY <1>1 DEF Data, Session, CInv, Inside, InsideOK
<1>7. locked' => SessionOK(Idle, None, hp', buckets', it', job'.at)
  BY <1>1, <1>2, <1>3, <1>6, IdleIs DEF SessionOK, Resizes
<1>8. Data'
  BY <1>1, <1>2, <1>4, <1>5, <1>7, DataStep
<1>9. Represents(hp', buckets', old', late', Content) /\ Counts(counter', Content)
  BY <1>1, SameTable
<1> QED
  BY <1>1, <1>8, <1>9, ReturnStep

-----------------------------------------------------------------------------
(* Iterators.                                                               *)

InSession(t) ==
  /\ owner = t /\ locked /\ job.stage = "none" /\ call[t] # None
  /\ UNCHANGED <<table, owner, locked, file>>

\* Where the loops may look.
ForwardFrom(p, a)      == a = EndOf(p) \/ a \in (0 .. Size(p) - 1) \X (0 .. SlotPerBucket)
BackwardFrom(p, tb, a) == Spot(p, a) /\ (Occupied(tb, a[1], a[2]) \/ Earlier(tb, a))

LEMMA SessionIs ==
  ASSUME TableInv, NEW t \in Threads, InSession(t)
  PROVE  /\ CInv /\ TInv /\ Data /\ JobOK /\ hp \in 0 .. MaxHp /\ late = {} /\ late' = {}
         /\ SessionOK(my[t], call[t], hp, buckets, it, job.at)
         /\ UNCHANGED <<hp, buckets>> /\ FileOK(file')
         /\ job'.stage = "none" => Settled'
         /\ job'.stage = "none" /\ job'.into = {} => JobData(job', late', hp', buckets')
         /\ job.into = {}
<1>1. /\ CInv /\ TInv /\ Data /\ JobOK /\ hp \in 0 .. MaxHp /\ late = {} /\ job.into = {}
      /\ SessionOK(my[t], call[t], hp, buckets, it, job.at)
  BY DEF TableInv, InSession, Data, Settled, Session, CInv, JobData
<1>2. late' = {} /\ UNCHANGED <<hp, buckets>> /\ FileOK(file')
  BY <1>1 DEF InSession, Data, table
<1> QED
  BY <1>1, <1>2 DEF Settled, JobData

LEMMA ArriveData ==
  ASSUME TableInv, NEW t \in Threads, InSession(t), NEW p, Arrive(t, p),
         p = EndOf(hp) \/ (Spot(hp, p) /\ Occupied(buckets, p[1], p[2]))
  PROVE  TInv' /\ Data'
<1>1. /\ CInv /\ TInv /\ late' = {} /\ UNCHANGED <<hp, buckets>> /\ FileOK(file')
      /\ job'.stage = "none" => Settled'
      /\ job'.stage = "none" /\ job'.into = {} => JobData(job', late', hp', buckets')
  BY SessionIs
<1>2. PICK r : Return(t, r)
  BY DEF Arrive
<1>3. job'.stage = "none" /\ job'.into = {} /\ job'.at = None
  BY NoJobIs, JobFields DEF Arrive
<1>4. my' = [my EXCEPT ![t] = Idle] /\ call' = [call EXCEPT ![t] = None]
  BY <1>2 DEF Return, Go
<1>5. SessionOK(Idle, None, hp', buckets', it', job'.at)
  BY <1>1, <1>3, IdleIs DEF SessionOK, Arrive
<1>6. owner' \in {None, t}
  BY DEF InSession
<1>7. Data'
  BY <1>1, <1>3, <1>4, <1>5, <1>6, DataStep
<1> QED
  BY <1>1, <1>2, <1>7, ReturnSame DEF InSession

LEMMA LoopsData ==
  ASSUME TableInv, NEW t \in Threads, InSession(t), NEW w \in {"forward", "backward"}, NEW p,
         Loops(t, w, p),
         w = "forward" => ForwardFrom(hp, p), w = "backward" => BackwardFrom(hp, buckets, p)
  PROVE  TInv' /\ Data'
<1>1. /\ CInv /\ TInv /\ late' = {} /\ UNCHANGED <<hp, buckets>> /\ FileOK(file')
      /\ job'.stage = "none" => Settled'
      /\ job'.stage = "none" /\ job'.into = {} => JobData(job', late', hp', buckets')
      /\ SessionOK(my[t], call[t], hp, buckets, it, job.at)
  BY SessionIs
<1>2. job'.stage = "none" /\ job'.into = {} /\ job'.at = p
  <2>1. JobIs(job', "none", <<>>, 0, {}, {}, p)
    BY NoJobIs, JobSet DEF Loops
  <2> QED
    BY <2>1, JobFields
<1> DEFINE m == [Idle EXCEPT !.pc = w]
<1>3. m.pc = w
  BY IdleIs
<1>4. TInv' /\ my' = [my EXCEPT ![t] = m] /\ call' = [call EXCEPT ![t] = call[t]]
  BY <1>1, PauseSame DEF Loops, InSession
<1> HIDE DEF m
<1>5. SessionOK(m, call[t], hp', buckets', it', job'.at)
  BY <1>1, <1>2, <1>3 DEF SessionOK, Loops, ForwardFrom, BackwardFrom
<1>6. owner' \in {None, t} /\ locked'
  BY DEF InSession
<1>7. Data'
  BY <1>1, <1>2, <1>4, <1>5, <1>6, DataStep
<1> QED
  BY <1>4, <1>7

LEMMA ScansData ==
  ASSUME TableInv, NEW t \in Threads, InSession(t), NEW p, Scans(t, p),
         my[t].pc = "forward" => ForwardFrom(hp, p),
         my[t].pc = "backward" => BackwardFrom(hp, buckets, p)
  PROVE  TInv' /\ Data'
<1>1. /\ CInv /\ TInv /\ JobOK /\ late' = {} /\ UNCHANGED <<hp, buckets>> /\ FileOK(file')
      /\ job'.stage = "none" => Settled'
      /\ job'.stage = "none" /\ job'.into = {} => JobData(job', late', hp', buckets')
      /\ SessionOK(my[t], call[t], hp, buckets, it, job.at) /\ job.into = {}
  BY SessionIs
<1>2. job'.stage = "none" /\ job'.into = {} /\ job'.at = p
  <2>1. JobIs(job', job.stage, job.workers, job.hp, job.into, job.moved, p)
    BY <1>1, JobSet DEF JobOK, JobShape, Scans
  <2> QED
    BY <1>1, <2>1, JobFields DEF InSession
<1>3. my' = [my EXCEPT ![t] = my[t]] /\ call' = [call EXCEPT ![t] = call[t]]
  BY <1>1 DEF CInv, Scans, Stay
<1>4. SessionOK(my[t], call[t], hp', buckets', it', job'.at)
  BY <1>1, <1>2 DEF SessionOK, Scans, ForwardFrom, BackwardFrom
<1>5. owner' \in {None, t} /\ locked'
  BY DEF InSession
<1>6. Data'
  BY <1>1, <1>2, <1>3, <1>4, <1>5, DataStep
<1>7. Represents(hp', buckets', old', late', Content) /\ UNCHANGED counter
  BY <1>1, SameTable DEF InSession
<1> QED
  BY <1>1, <1>6, <1>7, WorkStep DEF Scans, Stay

\* Before a place with an element somewhere before it, there is a place, and
\* the element is there or before.
LEMMA BackFacts ==
  ASSUME NEW p \in 0 .. MaxHp, NEW tb, NEW i, i = EndOf(p) \/ Spot(p, i), Earlier(tb, i),
         \A x \in Taken(tb) : Spot(p, x)
  PROVE  BackwardFrom(p, tb, StepBackward(i))
<1> DEFINE n == Size(p)
           m == SlotPerBucket
           j == StepBackward(i)
<1>1. n \in Nat \ {0} /\ m \in Nat \ {0} /\ SlotInds = 0 .. m - 1
  BY Sizes, SizeAssumption DEF SlotInds
<1>2. PICK x \in Taken(tb) : Before(x, i)
  BY DEF Earlier
<1>3. x = <<x[1], x[2]>> /\ x[1] \in 0 .. n - 1 /\ x[2] \in 0 .. m - 1 /\ Occupied(tb, x[1], x[2])
  BY <1>1, <1>2 DEF Spot, Taken
<1>4. \/ i[1] = n /\ i[2] = 0
      \/ i[1] \in 0 .. n - 1 /\ i[2] \in 0 .. m - 1
  BY <1>1 DEF Spot, EndOf
<1>5. x[1] < i[1] \/ (x[1] = i[1] /\ x[2] < i[2])
  BY <1>2 DEF Before
<1>6. j = IF i[2] = 0 THEN <<i[1] - 1, m - 1>> ELSE <<i[1], i[2] - 1>>
  BY DEF StepBackward
<1> DEFINE x1 == x[1]
           x2 == x[2]
           i1 == i[1]
           i2 == i[2]
<1>7. /\ x = <<x1, x2>> /\ x1 \in 0 .. n - 1 /\ x2 \in 0 .. m - 1 /\ Occupied(tb, x1, x2)
      /\ (i1 = n /\ i2 = 0) \/ (i1 \in 0 .. n - 1 /\ i2 \in 0 .. m - 1)
      /\ x1 < i1 \/ (x1 = i1 /\ x2 < i2)
      /\ j = IF i2 = 0 THEN <<i1 - 1, m - 1>> ELSE <<i1, i2 - 1>>
      /\ x[1] = x1 /\ x[2] = x2
  BY <1>3, <1>4, <1>5, <1>6
<1> HIDE DEF n, m, j, x1, x2, i1, i2
<1>8. /\ j[1] \in 0 .. n - 1 /\ j[2] \in 0 .. m - 1 /\ j = <<j[1], j[2]>>
      /\ x1 < j[1] \/ (x1 = j[1] /\ x2 < j[2]) \/ (x1 = j[1] /\ x2 = j[2])
  <2>1. CASE i2 = 0
    <3>1. j[1] = i1 - 1 /\ j[2] = m - 1 /\ j = <<j[1], j[2]>>
      BY <1>7, <2>1
    <3>2. x1 < i1 /\ i1 \in 1 .. n
      BY <1>1, <1>7, <2>1
    <3> QED
      BY <1>1, <1>7, <3>1, <3>2
  <2>2. CASE i2 # 0
    <3>1. j[1] = i1 /\ j[2] = i2 - 1 /\ j = <<j[1], j[2]>>
      BY <1>7, <2>2
    <3>2. i1 \in 0 .. n - 1 /\ i2 \in 1 .. m - 1
      BY <1>1, <1>7, <2>2
    <3> QED
      BY <1>1, <1>7, <3>1, <3>2
  <2> QED
    BY <2>1, <2>2
<1>9. Spot(p, j)
  BY <1>1, <1>8 DEF Spot, n, m
<1>10. Occupied(tb, j[1], j[2]) \/ Before(x, j)
  BY <1>7, <1>8 DEF Before
<1> QED
  BY <1>2, <1>9, <1>10 DEF BackwardFrom, Earlier, j

\* Each step forward from within the table stays in it or is its end.
LEMMA ForwardFacts ==
  ASSUME NEW p \in 0 .. MaxHp
  PROVE  /\ \A i : Spot(p, i) => ForwardFrom(p, <<i[1], i[2] + 1>>)
         /\ \A a : ForwardFrom(p, a) /\ a[1] # Size(p) => ForwardFrom(p, StepForward(a))
         /\ \A a : ForwardFrom(p, a) /\ a[1] = Size(p) => a = EndOf(p)
         /\ \A a : ForwardFrom(p, a) /\ a[1] # Size(p) /\ a[2] < SlotPerBucket => Spot(p, a)
<1> DEFINE n == Size(p)
           m == SlotPerBucket
<1>1. n \in Nat \ {0} /\ m \in Nat \ {0} /\ SlotInds = 0 .. m - 1
  BY Sizes, SizeAssumption DEF SlotInds
<1>2. ASSUME NEW i, Spot(p, i) PROVE ForwardFrom(p, <<i[1], i[2] + 1>>)
  <2>1. i[1] \in 0 .. n - 1 /\ i[2] \in 0 .. m - 1
    BY <1>1, <1>2 DEF Spot
  <2> HIDE DEF n, m
  <2>2. i[2] + 1 \in 0 .. m
    BY <1>1, <2>1
  <2> QED
    BY <2>1, <2>2 DEF ForwardFrom, n, m
<1>3. ASSUME NEW a, ForwardFrom(p, a), a[1] # Size(p) PROVE ForwardFrom(p, StepForward(a))
  <2> DEFINE a1 == a[1]
             a2 == a[2]
  <2>1. a1 \in 0 .. n - 1 /\ a2 \in 0 .. m
    BY <1>3 DEF ForwardFrom, EndOf
  <2>2. StepForward(a) = IF a2 < m THEN <<a1, a2 + 1>> ELSE <<a1 + 1, 0>>
    BY DEF StepForward
  <2>3. ForwardFrom(p, StepForward(a)) <=>
          StepForward(a) = <<n, 0>> \/ StepForward(a) \in (0 .. n - 1) \X (0 .. m)
    BY DEF ForwardFrom, EndOf
  <2> HIDE DEF a1, a2, n, m
  <2>4. CASE a2 < m
    <3>1. a2 + 1 \in 0 .. m
      BY <1>1, <2>1, <2>4
    <3> QED
      BY <2>1, <2>2, <2>3, <2>4, <3>1
  <2>5. CASE ~(a2 < m)
    <3>1. a1 + 1 = n \/ a1 + 1 \in 0 .. n - 1
      BY <1>1, <2>1
    <3>2. 0 \in 0 .. m
      BY <1>1
    <3> QED
      BY <2>2, <2>3, <2>5, <3>1, <3>2
  <2> QED
    BY <2>4, <2>5
<1>4. ASSUME NEW a, ForwardFrom(p, a), a[1] = Size(p) PROVE a = EndOf(p)
  <2>1. a \in (0 .. n - 1) \X (0 .. m) => a[1] \in 0 .. n - 1
    OBVIOUS
  <2> HIDE DEF m
  <2>2. n \notin 0 .. n - 1
    <3> HIDE DEF n
    <3> QED
      BY <1>1
  <2> QED
    BY <1>4, <2>1, <2>2 DEF ForwardFrom, m
<1>5. ASSUME NEW a, ForwardFrom(p, a), a[1] # Size(p), a[2] < SlotPerBucket PROVE Spot(p, a)
  <2>1. a[1] \in 0 .. n - 1 /\ a[2] \in 0 .. m /\ a = <<a[1], a[2]>>
    BY <1>5 DEF ForwardFrom, EndOf
  <2>2. a[2] \in 0 .. m - 1
    <3> DEFINE a2 == a[2]
    <3>1. a2 \in 0 .. m /\ a2 < m
      BY <1>5, <2>1
    <3> HIDE DEF a2, m
    <3>2. a2 \in 0 .. m - 1
      BY <1>1, <3>1
    <3> QED
      BY <3>2 DEF a2
  <2> QED
    BY <1>1, <2>1, <2>2 DEF Spot
<1> QED
  BY <1>2, <1>3, <1>4, <1>5

LEMMA ScanData ==
  ASSUME TableInv, NEW t \in Threads, ScanForward(t) \/ ScanBackward(t)
  PROVE  TInv' /\ Data'
<1> DEFINE a == job.at
<1>1. InSession(t) /\ CInv
  BY IterationLooks DEF InSession, TableInv
<1>2. /\ CInv /\ TInv /\ SessionOK(my[t], call[t], hp, buckets, it, a) /\ hp \in 0 .. MaxHp
      /\ \A x \in Taken(buckets) : Spot(hp, x)
  BY <1>1, SessionIs, PlaceFacts DEF TInv
<1>3. CASE ScanForward(t)
  <2>1. my[t].pc = "forward" /\ ForwardFrom(hp, a)
    BY <1>2, <1>3 DEF ScanForward, At, SessionOK, ForwardFrom
  <2>2. CASE a[1] = Size(hp) \/ (a[2] < SlotPerBucket /\ Holds(a))
    <3>1. Arrive(t, a)
      BY <1>3, <2>2 DEF ScanForward
    <3>2. a = EndOf(hp) \/ (Spot(hp, a) /\ Occupied(buckets, a[1], a[2]))
      BY <1>2, <2>1, <2>2, ForwardFacts DEF Holds
    <3> QED
      BY <1>1, <3>1, <3>2, ArriveData
  <2>3. CASE ~(a[1] = Size(hp) \/ (a[2] < SlotPerBucket /\ Holds(a)))
    <3>1. Scans(t, StepForward(a))
      BY <1>3, <2>1, <2>3 DEF ScanForward, Scans
    <3>2. ForwardFrom(hp, StepForward(a))
      BY <1>2, <2>1, <2>3, ForwardFacts
    <3> QED
      BY <1>1, <2>1, <3>1, <3>2, ScansData
  <2> QED
    BY <2>2, <2>3
<1>4. CASE ScanBackward(t)
  <2>1. my[t].pc = "backward" /\ BackwardFrom(hp, buckets, a)
    BY <1>2, <1>4 DEF ScanBackward, At, SessionOK, BackwardFrom
  <2>2. CASE Holds(a)
    BY <1>1, <1>4, <2>1, <2>2, ArriveData DEF ScanBackward, BackwardFrom, Holds
  <2>3. CASE ~Holds(a)
    <3>1. Scans(t, StepBackward(a))
      BY <1>4, <2>1, <2>3 DEF ScanBackward, Scans
    <3>2. BackwardFrom(hp, buckets, StepBackward(a))
      BY <1>2, <2>1, <2>3, BackFacts DEF BackwardFrom, Holds
    <3> QED
      BY <1>1, <2>1, <3>1, <3>2, ScansData
  <2> QED
    BY <2>2, <2>3
<1> QED
  BY <1>3, <1>4

LEMMA IterateData ==
  ASSUME TableInv, NEW t \in Threads, Iterate(t)
  PROVE  TInv' /\ Data'
<1>1. InSession(t) /\ CInv
  BY IterationLooks DEF InSession, TableInv
<1>2. /\ CInv /\ TInv /\ SessionOK(my[t], call[t], hp, buckets, it, job.at) /\ hp \in 0 .. MaxHp
      /\ \A x \in Taken(buckets) : Spot(hp, x)
      /\ Spot(hp, <<0, 0>>)
  BY <1>1, SessionIs, PlaceFacts DEF TInv
<1>3. my[t].pc = "start" /\ call[t].op \in {"begin", "end", "next", "settle", "prev"}
  BY DEF Iterate, At, Op
<1>4. ASSUME NEW p, Spot(hp, p), Advance(t, p) PROVE TInv' /\ Data'
  <2>1. Loops(t, "forward", <<p[1], p[2] + 1>>)
    BY <1>4 DEF Advance, Loops
  <2>2. ForwardFrom(hp, <<p[1], p[2] + 1>>)
    BY <1>2, <1>4, ForwardFacts
  <2> QED
    BY <1>1, <2>1, <2>2, LoopsData
<1>5. ASSUME NEW p, Spot(hp, p), Construct(t, p) PROVE TInv' /\ Data'
  <2>1. CASE p = EndPos \/ Holds(p)
    <3>1. Arrive(t, p)
      BY <1>5, <2>1 DEF Construct
    <3>2. p = EndOf(hp) \/ (Spot(hp, p) /\ Occupied(buckets, p[1], p[2]))
      BY <1>5, <2>1 DEF EndPos, EndOf, Holds
    <3> QED
      BY <1>1, <3>1, <3>2, ArriveData
  <2>2. CASE ~(p = EndPos \/ Holds(p))
    BY <1>4, <1>5, <2>2 DEF Construct
  <2> QED
    BY <2>1, <2>2
<1>6. CASE Op(t) = "begin"
  BY <1>2, <1>5, <1>6 DEF Iterate
<1>7. CASE Op(t) = "settle"
  <2>1. Spot(hp, it)
    BY <1>2, <1>3, <1>7 DEF SessionOK, Op
  <2> QED
    BY <1>5, <1>7, <2>1 DEF Iterate
<1>8. CASE Op(t) = "end"
  BY <1>1, <1>8, ArriveData DEF Iterate, EndPos, EndOf
<1>9. CASE Op(t) = "next"
  <2>1. Spot(hp, it)
    BY <1>2, <1>3, <1>9 DEF SessionOK, Op
  <2> QED
    BY <1>4, <1>9, <2>1 DEF Iterate
<1>10. CASE Op(t) = "prev"
  <2>1. it = EndOf(hp) \/ Spot(hp, it)
    BY <1>2, <1>3, <1>10 DEF SessionOK, Op
  <2>2. Earlier(buckets, it)
    BY <1>2, <1>3, <1>10 DEF SessionOK, Op
  <2>3. BackwardFrom(hp, buckets, StepBackward(it))
    BY <1>2, <2>1, <2>2, BackFacts
  <2>4. Loops(t, "backward", StepBackward(it))
    BY <1>10 DEF Iterate, Loops
  <2> QED
    BY <1>1, <2>3, <2>4, LoopsData
<1> QED
  BY <1>3, <1>6, <1>7, <1>8, <1>9, <1>10 DEF Op

-----------------------------------------------------------------------------
(* The other calls to a locked_table.                                       *)

LEMMA InStart ==
  ASSUME TableInv, NEW t \in Threads, Session(t), my[t].pc = "start"
  PROVE  /\ CInv /\ TInv /\ Data /\ owner = t /\ locked /\ job.stage = "none" /\ job.into = {}
         /\ job.at = None /\ late = {} /\ old = Empty /\ hp \in 0 .. MaxHp
         /\ SessionOK(my[t], call[t], hp, buckets, it, job.at)
         /\ call[t].op = "load" => file # None
<1>1. /\ CInv /\ TInv /\ Data /\ owner = t /\ locked
  BY DEF TableInv, Session
<1>2. /\ job.stage = "none" /\ hp \in 0 .. MaxHp
      /\ call[t].op = "load" => file # None
  BY <1>1 DEF CInv, Inside, InsideOK
<1>3. /\ job.into = {} /\ late = {} /\ SessionOK(my[t], call[t], hp, buckets, it, job.at)
  BY <1>1, <1>2 DEF Data, JobData, Settled, Session
<1>4. job.at = None
  BY <1>3 DEF SessionOK
<1>5. old = Empty
  BY <1>1, <1>3, NothingOld DEF TInv
<1> QED
  BY <1>1, <1>2, <1>3, <1>4, <1>5

LEMMA SessionReturn ==
  ASSUME TableInv, NEW t \in Threads, Session(t), my[t].pc = "start", NEW r, Return(t, r),
         UNCHANGED <<owner, locked, job>>, late' = {}, FileOK(file'),
         \/ it' \in {None, EndOf(hp')}
         \/ Spot(hp', it') /\ Occupied(buckets', it'[1], it'[2])
  PROVE  Data'
<1>1. CInv /\ owner = t /\ locked /\ job.stage = "none" /\ job.into = {} /\ job.at = None
  BY InStart
<1>2. JobData(job', late', hp', buckets') /\ Settled'
  BY <1>1 DEF JobData, Settled
<1>3. my' = [my EXCEPT ![t] = Idle] /\ call' = [call EXCEPT ![t] = None]
  BY DEF Return, Go
<1>4. SessionOK(Idle, None, hp', buckets', it', job'.at)
  BY <1>1, IdleIs DEF SessionOK
<1> QED
  BY <1>1, <1>2, <1>3, <1>4, DataStep

LEMMA UnlockData ==
  ASSUME TableInv, NEW t \in Threads, Unlock(t)
  PROVE  TInv' /\ Data'
<1>1. /\ Session(t) /\ my[t].pc = "start" /\ owner' = None /\ ~locked' /\ it' = None
      /\ Return(t, "yes") /\ UNCHANGED table /\ UNCHANGED <<job, file>>
  BY DEF Unlock, At
<1>2. /\ CInv /\ TInv /\ Data /\ job.stage = "none" /\ job.into = {} /\ job.at = None
  BY <1>1, InStart
<1>3. JobData(job', late', hp', buckets') /\ Settled' /\ FileOK(file')
  BY <1>1, <1>2 DEF JobData, Settled, Data
<1>4. \A u \in Threads : ~Session(u)'
  BY <1>1 DEF Session
<1>5. Data'
  BY <1>1, <1>2, <1>3, <1>4 DEF Data
<1> QED
  BY <1>1, <1>2, <1>5, ReturnSame

\* An iterator at an element is at one of the places of its key.
LEMMA AtElement ==
  ASSUME TInv, NEW i, Spot(hp, i), Occupied(buckets, i[1], i[2])
  PROVE  LET k == buckets[i[1]][i[2]].key
         IN  k \in Keys /\ i \in Positions(buckets, k)
<1> DEFINE b == i[1]
           s == i[2]
           k == buckets[b][s].key
<1>1. Good(hp, buckets, old, late) /\ buckets \in Table /\ Placed(hp, buckets)
  BY DEF TInv, Good
<1>2. i = <<b, s>> /\ b \in BucketInds /\ s \in SlotInds /\ Occupied(buckets, b, s)
  BY <1>1, PlaceFacts
<1>3. k \in Keys
  BY <1>1, <1>2, EntryFacts
<1>4. b \in Own(k)
  BY <1>1, <1>2 DEF Placed, Own
<1>5. i \in Own(k) \X SlotInds /\ Occupied(buckets, i[1], i[2]) /\ buckets[i[1]][i[2]].key = k
  BY <1>2, <1>4
<1> QED
  BY <1>3, <1>5 DEF Positions

LEMMA EraseAtData ==
  ASSUME TableInv, NEW t \in Threads, EraseAt(t)
  PROVE  TInv' /\ Data' /\ Content' = [Content EXCEPT ![buckets[it[1]][it[2]].key] = None]
<1> DEFINE b == it[1]
           s == it[2]
           k == buckets[b][s].key
           c == [Content EXCEPT ![k] = None]
           nothing == {}
<1>1. /\ Session(t) /\ my[t].pc = "start" /\ call[t].op = "erase_at"
      /\ Under(nothing, Put(buckets, b, s, None)) /\ Count(b, -1)
      /\ call' = [call EXCEPT ![t] = Settle] /\ UNCHANGED <<ret, my, left, inside>>
  BY DEF EraseAt, At, Op, Delete, Settle
<1>2. /\ CInv /\ TInv /\ Data /\ owner = t /\ locked /\ job.stage = "none" /\ job.into = {}
      /\ job.at = None /\ late = {} /\ SessionOK(my[t], call[t], hp, buckets, it, job.at)
  BY <1>1, InStart
<1>3. it # None /\ it # EndOf(hp) /\ Spot(hp, it) /\ Occupied(buckets, b, s)
  BY <1>1, <1>2 DEF SessionOK
<1>4. k \in Keys /\ it \in Positions(buckets, k)
  BY <1>2, <1>3, AtElement
<1>5. b \in BucketInds /\ s \in SlotInds
  BY <1>2, <1>3, PlaceFacts DEF TInv
<1>6. Represents(hp, buckets, old, late, Content)
  BY <1>2, TableNow
<1>7. LocksOf(Own(k)) \cap late = {}
  BY <1>2
<1> HIDE DEF k
<1>8. Represents(hp, Put(buckets, b, s, None), old, late, c)
  BY <1>4, <1>6, <1>7, RemoveFits
<1>9. Content[k] # None
  <2> DEFINE store == Content
             lt == late
  <2>1. Represents(hp, buckets, old, lt, store) /\ LocksOf(Own(k)) \cap lt = {}
    BY <1>6, <1>7
  <2> HIDE DEF store, lt
  <2>2. k \in Keys
    BY <1>4
  <2>3. \A x \in Positions(buckets, k) :
          buckets[x[1]][x[2]] = [key |-> k, val |-> store[k]] /\ store[k] # None
    BY <2>1, <2>2, LookUp
  <2> QED
    BY <1>4, <2>3 DEF store
<1>10. Counts(counter', c)
  BY <1>1, <1>2, <1>4, <1>5, <1>9, CountAfter
<1>11. OldAfter(nothing) = old /\ late \ nothing = late
  BY DEF OldAfter
<1> HIDE DEF nothing, b, s, c
<1>12. Represents(hp', buckets', old', late', c)
  BY <1>1, <1>2, <1>8, <1>11, Unlocked
<1>13. CallOK(Settle) /\ Settle # None /\ Settle.op = "settle"
  BY LockedCallFacts DEF AllCalls, Settle
<1>14. LocalOK(my[t], Settle)
  <2>1. LocalOK(my[t], call[t])
    BY <1>2 DEF TInv
  <2> QED
    BY <1>1, <1>13, <2>1 DEF LocalOK
<1>15. my' = [my EXCEPT ![t] = my[t]]
  BY <1>1, <1>2 DEF CInv
<1>16. TInv' /\ Content' = c
  BY <1>1, <1>2, <1>10, <1>12, <1>13, <1>14, <1>15, OtherCall
<1>17. /\ hp' = hp /\ late' = {} /\ UNCHANGED <<owner, locked, job, it, file>>
  BY <1>1, <1>2 DEF Under, inside
<1>18. JobData(job', late', hp', buckets') /\ Settled' /\ FileOK(file')
  BY <1>2, <1>17 DEF JobData, Settled, Data
<1>19. SessionOK(my[t], Settle, hp', buckets', it', job'.at)
  BY <1>1, <1>2, <1>3, <1>13, <1>17 DEF SessionOK
<1>20. Data'
  BY <1>1, <1>2, <1>15, <1>17, <1>18, <1>19, DataStep
<1> QED
  BY <1>16, <1>20 DEF b, s, k, c

LEMMA FindItData ==
  ASSUME TableInv, NEW t \in Threads, FindIt(t)
  PROVE  TInv' /\ Data'
<1>1. /\ Session(t) /\ my[t].pc = "start" /\ UNCHANGED table /\ UNCHANGED <<owner, locked, job, file>>
      /\ \E r : Return(t, r)
      /\ it' = EndPos \/ it' \in Positions(buckets, Key(t))
      /\ call[t].op = "find"
  BY DEF FindIt, At, Op
<1>2. TInv /\ Data /\ late = {}
  BY <1>1, InStart
<1> DEFINE k == Key(t)
<1>6. k \in Keys /\ Own(k) \subseteq BucketInds
  BY <1>1, <1>2, InCall, LocksOfFacts DEF At, Op
<1>7. it' = EndPos \/ it' \in Positions(buckets, k)
  BY <1>1
<1> HIDE DEF k
<1>3. UNCHANGED <<hp, buckets, late>> /\ FileOK(file')
  BY <1>1, <1>2 DEF table, Data
<1>4. it' = EndOf(hp') \/ (Spot(hp', it') /\ Occupied(buckets', it'[1], it'[2]))
  <2>1. CASE it' = EndPos
    BY <1>3, <2>1 DEF EndPos, EndOf
  <2>2. ASSUME it' \in Positions(buckets, k)
        PROVE  Spot(hp', it') /\ Occupied(buckets', it'[1], it'[2])
    <3> DEFINE x == it'
    <3>1. x \in Positions(buckets, k)
      BY <2>2
    <3> HIDE DEF x
    <3>2. x = <<x[1], x[2]>> /\ x[1] \in Own(k) /\ x[2] \in SlotInds /\ Occupied(buckets, x[1], x[2])
      BY <3>1, PositionFacts
    <3>6. x \in Taken(buckets)
      BY <1>6, <3>2 DEF Taken
    <3>7. Spot(hp, x)
      BY <1>2, <3>6, PlaceFacts DEF TInv
    <3> QED
      BY <1>3, <3>2, <3>7 DEF x
  <2> QED
    BY <1>7, <2>1, <2>2
<1>5. Data'
  BY <1>1, <1>2, <1>3, <1>4, SessionReturn
<1> QED
  BY <1>1, <1>2, <1>5, ReturnSame

LEMMA ClearAllData ==
  ASSUME TableInv, NEW t \in Threads, ClearAll(t)
  PROVE  TInv' /\ Data'
<1>1. /\ Session(t) /\ my[t].pc = "start" /\ Step(t) /\ it' = None /\ late' = {} /\ Return(t, "yes")
      /\ UNCHANGED <<owner, locked, job, file>>
  BY DEF ClearAll, Clear, At, Step
<1>2. TInv /\ Data
  BY <1>1, InStart
<1>3. Data'
  BY <1>1, <1>2, SessionReturn DEF Data
<1> QED
  BY <1>1, <1>2, <1>3, NextStep

LEMMA EraseKeyData ==
  ASSUME TableInv, NEW t \in Threads, EraseKey(t)
  PROVE  TInv' /\ Data'
<1> DEFINE k == Key(t)
           ls == LocksOf(Own(k))
<1>1. /\ Session(t) /\ my[t].pc = "start" /\ call[t].op = "erase" /\ Step(t)
      /\ it' = IF it \in Positions(buckets, k) THEN None ELSE it
      /\ UNCHANGED <<owner, locked, job, file>>
  BY DEF EraseKey, Erase, At, Op, Step
<1>2. /\ CInv /\ TInv /\ Data /\ late = {} /\ hp \in 0 .. MaxHp
      /\ SessionOK(my[t], call[t], hp, buckets, it, job.at)
  BY <1>1, InStart
<1>9. Own(k) \subseteq BucketInds
  BY <1>1, <1>2, InCall, LocksOfFacts DEF At, Op
<1>3. ls \cap late = {} /\ AfterMove(ls) = buckets
  BY <1>2 DEF AfterMove
<1>4. /\ \E r : Return(t, r)
      /\ \/ Under(ls, buckets)
         \/ \E x \in Positions(buckets, k) : Under(ls, Put(buckets, x[1], x[2], None))
  <2>1. \/ Under(ls, AfterMove(ls)) /\ Return(t, "no")
        \/ \E x \in Positions(AfterMove(ls), k) :
             Under(ls, Put(AfterMove(ls), x[1], x[2], None)) /\ Return(t, "yes")
    BY DEF EraseKey, Erase, Delete
  <2> QED
    BY <1>3, <2>1
<1>5. hp' = hp /\ late' = {}
  BY <1>2, <1>4 DEF Under
<1>6. it' \in {None, EndOf(hp')} \/ (Spot(hp', it') /\ Occupied(buckets', it'[1], it'[2]))
  <2> SUFFICES ASSUME it \notin Positions(buckets, k), it # None, it # EndOf(hp)
               PROVE  Spot(hp, it) /\ Occupied(buckets', it[1], it[2])
    BY <1>1, <1>5
  <2> DEFINE b == it[1]
             s == it[2]
  <2>1. Spot(hp, it) /\ Occupied(buckets, b, s)
    BY <1>1, <1>2 DEF SessionOK
  <2>2. it = <<b, s>> /\ b \in BucketInds /\ s \in SlotInds
    BY <1>2, <2>1, PlaceFacts DEF TInv
  <2> HIDE DEF b, s
  <2>3. CASE Under(ls, buckets)
    BY <2>1, <2>3 DEF Under, b, s
  <2>4. ASSUME NEW x \in Positions(buckets, k), Under(ls, Put(buckets, x[1], x[2], None))
        PROVE  Occupied(buckets', b, s)
    <3> DEFINE c == x[1]
               r == x[2]
    <3>1. x = <<c, r>> /\ c \in Own(k) /\ r \in SlotInds
      BY PositionFacts
    <3>2. c \in BucketInds /\ buckets \in Table
      BY <1>2, <1>9, <3>1 DEF TInv, Good
    <3>3. buckets' = Put(buckets, c, r, None)
      BY <2>4 DEF Under
    <3>4. it # x
      OBVIOUS
    <3> HIDE DEF c, r
    <3>5. ~(b = c /\ s = r)
      BY <2>2, <3>1, <3>4
    <3>6. buckets'[b][s] = buckets[b][s]
      BY <2>2, <3>1, <3>2, <3>3, <3>5, PutFacts
    <3> QED
      BY <2>1, <3>6 DEF Occupied
  <2> QED
    BY <1>4, <2>1, <2>3, <2>4 DEF b, s
<1>7. FileOK(file')
  BY <1>1, <1>2 DEF Data
<1>8. Data'
  BY <1>1, <1>4, <1>5, <1>6, <1>7, SessionReturn
<1> QED
  BY <1>1, <1>2, <1>8, NextStep

LEMMA NoOldElements ==
  ASSUME TInv, old = Empty
  PROVE  Elements = Cardinality(Taken(buckets))
<1>1. Elements = Cardinality(Taken(buckets)) + Cardinality(Taken(Empty))
  BY SizeNow DEF SizeIsExact
<1>2. Taken(Empty) = {}
  BY EmptyFacts DEF Taken, Occupied
<1>3. IsFiniteSet(Taken(buckets))
  BY TakenKeys DEF TInv, Good
<1> QED
  BY <1>1, <1>2, <1>3, FS_EmptySet, FS_CardinalityType

LEMMA SaveData ==
  ASSUME TableInv, NEW t \in Threads, Save(t)
  PROVE  TInv' /\ Data'
<1>1. /\ Session(t) /\ my[t].pc = "start" /\ call[t].op = "save" /\ UNCHANGED table
      /\ file' = [hp |-> hp, buckets |-> buckets, size |-> Elements] /\ Return(t, "yes")
      /\ UNCHANGED <<owner, locked, job, it>>
  BY DEF Save, At, Op
<1>2. /\ TInv /\ late = {} /\ old = Empty /\ SessionOK(my[t], call[t], hp, buckets, it, job.at)
  BY <1>1, InStart
<1>3. file'.hp = hp /\ file'.buckets = buckets /\ file'.size = Elements
  BY <1>1
<1>4. Elements = Cardinality(Taken(buckets))
  BY <1>2, NoOldElements
<1>5. FileOK(file')
  BY <1>2, <1>3, <1>4 DEF FileOK, TInv
<1>6. UNCHANGED <<hp, buckets, late>>
  BY <1>1 DEF table
<1>7. it' \in {None, EndOf(hp')} \/ (Spot(hp', it') /\ Occupied(buckets', it'[1], it'[2]))
  BY <1>1, <1>2, <1>6 DEF SessionOK
<1>8. Data'
  BY <1>1, <1>2, <1>5, <1>6, <1>7, SessionReturn
<1> QED
  BY <1>1, <1>2, <1>8, ReturnSame

\* One counter counts everything.
LEMMA OneCounter ==
  ASSUME NEW n \in Int, NEW c, c = [l \in Locks |-> IF l = 0 THEN n ELSE 0]
  PROVE  c \in [Locks -> Int] /\ Sum(c, Locks) = n
<1> DEFINE z == [l \in Locks |-> 0]
<1>1. IsFiniteSet(Locks) /\ 0 \in Locks
  BY SizeAssumption, FS_Interval DEF Locks
<1>2. Sum(z, Locks) = 0
  <2>1. \A l \in Locks : z[l] = 0
    OBVIOUS
  <2> HIDE DEF z
  <2> QED
    BY <1>1, <2>1, SumOfZeros
<1>3. (\A l \in Locks : z[l] \in Int) /\ \A l \in Locks : c[l] = IF l = 0 THEN z[l] + n ELSE z[l]
  OBVIOUS
<1> HIDE DEF z
<1>4. Sum(c, Locks) = Sum(z, Locks) + n
  BY <1>1, <1>3, SumAdd
<1> QED
  BY <1>2, <1>4

LEMMA LoadData ==
  ASSUME TableInv, NEW t \in Threads, Load(t)
  PROVE  TInv' /\ Data'
<1> DEFINE p == file.hp
           tb == file.buckets
           store == JointContent(tb, Empty)
<1>1. /\ Session(t) /\ my[t].pc = "start" /\ call[t].op = "load"
      /\ hp' = p /\ buckets' = tb
      /\ counter' = [l \in Locks |-> IF l = 0 THEN file.size ELSE 0]
      /\ it' = None /\ file' = None /\ Return(t, "yes")
      /\ UNCHANGED <<old, late, owner, locked, job>>
  BY DEF Load, At, Op
<1>2. TInv /\ Data /\ late = {} /\ old = Empty /\ file # None
  BY <1>1, InStart
<1>3. Good(p, tb, Empty, {}) /\ file.size = Cardinality(Taken(tb))
  BY <1>2 DEF Data, FileOK
<1> HIDE DEF p, tb
<1>4. Represents(p, tb, Empty, {}, store)
  BY <1>3, ContentShows DEF Represents
<1>5. Cardinality(Taken(tb)) \in Nat /\ Cardinality(HeldKeys(store)) = Cardinality(Taken(tb))
  <2>1. Cardinality(HeldKeys(store)) = Cardinality(Taken(tb)) + Cardinality(Taken(Empty))
    <3> HIDE DEF store
    <3> QED
      BY <1>4, Held
  <2>2. Taken(Empty) = {}
    BY EmptyFacts DEF Taken, Occupied
  <2>3. IsFiniteSet(Taken(tb))
    BY <1>3, TakenKeys DEF Good
  <2> QED
    BY <2>1, <2>2, <2>3, FS_EmptySet, FS_CardinalityType
<1> HIDE DEF store
<1> DEFINE n == Cardinality(Taken(tb))
           c == counter'
<1>6. n \in Int /\ c = [l \in Locks |-> IF l = 0 THEN n ELSE 0]
  BY <1>1, <1>3, <1>5
<1> HIDE DEF n, c
<1>7. c \in [Locks -> Int] /\ Sum(c, Locks) = n
  BY <1>6, OneCounter
<1>8. Counts(counter', store)
  BY <1>5, <1>7 DEF Counts, n, c
<1>9. Represents(hp', buckets', old', late', store)
  BY <1>1, <1>2, <1>4
<1>10. TInv'
  BY <1>1, <1>2, <1>8, <1>9, ReturnStep
<1>11. FileOK(file') /\ late' = {}
  BY <1>1, <1>2 DEF FileOK
<1>12. Data'
  BY <1>1, <1>11, SessionReturn
<1> QED
  BY <1>10, <1>12

-----------------------------------------------------------------------------
(* The table is constructed from a range of elements.                       *)

\* What is counted lock by lock is counted.
LEMMA CountedByLocks ==
  ASSUME NEW X, X \subseteq BucketInds \X SlotInds, IsFiniteSet(X), NEW c,
         c = [l \in Locks |-> Cardinality({x \in X : LockInd(x[1]) = l})]
  PROVE  c \in [Locks -> Int] /\ Sum(c, Locks) = Cardinality(X)
<1> DEFINE At1(Y, l) == {x \in Y : LockInd(x[1]) = l}
           CountOf(Y) == [l \in Locks |-> Cardinality(At1(Y, l))]
           G == {Y \in SUBSET X : Sum(CountOf(Y), Locks) = Cardinality(Y)}
<1>1. IsFiniteSet(Locks)
  BY SizeAssumption, FS_Interval DEF Locks
<1>2. \A Y \in SUBSET X : \A l \in Locks :
        IsFiniteSet(At1(Y, l)) /\ Cardinality(At1(Y, l)) \in Nat /\ IsFiniteSet(Y)
  <2> TAKE Y \in SUBSET X
  <2> TAKE l \in Locks
  <2>1. IsFiniteSet(Y) /\ At1(Y, l) \subseteq Y
    BY FS_Subset
  <2> HIDE DEF At1
  <2> QED
    BY <2>1, FS_Subset, FS_CardinalityType
<1>8. \A Y \in SUBSET X : CountOf(Y) \in [Locks -> Int] /\ \A j \in Locks : CountOf(Y)[j] \in Int
  <2> TAKE Y \in SUBSET X
  <2>1. \A l \in Locks : Cardinality(At1(Y, l)) \in Int
    BY <1>2
  <2> HIDE DEF At1
  <2> QED
    BY <2>1
<1>3. {} \in G
  <2> DEFINE z == CountOf({})
  <2>1. \A l \in Locks : z[l] = 0
    BY FS_EmptySet
  <2> HIDE DEF z
  <2>2. Sum(z, Locks) = 0
    BY <1>1, <2>1, SumOfZeros
  <2> QED
    BY <2>2, FS_EmptySet DEF z
<1>4. ASSUME NEW Y \in SUBSET X, Y # {}, Y \ {Some(Y)} \in G
      PROVE  Y \in G
  <2> DEFINE x == Some(Y)
             Z == Y \ {x}
             l == LockInd(x[1])
             d == CountOf(Z)
             e == CountOf(Y)
  <2>1. x \in Y /\ Z \in SUBSET X /\ x \notin Z /\ Y = Z \cup {x}
    BY <1>4 DEF Some
  <2>2. x[1] \in BucketInds /\ l \in Locks
    <3>1. x[1] \in BucketInds
      BY <2>1
    <3> HIDE DEF x
    <3> QED
      BY <3>1, LocksOfFacts
  <2>3. Sum(d, Locks) = Cardinality(Z)
    BY <1>4
  <2> HIDE DEF x, Z
  <2>4. ASSUME NEW j \in Locks
        PROVE  e[j] = IF j = l THEN d[j] + 1 ELSE d[j]
    <3>1. e[j] = Cardinality(At1(Y, j)) /\ d[j] = Cardinality(At1(Z, j))
      OBVIOUS
    <3>2. IsFiniteSet(At1(Z, j)) /\ Cardinality(At1(Z, j)) \in Nat
      BY <1>2, <2>1
    <3>3. CASE j = l
      <4>1. At1(Y, j) = At1(Z, j) \cup {x} /\ x \notin At1(Z, j)
        BY <2>1, <3>3
      <4> HIDE DEF At1
      <4> QED
        BY <3>1, <3>2, <3>3, <4>1, FS_AddElement
    <3>4. CASE j # l
      <4>1. At1(Y, j) = At1(Z, j)
        BY <2>1, <3>4
      <4> QED
        BY <3>1, <3>4, <4>1
    <3> QED
      BY <3>3, <3>4
  <2>5. \A j \in Locks : d[j] \in Int
    <3> HIDE DEF CountOf
    <3> QED
      BY <1>8, <2>1
  <2>6. e = CountOf(Y)
    OBVIOUS
  <2> HIDE DEF d, e, l, CountOf
  <2>7. Sum(e, Locks) = Sum(d, Locks) + 1
    BY <1>1, <2>2, <2>4, <2>5, SumAdd
  <2>8. Cardinality(Y) = Cardinality(Z) + 1
    <3>1. IsFiniteSet(Z)
      BY <2>1, FS_Subset
    <3> QED
      BY <2>1, <3>1, FS_AddElement
  <2> QED
    BY <2>3, <2>6, <2>7, <2>8
<1>5. X \in G
  <2> HIDE DEF G
  <2>1. SUBSET X \subseteq G
    BY <1>3, <1>4, SubsetInduction
  <2> QED
    BY <2>1
<1>6. c = CountOf(X)
  OBVIOUS
<1>7. c \in [Locks -> Int]
  <2> HIDE DEF CountOf
  <2> QED
    BY <1>6, <1>8
<1> QED
  BY <1>5, <1>6, <1>7

LEMMA LockedInitData == LockedInit => TInv /\ Data
<1> SUFFICES ASSUME LockedInit PROVE TInv /\ Data
  OBVIOUS
<1>1. /\ hp = FirstHp /\ old = Empty /\ late = {} /\ left = MaxCalls
      /\ counter = [l \in Locks |-> Cardinality({x \in Taken(buckets) : LockInd(x[1]) = l})]
      /\ call = [t \in Threads |-> None] /\ ret = [t \in Threads |-> None]
      /\ my = [t \in Threads |-> Idle]
      /\ owner = None /\ locked = FALSE /\ job = NoJob /\ it = None /\ file = None
  BY DEF LockedInit
<1>2. PICK f \in Placements(FirstElements, FirstHp) : buckets = FilledAs(f)
  BY DEF LockedInit
<1>3. buckets \in Table /\ Placed(FirstHp, buckets) /\ Once(buckets) /\ FirstHp \in 0 .. MaxHp
  <2> DEFINE F == FilledAs(f)
  <2>1. FirstHp \in 0 .. MaxHp
    BY SizeAssumption
  <2>2. F \in Table /\ Placed(FirstHp, F) /\ Once(F)
    BY <2>1, FirstAssumption, FilledFacts
  <2> QED
    BY <1>2, <2>1, <2>2
<1>4. Good(hp, buckets, old, late)
  BY <1>1, <1>3, NoOldTable
<1>5. Represents(hp, buckets, old, late, Content)
  BY <1>4, ContentShows, ContentIs DEF Represents
<1>6. Counts(counter, Content)
  <2> DEFINE X == Taken(buckets)
  <2>1. IsFiniteSet(X) /\ X \subseteq BucketInds \X SlotInds /\ Cardinality(X) \in Nat
    BY <1>3, TakenKeys, FS_CardinalityType DEF Taken
  <2>2. Cardinality(HeldKeys(Content)) = Cardinality(X) + Cardinality(Taken(old))
    BY <1>5, Held
  <2>3. Taken(old) = {}
    BY <1>1, EmptyFacts DEF Taken, Occupied
  <2>4. counter = [l \in Locks |-> Cardinality({x \in X : LockInd(x[1]) = l})]
    BY <1>1
  <2> HIDE DEF X
  <2>5. counter \in [Locks -> Int] /\ Sum(counter, Locks) = Cardinality(X)
    BY <2>1, <2>4, CountedByLocks
  <2> QED
    BY <2>1, <2>2, <2>3, <2>5, FS_EmptySet DEF Counts
<1>7. TInv
  BY <1>1, <1>4, <1>6, IdleOK, SizeAssumption DEF TInv
<1>8. job.stage = "none" /\ job.into = {} /\ job.at = None
  BY <1>1, NoJobIs, JobFields
<1>9. Data
  BY <1>1, <1>8, OwnerAssumption DEF Data, JobData, Settled, FileOK, Session
<1> QED
  BY <1>7, <1>9

-----------------------------------------------------------------------------
(* The theorems.                                                            *)

LEMMA SameAll ==
  ASSUME TableInv, UNCHANGED <<table, inside>>, UNCHANGED <<call, ret, my, left>>
  PROVE  TInv' /\ Data'
<1>1. /\ CInv /\ TInv /\ Data /\ UNCHANGED <<table, inside>> /\ UNCHANGED <<call, ret, my, left, counter>>
  BY DEF TableInv, table
<1>2. Represents(hp', buckets', old', late', Content)
  BY <1>1, SameTable
<1>3. TInv'
  BY <1>1, <1>2, WorkStep
<1>4. \A u \in Threads : Session(u)' => SessionOK(my'[u], call'[u], hp', buckets', it', job'.at)
  BY <1>1 DEF Data, Session, table, inside
<1>5. Data'
  BY <1>1, <1>4, SameData DEF Data
<1> QED
  BY <1>3, <1>5

LEMMA TableNext ==
  ASSUME ~MoveEmpties, TableInv, [LockedNext]_lockedVars
  PROVE  TableInv'
<1>1. CInv'
  BY Control DEF TableInv
<1>2. ASSUME NEW t \in Threads, PlainCall(t) \/ PlainStep(t) \/ SizeStep(t) \/ SessionCall(t)
      PROVE  TInv' /\ Data'
  BY <1>2, PlainCallData, PlainStepData, SizeStepData, SessionCallData
<1>3. ASSUME NEW t \in Threads, ResizeStep(t)
      PROVE  TInv' /\ Data'
  <2>1. CompareHashpower(t) \/ ExpandSimple(t) => TInv' /\ Data'
    BY CompareData, ExpandData
  <2>2. EndMigration(t) => TInv' /\ Data'
    BY EndMigrationData
  <2>3. SwapBuckets(t) => TInv' /\ Data'
    BY SwapData
  <2>4. RethrowTransfer(t) => TInv' /\ Data'
    BY RethrowData
  <2> QED
    BY <1>3, <2>1, <2>2, <2>3, <2>4 DEF ResizeStep
<1>4. ASSUME NEW t \in Threads, LockedStep(t)
      PROVE  TInv' /\ Data'
  <2>1. LockTable(t) \/ Unlock(t) => TInv' /\ Data'
    BY LockData, UnlockData
  <2>2. Iterate(t) \/ ScanForward(t) \/ ScanBackward(t) => TInv' /\ Data'
    BY IterateData, ScanData
  <2>3. EraseAt(t) \/ FindIt(t) \/ EraseKey(t) \/ ClearAll(t) => TInv' /\ Data'
    BY EraseAtData, FindItData, EraseKeyData, ClearAllData
  <2>4. Save(t) \/ Load(t) => TInv' /\ Data'
    BY SaveData, LoadData
  <2> QED
    BY <1>3, <1>4, <2>1, <2>2, <2>3, <2>4 DEF LockedStep
<1>5. ASSUME NEW w, WorkerStep(w) PROVE TInv' /\ Data'
  BY <1>5, MigrateData, TransferData DEF WorkerStep
<1>6. ASSUME UNCHANGED lockedVars PROVE TInv' /\ Data'
  <2>1. UNCHANGED <<table, inside>> /\ UNCHANGED <<call, ret, my, left>>
    BY <1>6 DEF lockedVars, table, inside
  <2> QED
    BY <2>1, SameAll
<1> QED
  BY <1>1, <1>2, <1>4, <1>5, <1>6 DEF LockedNext, TableInv

\* When moving an element leaves it as it was, all of it is inductive: what the
\* workers have left to do, where a session may look, and the table.
THEOREM TableInvariant == ASSUME ~MoveEmpties PROVE LockedSpec => []TableInv
<1>1. LockedInit => TableInv
  BY ControlInit, LockedInitData DEF TableInv
<1>2. TableInv /\ [LockedNext]_lockedVars => TableInv'
  BY TableNext
<1> QED
  BY <1>1, <1>2, PTL DEF LockedSpec

\* Every variable keeps its type: in particular the loops of the iterators look
\* at no slot outside the table, and stop at its end.
THEOREM LockedTypes == ASSUME ~MoveEmpties PROVE LockedSpec => []LockedTypeOK
<1>1. TableInv => LockedTypeOK
  <2> SUFFICES ASSUME TableInv PROVE LockedTypeOK
    OBVIOUS
  <2>1. /\ CInv /\ TInv /\ Data /\ Ownership /\ JobOK
    BY DEF TableInv, CInv
  <2>2. hp \in 0 .. MaxHp /\ buckets \in Table /\ old \in Table
    BY <2>1 DEF TInv, Good
  <2>3. Good(hp, buckets, old, late)
    BY <2>1 DEF TInv
  <2>4. Size(hp) \in Nat \ {0} /\ 0 .. Size(hp) - 1 \subseteq BucketInds
    BY <2>2, Sizes, BucketIndFacts
  <2>5. \A e \in job.into : e \in Entries
    <3> SUFFICES ASSUME NEW e \in job.into PROVE e \in Entries
      OBVIOUS
    <3>1. job.stage = "transfer"
      BY <2>1 DEF Data, JobData
    <3>2. PICK b \in BucketInds, s \in SlotInds : Occupied(buckets, b, s) /\ buckets[b][s] = e
      BY <2>1, <3>1 DEF Data, JobData
    <3> QED
      BY <2>2, <3>2, EntryFacts
  <2>6. locked => owner \in Threads /\ SessionOK(my[owner], call[owner], hp, buckets, it, job.at)
    BY <2>1 DEF Ownership, Data, Session
  <2>7. ASSUME job.at # None
        PROVE  /\ job.at[1] \in 0 .. Size(hp) /\ job.at[2] \in 0 .. SlotPerBucket
               /\ At(owner, "backward") => job.at \in BucketInds \X SlotInds
    <3> DEFINE a == job.at
    <3>1. locked /\ SessionOK(my[owner], call[owner], hp, buckets, it, a)
          /\ my[owner].pc \in {"forward", "backward"}
      BY <2>1, <2>6, <2>7 DEF Data, SessionOK
    <3>2. CASE my[owner].pc = "forward"
      <4>1. a = EndOf(hp) \/ a \in (0 .. Size(hp) - 1) \X (0 .. SlotPerBucket)
        BY <3>1, <3>2 DEF SessionOK
      <4>2. CASE a = EndOf(hp)
        <5>1. a[1] = Size(hp) /\ a[2] = 0
          BY <4>2 DEF EndOf
        <5>2. Size(hp) \in 0 .. Size(hp) /\ 0 \in 0 .. SlotPerBucket
          BY <2>4, SizeAssumption
        <5> QED
          BY <3>2, <5>1, <5>2 DEF At
      <4>3. CASE a \in (0 .. Size(hp) - 1) \X (0 .. SlotPerBucket)
        <5>1. a[1] \in 0 .. Size(hp) - 1 /\ a[2] \in 0 .. SlotPerBucket
          BY <4>3
        <5>2. 0 .. Size(hp) - 1 \subseteq 0 .. Size(hp)
          BY <2>4
        <5> QED
          BY <3>2, <5>1, <5>2 DEF At
      <4> QED
        BY <4>1, <4>2, <4>3
    <3>3. CASE my[owner].pc = "backward"
      <4>1. Spot(hp, a)
        BY <3>1, <3>3 DEF SessionOK
      <4>2. a = <<a[1], a[2]>> /\ a[1] \in 0 .. Size(hp) - 1 /\ a[2] \in SlotInds
        BY <4>1 DEF Spot
      <4>3. 0 .. Size(hp) - 1 \subseteq 0 .. Size(hp) /\ SlotInds \subseteq 0 .. SlotPerBucket
        BY <2>4, SizeAssumption DEF SlotInds
      <4>4. a \in BucketInds \X SlotInds
        BY <2>4, <4>2
      <4> QED
        BY <4>2, <4>3, <4>4
    <3> QED
      BY <3>1, <3>2, <3>3
  <2>8. ASSUME it # None PROVE it = EndPos \/ it \in BucketInds \X SlotInds
    <3>1. locked
      BY <2>1, <2>8 DEF Ownership
    <3>2. it = EndOf(hp) \/ Spot(hp, it)
      BY <2>6, <2>8, <3>1 DEF SessionOK
    <3>3. Spot(hp, it) => it \in BucketInds \X SlotInds
      BY <2>4 DEF Spot
    <3> QED
      BY <3>2, <3>3 DEF EndOf, EndPos
  <2> QED
    BY <2>1, <2>2, <2>5, <2>7, <2>8 DEF LockedTypeOK, Ownership, JobOK
<1> QED
  BY <1>1, TableInvariant, PTL

\* No key is stored twice, also with resizes by rehash and reserve, locked
\* tables and streams.
THEOREM NoKeyTwiceLocked == ASSUME ~MoveEmpties PROVE LockedSpec => []KeysUnique
<1>1. TableInv => KeysUnique
  BY UniqueNow DEF TableInv
<1> QED
  BY <1>1, TableInvariant, PTL

\* Every element is in one of the two buckets its key has in a table of that
\* hashpower, whoever made the table what it is: an insertion, the workers of a
\* resize, or a stream.
THEOREM InPlaceLocked == ASSUME ~MoveEmpties PROVE LockedSpec => []ElementsInPlace
<1>1. TableInv => ElementsInPlace
  BY InPlaceNow DEF TableInv
<1> QED
  BY <1>1, TableInvariant, PTL

\* The counters add up to the number of elements, although a resize leaves them
\* as they are and a stream counts everything under the first lock.
THEOREM SizeExactLocked == ASSUME ~MoveEmpties PROVE LockedSpec => []SizeIsExact
<1>1. TableInv => SizeIsExact
  BY SizeNow DEF TableInv
<1> QED
  BY <1>1, TableInvariant, PTL

\* A resize that throws while its workers move elements leaves the map as it
\* was, and so does one that succeeds.
THEOREM ResizeKeepsContent ==
  ASSUME ~MoveEmpties
  PROVE  LockedSpec => /\ StrongGuarantee
                       /\ [][\A t \in Threads : SwapBuckets(t) => Content' = Content]_lockedVars
<1>1. TableInv => \A t \in Threads : RethrowTransfer(t) => Content' = Content
  BY RethrowData
<1>2. TableInv => \A t \in Threads : SwapBuckets(t) => Content' = Content
  BY SwapData
<1> QED
  BY <1>1, <1>2, TableInvariant, PTL DEF StrongGuarantee

-----------------------------------------------------------------------------
(* The order of places.                                                     *)

Places == Nat \X Nat

LEMMA BeforeFacts ==
  /\ \A x \in Places : ~Before(x, x)
  /\ \A x, y \in Places : Before(x, y) => ~Before(y, x)
  /\ \A x, y, z \in Places : Before(x, y) /\ Before(y, z) => Before(x, z)
  /\ \A x, y \in Places : Before(x, y) \/ Before(y, x) \/ x = y
<1>1. \A x \in Places : x = <<x[1], x[2]>> /\ x[1] \in Nat /\ x[2] \in Nat
  BY DEF Places
<1>2. /\ \A x \in Places : ~Before(x, x)
      /\ \A x, y \in Places : Before(x, y) => ~Before(y, x)
  BY <1>1 DEF Before
<1>3. \A x, y, z \in Places : Before(x, y) /\ Before(y, z) => Before(x, z)
  BY <1>1 DEF Before
<1>4. \A x, y \in Places : Before(x, y) \/ Before(y, x) \/ x = y
  <2> SUFFICES ASSUME NEW x \in Places, NEW y \in Places, ~Before(x, y), ~Before(y, x) PROVE x = y
    OBVIOUS
  <2>1. x[1] = y[1] /\ x[2] = y[2]
    BY <1>1 DEF Before
  <2> QED
    BY <1>1, <2>1
<1> QED
  BY <1>2, <1>3, <1>4

LEMMA TakenFacts ==
  ASSUME NEW tb
  PROVE  /\ IsFiniteSet(Taken(tb)) /\ Cardinality(Taken(tb)) \in Nat
         /\ \A x \in Taken(tb) : /\ x \in Places /\ x = <<x[1], x[2]>>
                                 /\ x[1] \in BucketInds /\ x[2] \in SlotInds
                                 /\ Occupied(tb, x[1], x[2])
<1>1. IsFiniteSet(BucketInds) /\ IsFiniteSet(SlotInds) /\ BucketInds \subseteq Nat /\ SlotInds \subseteq Nat
  <2>1. 0 \in Int /\ Size(MaxHp) - 1 \in Int /\ SlotPerBucket - 1 \in Int
    BY Sizes, SizeAssumption
  <2> QED
    BY <2>1, FS_Interval DEF BucketInds, SlotInds, Size
<1>2. IsFiniteSet(BucketInds \X SlotInds)
  BY <1>1, FS_Product
<1>3. Taken(tb) \in SUBSET (BucketInds \X SlotInds)
  BY DEF Taken
<1>4. IsFiniteSet(Taken(tb))
  BY <1>2, <1>3, FS_Subset
<1>5. \A x \in Taken(tb) : /\ x = <<x[1], x[2]>> /\ x[1] \in BucketInds /\ x[2] \in SlotInds
                          /\ Occupied(tb, x[1], x[2])
  BY DEF Taken
<1>6. \A x \in Taken(tb) : x \in Places
  BY <1>1, <1>5 DEF Places
<1> QED
  BY <1>4, <1>5, <1>6, FS_CardinalityType

\* The places before p.
Preceding(tb, p) == {x \in Taken(tb) : Before(x, p)}

LEMMA PrecedingFacts ==
  ASSUME NEW tb, NEW p
  PROVE  /\ IsFiniteSet(Preceding(tb, p))
         /\ Ordinal(tb, p) = Cardinality(Preceding(tb, p))
         /\ Ordinal(tb, p) \in 0 .. Cardinality(Taken(tb))
<1>1. Preceding(tb, p) \subseteq Taken(tb) /\ IsFiniteSet(Taken(tb)) /\ Cardinality(Taken(tb)) \in Nat
  BY TakenFacts DEF Preceding
<1>2. /\ IsFiniteSet(Preceding(tb, p)) /\ Cardinality(Preceding(tb, p)) \in Nat
      /\ Cardinality(Preceding(tb, p)) <= Cardinality(Taken(tb))
  BY <1>1, FS_Subset, FS_CardinalityType
<1> QED
  BY <1>1, <1>2 DEF Ordinal, Preceding

\* The element p comes next after what is before it.
LEMMA OrdinalNext ==
  ASSUME NEW tb, NEW p \in Taken(tb), NEW q,
         \A x \in Taken(tb) : Before(x, q) <=> Before(x, p) \/ x = p
  PROVE  Ordinal(tb, q) = Ordinal(tb, p) + 1
<1>1. Preceding(tb, q) = Preceding(tb, p) \cup {p}
  BY DEF Preceding
<1>2. p \notin Preceding(tb, p)
  BY TakenFacts, BeforeFacts DEF Preceding
<1>3. IsFiniteSet(Preceding(tb, p))
  BY PrecedingFacts
<1>4. Cardinality(Preceding(tb, p) \cup {p}) = Cardinality(Preceding(tb, p)) + 1
  BY <1>2, <1>3, FS_AddElement
<1> QED
  BY <1>1, <1>4, PrecedingFacts

LEMMA OrdinalSame ==
  ASSUME NEW tb, NEW p, NEW q, \A x \in Taken(tb) : Before(x, q) <=> Before(x, p)
  PROVE  Ordinal(tb, q) = Ordinal(tb, p)
<1>1. Preceding(tb, q) = Preceding(tb, p)
  BY DEF Preceding
<1> QED
  BY <1>1, PrecedingFacts

LEMMA OrdinalGrows ==
  ASSUME NEW tb, NEW p \in Taken(tb), NEW q \in Places, Before(p, q)
  PROVE  Ordinal(tb, p) < Ordinal(tb, q)
<1>1. Preceding(tb, p) \cup {p} \subseteq Preceding(tb, q)
  BY TakenFacts, BeforeFacts DEF Preceding
<1>2. p \notin Preceding(tb, p)
  BY TakenFacts, BeforeFacts DEF Preceding
<1>3. /\ IsFiniteSet(Preceding(tb, p)) /\ IsFiniteSet(Preceding(tb, q))
      /\ Cardinality(Preceding(tb, p)) = Ordinal(tb, p) /\ Cardinality(Preceding(tb, q)) = Ordinal(tb, q)
      /\ Ordinal(tb, p) \in Nat /\ Ordinal(tb, q) \in Nat
  <2>1. Ordinal(tb, p) \in 0 .. Cardinality(Taken(tb)) /\ Ordinal(tb, q) \in 0 .. Cardinality(Taken(tb))
    BY PrecedingFacts
  <2> QED
    BY <2>1, PrecedingFacts
<1>4. Cardinality(Preceding(tb, p) \cup {p}) = Ordinal(tb, p) + 1
  BY <1>2, <1>3, FS_AddElement
<1>5. Cardinality(Preceding(tb, p) \cup {p}) <= Cardinality(Preceding(tb, q))
  BY <1>1, <1>3, FS_Subset
<1> QED
  BY <1>3, <1>4, <1>5

\* The taken places are numbered without gaps.
LEMMA OrdinalFacts ==
  ASSUME NEW tb
  PROVE  LET n == Cardinality(Taken(tb)) IN
         /\ \A x \in Taken(tb) : Ordinal(tb, x) \in 0 .. n - 1
         /\ \A x, y \in Taken(tb) : Ordinal(tb, x) = Ordinal(tb, y) => x = y
         /\ \A i \in 1 .. n : \E x \in Taken(tb) : Ordinal(tb, x) = i - 1
<1> DEFINE n == Cardinality(Taken(tb))
<1>1. IsFiniteSet(Taken(tb)) /\ n \in Nat /\ \A x \in Taken(tb) : x \in Places
  BY TakenFacts
<1>2. \A x \in Taken(tb) : Ordinal(tb, x) \in 0 .. n - 1
  <2> SUFFICES ASSUME NEW x \in Taken(tb) PROVE Ordinal(tb, x) \in 0 .. n - 1
    OBVIOUS
  <2>1. /\ x \notin Preceding(tb, x) /\ Preceding(tb, x) \cup {x} \subseteq Taken(tb)
        /\ IsFiniteSet(Preceding(tb, x))
    BY <1>1, BeforeFacts, PrecedingFacts DEF Preceding
  <2>2. Cardinality(Preceding(tb, x) \cup {x}) = Cardinality(Preceding(tb, x)) + 1
    BY <2>1, FS_AddElement
  <2>3. Cardinality(Preceding(tb, x) \cup {x}) <= n
    BY <1>1, <2>1, FS_Subset
  <2>4. Ordinal(tb, x) = Cardinality(Preceding(tb, x)) /\ Ordinal(tb, x) \in 0 .. n
    BY PrecedingFacts
  <2> HIDE DEF n
  <2> QED
    BY <1>1, <2>2, <2>3, <2>4
<1>3. \A x, y \in Taken(tb) : Ordinal(tb, x) = Ordinal(tb, y) => x = y
  <2> SUFFICES ASSUME NEW x \in Taken(tb), NEW y \in Taken(tb), Ordinal(tb, x) = Ordinal(tb, y), x # y
               PROVE  FALSE
    OBVIOUS
  <2>1. Before(x, y) \/ Before(y, x)
    BY <1>1, BeforeFacts
  <2>2. Ordinal(tb, x) \in 0 .. n - 1
    BY <1>2
  <2>3. Ordinal(tb, x) \in Int
    BY <1>1, <2>2
  <2> QED
    BY <1>1, <2>1, <2>3, OrdinalGrows
<1> DEFINE f == [x \in Taken(tb) |-> Ordinal(tb, x)]
           T == 0 .. n - 1
<1>4. IsFiniteSet(T) /\ Cardinality(T) = n
  <2> HIDE DEF n
  <2>1. 0 \in Int /\ n - 1 \in Int
    BY <1>1
  <2> QED
    BY <1>1, <2>1, FS_Interval
<1>5. f \in Injection(Taken(tb), T)
  BY <1>2, <1>3 DEF Injection, IsInjective
<1>6. f \in Surjection(Taken(tb), T)
  <2> HIDE DEF f, T
  <2> QED
    BY <1>1, <1>4, <1>5, FS_Injection
<1>7. ASSUME NEW i \in 1 .. n PROVE \E x \in Taken(tb) : Ordinal(tb, x) = i - 1
  <2>1. i - 1 \in T
    <3> HIDE DEF n
    <3> QED
      BY <1>1
  <2> QED
    BY <1>6, <2>1 DEF Surjection
<1> QED
  BY <1>2, <1>3, <1>7

-----------------------------------------------------------------------------
(* The elements as a list.                                                  *)

LEMMA OrderFacts ==
  ASSUME NEW tb \in Table
  PROVE  LET s == OrderOf(tb)
             n == Cardinality(Taken(tb))
         IN  /\ s \in Seq(Keys) /\ Len(s) = n /\ n \in Nat /\ DOMAIN s = 1 .. n
             /\ \A x \in Taken(tb) : /\ Ordinal(tb, x) + 1 \in 1 .. n
                                     /\ s[Ordinal(tb, x) + 1] = KeyAt(tb, x)
             /\ \A i \in 1 .. n : \E x \in Taken(tb) : Ordinal(tb, x) + 1 = i /\ s[i] = KeyAt(tb, x)
<1> DEFINE s == OrderOf(tb)
           n == Cardinality(Taken(tb))
           P(i) == CHOOSE x \in Taken(tb) : Ordinal(tb, x) = i - 1
<1>1. /\ n \in Nat
      /\ \A x \in Taken(tb) : Ordinal(tb, x) \in 0 .. n - 1
      /\ \A x, y \in Taken(tb) : Ordinal(tb, x) = Ordinal(tb, y) => x = y
      /\ \A i \in 1 .. n : \E x \in Taken(tb) : Ordinal(tb, x) = i - 1
  BY TakenFacts, OrdinalFacts
<1>2. s = [i \in 1 .. n |-> KeyAt(tb, P(i))]
  BY DEF OrderOf
<1>3. \A i \in 1 .. n : P(i) \in Taken(tb) /\ Ordinal(tb, P(i)) = i - 1
  BY <1>1
<1>4. \A x \in Taken(tb) : KeyAt(tb, x) \in Keys
  BY ZenonT(60), TakenFacts, EntryFacts DEF KeyAt
<1> HIDE DEF n, P
<1>5. \A i \in 1 .. n : KeyAt(tb, P(i)) \in Keys
  BY <1>3, <1>4
<1>6. s \in [1 .. n -> Keys]
  BY <1>2, <1>5
<1>7. \A x \in Taken(tb) : Ordinal(tb, x) + 1 \in 1 .. n /\ P(Ordinal(tb, x) + 1) = x
  <2> SUFFICES ASSUME NEW x \in Taken(tb)
               PROVE  Ordinal(tb, x) + 1 \in 1 .. n /\ P(Ordinal(tb, x) + 1) = x
    OBVIOUS
  <2> DEFINE r == Ordinal(tb, x)
  <2>1. r \in 0 .. n - 1
    BY <1>1
  <2> HIDE DEF r
  <2>2. r + 1 \in 1 .. n /\ (r + 1) - 1 = r
    BY <1>1, <2>1
  <2>3. P(r + 1) \in Taken(tb) /\ Ordinal(tb, P(r + 1)) = r
    BY <1>3, <2>2
  <2>4. Ordinal(tb, x) = r
    BY DEF r
  <2> QED
    BY <1>1, <2>2, <2>3, <2>4 DEF r
<1>8. \A x \in Taken(tb) : /\ Ordinal(tb, x) + 1 \in 1 .. n
                           /\ s[Ordinal(tb, x) + 1] = KeyAt(tb, x)
  BY <1>2, <1>7
<1>9. \A i \in 1 .. n : \E x \in Taken(tb) : Ordinal(tb, x) + 1 = i /\ s[i] = KeyAt(tb, x)
  <2> SUFFICES ASSUME NEW i \in 1 .. n
               PROVE  \E x \in Taken(tb) : Ordinal(tb, x) + 1 = i /\ s[i] = KeyAt(tb, x)
    OBVIOUS
  <2>1. P(i) \in Taken(tb) /\ Ordinal(tb, P(i)) = i - 1 /\ s[i] = KeyAt(tb, P(i))
    BY <1>2, <1>3
  <2> QED
    BY <1>1, <2>1
<1> HIDE DEF s
<1>10. s \in Seq(Keys)
  BY <1>1, <1>6
<1>11. Len(s) = n /\ DOMAIN s = 1 .. n
  BY <1>1, <1>6, <1>10
<1> QED
  BY <1>1, <1>8, <1>9, <1>10, <1>11 DEF n, s

\* It names each key once.
LEMMA OrderOnce ==
  ASSUME NEW tb \in Table, Once(tb)
  PROVE  LET s == OrderOf(tb) IN
         \A i, j \in 1 .. Cardinality(Taken(tb)) : s[i] = s[j] => i = j
<1> DEFINE s == OrderOf(tb)
           n == Cardinality(Taken(tb))
<1>1. \A i \in 1 .. n : \E x \in Taken(tb) : Ordinal(tb, x) + 1 = i /\ s[i] = KeyAt(tb, x)
  BY OrderFacts
<1>2. \A x, y \in Taken(tb) : KeyAt(tb, x) = KeyAt(tb, y) => x = y
  <2>1. \A x \in Taken(tb) : /\ x = <<x[1], x[2]>> /\ x[1] \in BucketInds /\ x[2] \in SlotInds
                             /\ Occupied(tb, x[1], x[2])
    BY TakenFacts
  <2>2. \A x, y \in Taken(tb) : KeyAt(tb, x) = KeyAt(tb, y) => x[1] = y[1] /\ x[2] = y[2]
    BY <2>1 DEF Once, KeyAt
  <2> QED
    BY <2>1, <2>2
<1> HIDE DEF s, n
<1>3. \A i, j \in 1 .. n : s[i] = s[j] => i = j
  BY <1>1, <1>2
<1> QED
  BY <1>3 DEF s, n

\* What a map and its table say of each other when nothing is left of an old one.
LEMMA ShownBy ==
  ASSUME NEW p, NEW tb, NEW lt, NEW store, Represents(p, tb, Empty, lt, store)
  PROVE  /\ tb \in Table /\ Once(tb)
         /\ \A x \in Taken(tb) : /\ KeyAt(tb, x) \in Keys /\ store[KeyAt(tb, x)] # None
                                 /\ store[KeyAt(tb, x)] = tb[x[1]][x[2]].val
         /\ \A k \in Keys : store[k] # None => \E x \in Taken(tb) : KeyAt(tb, x) = k
         /\ \A x, y \in Taken(tb) : KeyAt(tb, x) = KeyAt(tb, y) => x = y
         /\ Cardinality(HeldKeys(store)) = Cardinality(Taken(tb))
         /\ store \in [Keys -> Vals \cup {None}]
<1>1. /\ tb \in Table /\ Once(tb) /\ store \in [Keys -> Vals \cup {None}]
      /\ \A k \in Keys, v \in Vals : Stored(tb, k, v) <=> store[k] = v
  BY NothingStored DEF Represents, Good, Shows
<1>2. \A x \in Taken(tb) : /\ x = <<x[1], x[2]>> /\ x[1] \in BucketInds /\ x[2] \in SlotInds
                           /\ Occupied(tb, x[1], x[2])
  BY TakenFacts
<1>3. ASSUME NEW x \in Taken(tb)
      PROVE  /\ KeyAt(tb, x) \in Keys /\ store[KeyAt(tb, x)] # None
             /\ store[KeyAt(tb, x)] = tb[x[1]][x[2]].val
  <2> DEFINE b == x[1]
             s == x[2]
             k == tb[b][s].key
             v == tb[b][s].val
  <2>1. b \in BucketInds /\ s \in SlotInds /\ Occupied(tb, b, s)
    BY <1>2
  <2> HIDE DEF b, s
  <2>2. k \in Keys /\ v \in Vals /\ tb[b][s] = [key |-> k, val |-> v]
    BY <1>1, <2>1, EntryFacts
  <2>3. KeyAt(tb, x) = k /\ tb[x[1]][x[2]].val = v
    BY DEF KeyAt, b, s
  <2> HIDE DEF k, v
  <2>4. Stored(tb, k, v)
    BY <2>1, <2>2 DEF Stored
  <2> QED
    BY <1>1, <2>2, <2>3, <2>4, NoneAssumption
<1>4. ASSUME NEW k \in Keys, store[k] # None PROVE \E x \in Taken(tb) : KeyAt(tb, x) = k
  <2>1. store[k] \in Vals
    BY <1>1, <1>4
  <2>2. PICK b \in BucketInds, s \in SlotInds : tb[b][s] = [key |-> k, val |-> store[k]]
    BY <1>1, <2>1 DEF Stored
  <2>3. Occupied(tb, b, s)
    BY <2>1, <2>2, NoneAssumption DEF Occupied, Entries
  <2>4. <<b, s>> \in Taken(tb) /\ KeyAt(tb, <<b, s>>) = k
    BY <2>2, <2>3 DEF Taken, KeyAt
  <2> QED
    BY <2>4
<1>5. ASSUME NEW x \in Taken(tb), NEW y \in Taken(tb), KeyAt(tb, x) = KeyAt(tb, y) PROVE x = y
  <2>1. x[1] = y[1] /\ x[2] = y[2]
    BY <1>1, <1>2, <1>5 DEF Once, KeyAt
  <2> QED
    BY <1>2, <2>1
<1>6. Cardinality(HeldKeys(store)) = Cardinality(Taken(tb))
  <2>1. Cardinality(HeldKeys(store)) = Cardinality(Taken(tb)) + Cardinality(Taken(Empty))
    BY Held
  <2>2. Taken(Empty) = {}
    <3> SUFFICES ASSUME NEW x \in Taken(Empty) PROVE FALSE
      OBVIOUS
    <3> QED
      BY TakenFacts DEF Empty, NoEntry, Occupied
  <2>3. Cardinality(Taken(tb)) \in Nat
    BY TakenFacts
  <2> QED
    BY <2>1, <2>2, <2>3, FS_EmptySet
<1> QED
  BY <1>1, <1>3, <1>4, <1>5, <1>6

LEMMA ContentOfIs ==
  ASSUME NEW p, NEW tb, NEW lt, NEW store, Represents(p, tb, Empty, lt, store)
  PROVE  ContentOf(tb) = store
<1> DEFINE C == ContentOf(tb)
<1>1. C = [k \in Keys |-> IF \E x \in Taken(tb) : KeyAt(tb, x) = k
                          THEN LET x == CHOOSE x \in Taken(tb) : KeyAt(tb, x) = k IN tb[x[1]][x[2]].val
                          ELSE None]
  BY DEF ContentOf
<1>2. ASSUME NEW k \in Keys PROVE C[k] = store[k]
  <2>1. CASE \E x \in Taken(tb) : KeyAt(tb, x) = k
    <3> DEFINE y == CHOOSE x \in Taken(tb) : KeyAt(tb, x) = k
    <3>1. y \in Taken(tb) /\ KeyAt(tb, y) = k
      BY <2>1
    <3>2. C[k] = tb[y[1]][y[2]].val
      BY <1>1, <2>1
    <3> HIDE DEF y
    <3> QED
      BY <3>1, <3>2, ShownBy
  <2>2. CASE ~\E x \in Taken(tb) : KeyAt(tb, x) = k
    BY <1>1, <2>2, ShownBy
  <2> QED
    BY <2>1, <2>2
<1>3. store \in [Keys -> Vals \cup {None}]
  BY ShownBy
<1> HIDE DEF C
<1>4. C = [k \in Keys |-> C[k]]
  BY <1>1
<1> QED
  BY <1>2, <1>3, <1>4 DEF C

\* LockedMap's own instances of what FiniteSets defines.
LEMMA SameCardinality == \A S : LM!Cardinality(S) = Cardinality(S)
BY Zenon DEF LM!Cardinality, Cardinality

LEMMA ListsOrder ==
  ASSUME NEW p, NEW tb, NEW lt, NEW store, Represents(p, tb, Empty, lt, store)
  PROVE  LM!Lists(OrderOf(tb), store) /\ Len(OrderOf(tb)) = Cardinality(HeldKeys(store))
<1> DEFINE s == OrderOf(tb)
           n == Cardinality(Taken(tb))
           keys == HeldKeys(store)
<1>1. /\ tb \in Table /\ Len(s) = n /\ DOMAIN s = 1 .. n
      /\ \A x \in Taken(tb) : /\ Ordinal(tb, x) + 1 \in 1 .. n
                              /\ s[Ordinal(tb, x) + 1] = KeyAt(tb, x)
      /\ \A i \in 1 .. n : \E x \in Taken(tb) : Ordinal(tb, x) + 1 = i /\ s[i] = KeyAt(tb, x)
  <2>1. tb \in Table
    BY ShownBy
  <2> QED
    BY <2>1, OrderFacts
<1>2. Cardinality(keys) = n
  BY ShownBy
<1>3. {s[i] : i \in DOMAIN s} = keys
  <2>0. /\ \A k : k \in keys <=> k \in Keys /\ store[k] # None
        /\ \A x \in Taken(tb) : KeyAt(tb, x) \in keys
        /\ \A k \in keys : \E x \in Taken(tb) : KeyAt(tb, x) = k
    <3>1. \A k : k \in keys <=> k \in Keys /\ store[k] # None
      BY DEF HeldKeys
    <3>2. /\ \A x \in Taken(tb) : KeyAt(tb, x) \in Keys /\ store[KeyAt(tb, x)] # None
          /\ \A k \in Keys : store[k] # None => \E x \in Taken(tb) : KeyAt(tb, x) = k
      BY ShownBy
    <3> HIDE DEF keys
    <3> QED
      BY <3>1, <3>2
  <2> HIDE DEF s, n, keys
  <2>1. ASSUME NEW i \in 1 .. n PROVE s[i] \in keys
    BY <1>1, <2>0
  <2>2. ASSUME NEW k \in keys PROVE \E i \in 1 .. n : s[i] = k
    BY <1>1, <2>0
  <2> QED
    BY <1>1, <2>1, <2>2
<1>4. keys = {k \in Keys : store[k] # None}
  BY DEF HeldKeys
<1> HIDE DEF s, n, keys
<1>5. LM!ToSet(s) = keys
  BY <1>3 DEF LM!ToSet
<1>6. LM!Lists(s, store)
  <2>1. Len(s) = Cardinality(keys) /\ LM!ToSet(s) = keys
    BY <1>1, <1>2, <1>5
  <2>2. Len(s) = Cardinality({k \in Keys : store[k] # None})
        /\ LM!ToSet(s) = {k \in Keys : store[k] # None}
    BY <1>4, <2>1
  <2> QED
    BY <2>2, SameCardinality DEF LM!Lists
<1>7. Len(s) = Cardinality(keys)
  BY <1>1, <1>2
<1> QED
  BY <1>6, <1>7 DEF s, keys

-----------------------------------------------------------------------------
(* An element less.                                                         *)

LEMMA RemoveAtIs ==
  ASSUME NEW S, NEW s \in Seq(S), NEW j \in 1 .. Len(s)
  PROVE  LM!RemoveAt(s, j) = [i \in 1 .. Len(s) - 1 |-> IF i < j THEN s[i] ELSE s[i + 1]]
<1> DEFINE n == Len(s)
           a == SubSeq(s, 1, j - 1)
           b == SubSeq(s, j + 1, n)
           c == a \o b
<1>1. n \in Nat /\ j \in Nat /\ 1 <= j /\ j <= n
  OBVIOUS
<1>2. /\ a \in Seq(S) /\ Len(a) = j - 1
      /\ \A i \in 1 .. j - 1 : a[i] = s[i]
  BY <1>1
<1>3. /\ b \in Seq(S) /\ Len(b) = n - j
      /\ \A i \in 1 .. n - j : b[i] = s[j + i]
  BY <1>1
<1>4. c = LM!RemoveAt(s, j)
  BY DEF LM!RemoveAt
<1> HIDE DEF n, a, b
<1>5. c \in Seq(S) /\ Len(c) = n - 1
  <2>1. a \in Seq(S) /\ b \in Seq(S) /\ Len(a) = j - 1 /\ Len(b) = n - j
    BY <1>2, <1>3
  <2>2. c \in Seq(S)
    BY <2>1
  <2>3. Len(c) = Len(a) + Len(b)
    BY <2>1
  <2> QED
    BY <1>1, <2>1, <2>2, <2>3
<1>6. \A i \in 1 .. n - 1 : c[i] = IF i < j THEN a[i] ELSE b[i - (j - 1)]
  BY <1>1, <1>2, <1>3
<1> HIDE DEF c
<1>7. \A i \in 1 .. n - 1 : c[i] = IF i < j THEN s[i] ELSE s[i + 1]
  <2> SUFFICES ASSUME NEW i \in 1 .. n - 1 PROVE c[i] = IF i < j THEN s[i] ELSE s[i + 1]
    OBVIOUS
  <2>1. CASE i < j
    BY <1>1, <1>2, <1>6, <2>1
  <2>2. CASE ~(i < j)
    <3>1. i - (j - 1) \in 1 .. n - j /\ j + (i - (j - 1)) = i + 1
      BY <1>1, <2>2
    <3> QED
      BY <1>3, <1>6, <2>2, <3>1
  <2> QED
    BY <2>1, <2>2
<1>8. c = [i \in 1 .. n - 1 |-> c[i]]
  BY <1>1, <1>5
<1> QED
  BY <1>4, <1>7, <1>8 DEF n

LEMMA TakenWithout ==
  ASSUME NEW tb \in Table, NEW b \in BucketInds, NEW s \in SlotInds, Occupied(tb, b, s),
         NEW nt, nt = Put(tb, b, s, None)
  PROVE  /\ nt \in Table /\ <<b, s>> \in Taken(tb)
         /\ Taken(nt) = Taken(tb) \ {<<b, s>>}
         /\ \A x \in Taken(nt) : KeyAt(nt, x) = KeyAt(tb, x)
         /\ Cardinality(Taken(nt)) = Cardinality(Taken(tb)) - 1
         /\ \A q : Ordinal(nt, q) = IF Before(<<b, s>>, q) THEN Ordinal(tb, q) - 1 ELSE Ordinal(tb, q)
<1> DEFINE z == <<b, s>>
<1>1. /\ nt \in Table
      /\ \A c \in BucketInds, r \in SlotInds : nt[c][r] = IF c = b /\ r = s THEN None ELSE tb[c][r]
  BY PutFacts
<1>2. z \in Taken(tb)
  BY DEF Taken
<1>3. \A x \in BucketInds \X SlotInds : x = <<x[1], x[2]>> /\ x[1] \in BucketInds /\ x[2] \in SlotInds
  OBVIOUS
<1>4. \A x \in BucketInds \X SlotInds :
        nt[x[1]][x[2]] = IF x = z THEN None ELSE tb[x[1]][x[2]]
  BY <1>1, <1>3
<1>5. Taken(nt) = Taken(tb) \ {z}
  <2> HIDE DEF z
  <2> QED
    BY <1>4 DEF Taken, Occupied
<1>6. \A x \in Taken(nt) : KeyAt(nt, x) = KeyAt(tb, x)
  <2> HIDE DEF z
  <2>1. \A x \in Taken(nt) : x # z /\ x \in BucketInds \X SlotInds
    BY <1>5 DEF Taken
  <2> QED
    BY <1>4, <2>1 DEF KeyAt
<1> HIDE DEF z
<1>7. IsFiniteSet(Taken(tb)) /\ Cardinality(Taken(tb) \ {z}) = Cardinality(Taken(tb)) - 1
  BY <1>2, TakenFacts, FS_RemoveElement
<1>8. ASSUME NEW q
      PROVE  Ordinal(nt, q) = IF Before(z, q) THEN Ordinal(tb, q) - 1 ELSE Ordinal(tb, q)
  <2>1. CASE Before(z, q)
    <3>1. z \in Preceding(tb, q) /\ Preceding(nt, q) = Preceding(tb, q) \ {z}
      BY <1>2, <1>5, <2>1 DEF Preceding
    <3>2. Cardinality(Preceding(nt, q)) = Cardinality(Preceding(tb, q)) - 1
      BY <3>1, PrecedingFacts, FS_RemoveElement
    <3> QED
      BY <2>1, <3>2, PrecedingFacts
  <2>2. CASE ~Before(z, q)
    <3>1. Preceding(nt, q) = Preceding(tb, q)
      BY <1>2, <1>5, <2>2 DEF Preceding
    <3> QED
      BY <2>2, <3>1, PrecedingFacts
  <2> QED
    BY <2>1, <2>2
<1> QED
  BY <1>1, <1>2, <1>5, <1>6, <1>7, <1>8 DEF z

\* The list is without its key, too.
LEMMA OrderWithout ==
  ASSUME NEW tb \in Table, Once(tb), NEW b \in BucketInds, NEW s \in SlotInds, Occupied(tb, b, s),
         NEW nt, nt = Put(tb, b, s, None)
  PROVE  OrderOf(nt) = LM!Without(OrderOf(tb), tb[b][s].key)
<1> DEFINE z == <<b, s>>
           k == tb[b][s].key
           f == OrderOf(tb)
           g == OrderOf(nt)
           n == Cardinality(Taken(tb))
           j == Ordinal(tb, z) + 1
<1>1. /\ nt \in Table /\ z \in Taken(tb) /\ Taken(nt) = Taken(tb) \ {z}
      /\ \A x \in Taken(nt) : KeyAt(nt, x) = KeyAt(tb, x)
      /\ Cardinality(Taken(nt)) = n - 1
      /\ \A q : Ordinal(nt, q) = IF Before(z, q) THEN Ordinal(tb, q) - 1 ELSE Ordinal(tb, q)
  BY TakenWithout
<1>2. KeyAt(tb, z) = k
  BY DEF KeyAt
<1> HIDE DEF z, k
<1>3. /\ f \in Seq(Keys) /\ Len(f) = n /\ n \in Nat /\ DOMAIN f = 1 .. n
      /\ \A x \in Taken(tb) : /\ Ordinal(tb, x) + 1 \in 1 .. n
                              /\ f[Ordinal(tb, x) + 1] = KeyAt(tb, x)
  BY OrderFacts
<1>4. /\ g \in Seq(Keys) /\ Len(g) = n - 1 /\ DOMAIN g = 1 .. n - 1
      /\ \A i \in 1 .. n - 1 : \E x \in Taken(nt) : Ordinal(nt, x) + 1 = i /\ g[i] = KeyAt(nt, x)
  <2> HIDE DEF g, n
  <2> QED
    BY ZenonT(60), <1>1, OrderFacts DEF g
<1>5. \A i, l \in 1 .. n : f[i] = f[l] => i = l
  BY OrderOnce
<1>6. j \in 1 .. n /\ f[j] = k
  BY <1>1, <1>2, <1>3
<1>7. \A x \in Taken(tb) : Ordinal(tb, x) \in Int /\ x \in Places
  <2> SUFFICES ASSUME NEW x \in Taken(tb) PROVE Ordinal(tb, x) \in Int /\ x \in Places
    OBVIOUS
  <2>1. Ordinal(tb, x) \in 0 .. Cardinality(Taken(tb))
    BY PrecedingFacts
  <2> QED
    BY <2>1, TakenFacts
<1>8. ASSUME NEW i \in 1 .. n - 1 PROVE g[i] = IF i < j THEN f[i] ELSE f[i + 1]
  <2>1. PICK x \in Taken(nt) : Ordinal(nt, x) + 1 = i /\ g[i] = KeyAt(nt, x)
    BY <1>4
  <2>2. x \in Taken(tb) /\ x # z /\ g[i] = KeyAt(tb, x)
    BY <1>1, <2>1
  <2>3. Before(z, x) \/ Before(x, z)
    BY <1>1, <1>7, <2>2, BeforeFacts
  <2>4. CASE Before(z, x)
    <3>1. Ordinal(tb, x) = i /\ Ordinal(tb, z) < Ordinal(tb, x)
      BY <1>1, <1>7, <2>1, <2>2, <2>4, OrdinalGrows
    <3>2. ~(i < j)
      BY <1>1, <1>7, <3>1
    <3> QED
      BY <1>3, <2>2, <3>1, <3>2
  <2>5. CASE Before(x, z)
    <3>1. ~Before(z, x)
      BY <1>1, <1>7, <2>2, <2>5, BeforeFacts
    <3>2. Ordinal(tb, x) + 1 = i /\ Ordinal(tb, x) < Ordinal(tb, z)
      BY <1>1, <1>7, <2>1, <2>2, <2>5, <3>1, OrdinalGrows
    <3>3. i < j
      BY <1>1, <1>7, <2>2, <3>2
    <3> QED
      BY <1>3, <2>2, <3>2, <3>3
  <2> QED
    BY <2>3, <2>4, <2>5
<1> HIDE DEF f, g, n, j
<1>9. g = [i \in 1 .. n - 1 |-> IF i < j THEN f[i] ELSE f[i + 1]]
  <2>1. g = [i \in 1 .. n - 1 |-> g[i]]
    BY <1>3, <1>4
  <2> QED
    BY <1>8, <2>1
<1>10. LM!RemoveAt(f, j) = g
  <2>1. j \in 1 .. Len(f)
    BY <1>3, <1>6
  <2>2. LM!RemoveAt(f, j) = [i \in 1 .. Len(f) - 1 |-> IF i < j THEN f[i] ELSE f[i + 1]]
    BY <1>3, <2>1, RemoveAtIs
  <2> QED
    BY <1>3, <1>9, <2>2
<1>11. \A i \in DOMAIN f : f[i] = k <=> i = j
  BY <1>3, <1>5, <1>6
<1>12. (CHOOSE i \in DOMAIN f : f[i] = k) = j
  BY <1>3, <1>6, <1>11
<1>13. LM!Without(f, k) = g
  BY <1>3, <1>6, <1>10, <1>12 DEF LM!Without
<1> QED
  BY <1>13 DEF f, g, k

-----------------------------------------------------------------------------
(* What a locked_table shows of its table.                                  *)

\* Where an iterator on its way is, seen from where it was.
Walking(m, c, tb, i, a) ==
  /\ m.pc = "forward" =>
       \/ c.op = "begin" /\ \A x \in Taken(tb) : ~Before(x, a)
       \/ c.op = "next" /\ i \in Taken(tb) /\ \A x \in Taken(tb) : Before(x, a) <=> Before(x, i) \/ x = i
       \/ c.op = "settle" /\ i # None /\ \A x \in Taken(tb) : Before(x, a) <=> Before(x, i)
  /\ m.pc = "backward" =>
       c.op = "prev" /\ i # None /\ \A x \in Taken(tb) : Before(x, i) <=> Before(x, a) \/ x = a

\* The counters of the first n locks.
FirstCounters(c, n) == [l \in Locks |-> IF l < n THEN c[l] ELSE 0]

\* The owner's size() has added the counters it has read.
Summing(m, c, n) ==
  /\ m.pc = "start" => m = Restart
  /\ m.pc = "sum" => c.op = "size" /\ m.root \in 0 .. MaxNumLocks
                     /\ m.sum = Sum(FirstCounters(n, m.root), Locks)

Walks ==
  /\ Ready => late = {}
  /\ locked /\ Building(owner) => it = None
  /\ \A t \in Threads : Session(t) =>
       Walking(my[t], call[t], buckets, it, job.at) /\ Summing(my[t], call[t], counter)

ViewInv == TableInv /\ Walks

\* A step of t, which is the owner afterwards, or leaves the owner alone.
LEMMA WalksStep ==
  ASSUME CInv, NEW t \in Threads, NEW m, NEW c,
         my' = [my EXCEPT ![t] = m], call' = [call EXCEPT ![t] = c],
         \/ owner' \in {None, t}
         \/ Walks /\ UNCHANGED <<owner, locked, buckets, it, counter>> /\ job'.at = job.at,
         Ready' => late' = {},
         owner' = t /\ locked' /\ m.pc = "build" => it' = None,
         owner' = t /\ locked' =>
           Walking(m, c, buckets', it', job'.at) /\ Summing(m, c, counter'),
         locked' => owner' # None
  PROVE  Walks'
<1>1. /\ my = [u \in Threads |-> my[u]] /\ call = [u \in Threads |-> call[u]]
      /\ \A u \in Threads : Inside(u)
  BY DEF CInv
<1>2. my'[t] = m /\ call'[t] = c /\ \A u \in Threads : u # t => my'[u] = my[u] /\ call'[u] = call[u]
  BY <1>1
<1>3. ASSUME locked', Building(owner)' PROVE it' = None
  <2>1. CASE owner' = t
    BY <1>2, <1>3, <2>1 DEF Building, At
  <2>2. CASE owner' # t
    <3>1. Walks /\ UNCHANGED <<owner, locked, it>>
      BY <1>3, <2>2
    <3>2. owner \in Threads
      BY <1>3, <3>1 DEF CInv, Ownership
    <3>3. my'[owner'] = my[owner]
      BY <1>2, <2>2, <3>1, <3>2
    <3> QED
      BY <1>3, <3>1, <3>3 DEF Walks, Building, At
  <2> QED
    BY <2>1, <2>2
<1>4. ASSUME NEW u \in Threads, Session(u)'
      PROVE  Walking(my'[u], call'[u], buckets', it', job'.at) /\ Summing(my'[u], call'[u], counter')
  <2>1. locked' /\ owner' = u
    BY <1>4 DEF Session
  <2>2. CASE u = t
    BY <1>2, <2>1, <2>2
  <2>3. CASE u # t
    <3>1. Walks /\ UNCHANGED <<owner, locked, buckets, it, counter>> /\ job'.at = job.at
      BY <2>1, <2>3, OwnerAssumption
    <3>2. Session(u) /\ my'[u] = my[u] /\ call'[u] = call[u]
      BY <1>2, <2>1, <2>3, <3>1 DEF Session
    <3>3. Walking(my[u], call[u], buckets, it, job.at) /\ Summing(my[u], call[u], counter)
      BY <3>1, <3>2 DEF Walks
    <3> QED
      BY <3>1, <3>2, <3>3
  <2> QED
    BY <2>2, <2>3
<1> QED
  BY <1>3, <1>4 DEF Walks

\* A thread that is elsewhere walks nowhere.
LEMMA NoWalk ==
  ASSUME NEW m, m.pc \notin {"forward", "backward", "start", "sum"}, NEW c, NEW tb, NEW i, NEW a, NEW n
  PROVE  Walking(m, c, tb, i, a) /\ Summing(m, c, n)
BY DEF Walking, Summing

LEMMA StartWalk ==
  ASSUME NEW c, NEW tb, NEW i, NEW a, NEW n
  PROVE  Walking(Restart, c, tb, i, a) /\ Summing(Restart, c, n)
BY IdleIs DEF Walking, Summing

LEMMA WalksInit == LockedInit => Walks
BY DEF LockedInit, Walks, Ready, Session

\* Whether there is a view at all.
LEMMA ReadySame ==
  ASSUME CInv, NEW t \in Threads, NEW m, my' = [my EXCEPT ![t] = m], UNCHANGED <<owner, locked>>,
         owner = t => (m.pc = "build" <=> my[t].pc = "build")
  PROVE  /\ Ready' <=> Ready
         /\ Ready => owner' = owner
<1>1. my = [u \in Threads |-> my[u]] /\ (locked => owner \in Threads)
  BY DEF CInv, Ownership
<1> QED
  BY <1>1 DEF Ready, Building, At

LEMMA ViewSame ==
  ASSUME UNCHANGED <<buckets, it, file>>, Ready' <=> Ready, Ready => owner' = owner
  PROVE  UNCHANGED <<Holder, Listing, Cursor, Stream>>
BY DEF Holder, Listing, Cursor, Stream, Ordinal, OrderOf, ContentOf

LEMMA NotReady ==
  /\ ~Ready => Holder = None /\ Listing = <<>> /\ Cursor = 0
  /\ ~Ready' => Holder' = None /\ Listing' = <<>> /\ Cursor' = 0
BY DEF Holder, Listing, Cursor

LEMMA InView ==
  /\ Ready => /\ Holder = owner /\ Listing = OrderOf(buckets)
              /\ Cursor = IF it # None THEN 1 + Ordinal(buckets, it) ELSE 0
  /\ Ready' => /\ Holder' = owner' /\ Listing' = OrderOf(buckets')
               /\ Cursor' = IF it' # None THEN 1 + Ordinal(buckets', it') ELSE 0
BY DEF Holder, Listing, Cursor, Ordinal, OrderOf, Taken, KeyAt, Occupied

LEMMA SameContent == UNCHANGED table => Content' = Content
BY ContentIs DEF table

\* The map is what the buckets hold when nothing is late.
LEMMA Shown ==
  /\ TInv /\ late = {} => old = Empty /\ Represents(hp, buckets, Empty, {}, Content)
  /\ TInv' /\ late' = {} => old' = Empty /\ Represents(hp', buckets', Empty, {}, Content')
<1>1. ASSUME TInv, late = {} PROVE old = Empty /\ Represents(hp, buckets, Empty, {}, Content)
  <2>1. Good(hp, buckets, old, late)
    BY <1>1 DEF TInv
  <2>2. old = Empty
    BY <1>1, <2>1, NothingOld
  <2> QED
    BY <1>1, <2>1, <2>2, ContentIs, ContentShows DEF Represents
<1>2. ASSUME TInv', late' = {} PROVE old' = Empty /\ Represents(hp', buckets', Empty, {}, Content')
  <2>1. Good(hp', buckets', old', late')
    BY <1>2 DEF TInv
  <2>2. old' = Empty
    BY <1>2, <2>1, NothingOld
  <2> QED
    BY <1>2, <2>1, <2>2, ContentIs, ContentShows DEF Represents
<1> QED
  BY <1>1, <1>2

LEMMA ViewShown ==
  /\ TInv /\ late = {} =>
       /\ ContentOf(buckets) = Content /\ LM!Lists(OrderOf(buckets), Content)
       /\ Len(OrderOf(buckets)) = Cardinality(HeldKeys(Content))
  /\ TInv' /\ late' = {} =>
       /\ ContentOf(buckets') = Content' /\ LM!Lists(OrderOf(buckets'), Content')
       /\ Len(OrderOf(buckets')) = Cardinality(HeldKeys(Content'))
<1>1. ASSUME NEW p, NEW tb, NEW store, Represents(p, tb, Empty, {}, store)
      PROVE  /\ ContentOf(tb) = store /\ LM!Lists(OrderOf(tb), store)
             /\ Len(OrderOf(tb)) = Cardinality(HeldKeys(store))
  BY <1>1, ContentOfIs, ListsOrder
<1> QED
  BY <1>1, Shown

\* A step of the map.
LEMMA SamePerform == \A t : KVM!Perform(t) <=> LM!Perform(t)
BY DEF KVM!Perform, LM!Perform, KVM!Find, LM!Find, KVM!Update, LM!Update, KVM!Erase, LM!Erase,
       KVM!Clear, LM!Clear, KVM!Size, LM!Size, KVM!Insert, LM!Insert, KVM!Throw, LM!Throw,
       KVM!Return, LM!Return, KVM!Put, LM!Put, KVM!Present, LM!Present, KVM!YesIf, LM!YesIf,
       KVM!Insertions, LM!Insertions

\* What a step may be of LockedMap.
Mapped == LM!LockedNext \/ UNCHANGED LM!lockedMap

-----------------------------------------------------------------------------
(* The steps of LockedMap: calls, the operations on one key, size.          *)

LEMMA CallKinds ==
  \A c \in Workload \cup SessionWork :
    /\ c \in LM!LockedCalls /\ c # None
    /\ c.op = "lock" => c = [op |-> "lock"]
    /\ c.op = "size" => c = [op |-> "size"]
<1>1. Workload \cup SessionWork \subseteq LM!LockedCalls /\ None \notin LM!LockedCalls
  BY CallsAssumption
<1>2. ASSUME NEW c \in LM!LockedCalls
      PROVE  c.op \in {"lock", "size"} => c = [op |-> c.op]
  <2>1. CASE c \in [op : LM!OnValues, key : Keys, val : Vals]
    BY <2>1 DEF LM!OnValues, LM!Insertions
  <2>2. CASE c \in [op : {"find", "erase"}, key : Keys]
    BY <2>2
  <2>3. CASE c \in [op : {"clear", "size"}]
    BY <2>3
  <2>4. CASE c \in [op : {"rehash"}, hp : Nat]
    BY <2>4
  <2>5. CASE c \in [op : {"reserve"}, num : Nat]
    BY <2>5
  <2>6. CASE c \in [op : LM!Moves \cup {"lock", "unlock", "erase_at", "save", "load"}]
    BY <2>6
  <2> QED
    BY <2>1, <2>2, <2>3, <2>4, <2>5, <2>6 DEF LM!LockedCalls, LM!Calls, LM!Resizing
<1> QED
  BY <1>1, <1>2

LEMMA InLM ==
  ASSUME NEW t \in Threads
  PROVE  /\ LM!Request(t) \/ LM!Resize(t) \/ LM!Lock(t) => Mapped
         /\ LM!SizeOutside(t) \/ LM!PerformOutside(t) \/ LM!OwnerStep(t) => Mapped
         /\ UNCHANGED LM!lockedMap => Mapped
BY DEF Mapped, LM!LockedNext

LEMMA SameMap ==
  UNCHANGED <<Content, call, ret>> /\ UNCHANGED <<Holder, Listing, Cursor, Stream>>
    => UNCHANGED LM!lockedMap
BY DEF LM!lockedMap

\* Steps that leave the table and the owner as they are.
LEMMA QuietWalks ==
  ASSUME ViewInv, NEW t \in Threads, NEW m, NEW c,
         my' = [my EXCEPT ![t] = m], call' = [call EXCEPT ![t] = c], UNCHANGED <<table, inside>>,
         my[t].pc # "build", m.pc # "build",
         Session(t) => Walking(m, c, buckets, it, job.at) /\ Summing(m, c, counter)
  PROVE  /\ Walks' /\ Content' = Content
         /\ UNCHANGED <<Holder, Listing, Cursor, Stream>>
<1>1. /\ CInv /\ Walks /\ UNCHANGED <<owner, locked, buckets, late, it, file, counter>>
      /\ job' = job
  BY DEF ViewInv, TableInv, table, inside
<1>2. Ready' <=> Ready
  BY <1>1, ReadySame
<1>3. locked' => owner' # None
  BY <1>1 DEF CInv, Ownership
<1>4. Walks'
  BY <1>1, <1>2, <1>3, WalksStep DEF Walks, Session
<1>5. UNCHANGED <<Holder, Listing, Cursor, Stream>>
  BY <1>1, <1>2, ViewSame
<1> QED
  BY <1>4, <1>5, SameContent

LEMMA Requests ==
  ASSUME ViewInv, NEW t \in Threads, NEW c \in Workload \cup SessionWork, At(t, "idle"),
         call' = [call EXCEPT ![t] = c], ret' = [ret EXCEPT ![t] = None], Go(t, Restart),
         UNCHANGED <<table, inside>>
  PROVE  Walks' /\ Mapped
<1>1. /\ CInv /\ my' = [my EXCEPT ![t] = Restart] /\ my[t].pc # "build" /\ Restart.pc # "build"
      /\ call[t] = None
  BY IdleIs DEF ViewInv, TableInv, Go, At, CInv, Inside, InsideOK
<1>2. /\ Walks' /\ Content' = Content
      /\ UNCHANGED <<Holder, Listing, Cursor, Stream>>
  BY <1>1, QuietWalks, StartWalk
<1>3. call = [u \in Threads |-> call[u]] /\ c \in LM!LockedCalls
  BY <1>1, CallKinds DEF CInv
<1>4. call'[t] = c
  BY <1>3
<1>5. LM!Request(t)
  BY <1>1, <1>2, <1>3, <1>4 DEF LM!Request, LM!session
<1> QED
  BY <1>2, <1>5, InLM

LEMMA CallsMap ==
  ASSUME ViewInv, NEW t \in Threads, PlainCall(t) \/ SessionCall(t)
  PROVE  Walks' /\ Mapped
<1>1. PICK c \in Workload \cup SessionWork : call' = [call EXCEPT ![t] = c]
  BY DEF PlainCall, Call, SessionCall
<1>2. /\ At(t, "idle") /\ ret' = [ret EXCEPT ![t] = None] /\ Go(t, Restart)
      /\ UNCHANGED <<table, inside>>
  BY DEF PlainCall, Call, SessionCall
<1> QED
  BY <1>1, <1>2, Requests

\* Everybody else waits while there is an owner.
LEMMA PlainMap ==
  ASSUME ViewInv, NEW t \in Threads, PlainStep(t)
  PROVE  Walks' /\ Mapped
<1>1. CInv /\ TInv /\ Step(t) /\ owner = None /\ UNCHANGED inside
  BY DEF ViewInv, TableInv, PlainStep
<1>2. ~locked /\ ~locked' /\ owner' = None /\ UNCHANGED <<it, file>>
  BY <1>1 DEF CInv, Ownership, inside
<1>3. ~Ready /\ ~Ready'
  BY <1>2 DEF Ready
<1>4. Walks'
  BY <1>2, <1>3 DEF Walks, Session
<1>5. UNCHANGED Stream
  BY <1>2 DEF Stream, ContentOf, OrderOf, Ordinal
<1>6. UNCHANGED <<Holder, Listing, Cursor, Stream>> /\ Holder = None
  BY <1>3, <1>5, NotReady
<1>7. Hidden \/ Performs(t)
  BY <1>1, StepPerforms
<1>8. CASE Hidden
  <2>1. UNCHANGED <<Content, call, ret>>
    BY <1>8 DEF Hidden, KVM!map
  <2> QED
    BY <1>4, <1>6, <2>1, SameMap, InLM
<1>9. CASE Performs(t)
  <2>1. LM!Perform(t)
    BY <1>9, SamePerform DEF Performs
  <2>2. LM!PerformOutside(t)
    BY <1>6, <2>1 DEF LM!PerformOutside, LM!session
  <2> QED
    BY <1>4, <2>2, InLM
<1> QED
  BY <1>7, <1>8, <1>9

-----------------------------------------------------------------------------
\* One counter more.
LEMMA CountersFacts ==
  ASSUME NEW c \in [Locks -> Int]
  PROVE  /\ Sum(FirstCounters(c, 0), Locks) = 0
         /\ \A n \in Locks :
              Sum(FirstCounters(c, n + 1), Locks) = Sum(FirstCounters(c, n), Locks) + c[n]
         /\ FirstCounters(c, MaxNumLocks) = c
<1>1. IsFiniteSet(Locks) /\ Locks \subseteq Nat /\ \A l \in Locks : l < MaxNumLocks
  <2>1. 0 \in Int /\ MaxNumLocks - 1 \in Int /\ MaxNumLocks \in Nat
    BY SizeAssumption
  <2> QED
    BY <2>1, FS_Interval DEF Locks
<1>2. Sum(FirstCounters(c, 0), Locks) = 0
  <2> DEFINE f == FirstCounters(c, 0)
  <2>1. \A l \in Locks : f[l] = 0
    BY <1>1 DEF FirstCounters
  <2> HIDE DEF f
  <2>2. Sum(f, Locks) = 0
    BY <1>1, <2>1, SumOfZeros
  <2> QED
    BY <2>2 DEF f
<1>3. ASSUME NEW n \in Locks
      PROVE  Sum(FirstCounters(c, n + 1), Locks) = Sum(FirstCounters(c, n), Locks) + c[n]
  <2> DEFINE f == FirstCounters(c, n)
             g == FirstCounters(c, n + 1)
             d == c[n]
  <2>1. d \in Int /\ \A l \in Locks : f[l] \in Int
    BY DEF FirstCounters
  <2>2. \A l \in Locks : g[l] = IF l = n THEN f[l] + d ELSE f[l]
    BY <1>1 DEF FirstCounters
  <2> HIDE DEF f, g, d
  <2>3. Sum(g, Locks) = Sum(f, Locks) + d
    BY ZenonT(60), <1>1, <2>1, <2>2, SumAdd
  <2> QED
    BY <2>3 DEF f, g, d
<1>4. FirstCounters(c, MaxNumLocks) = c
  BY <1>1 DEF FirstCounters
<1> QED
  BY <1>2, <1>3, <1>4

\* size() needs no lock; that of the owner is exact.
LEMMA SizeMap ==
  ASSUME ViewInv, NEW t \in Threads, SizeStep(t)
  PROVE  Walks' /\ Mapped
<1>1. /\ CInv /\ TInv /\ Walks /\ UNCHANGED <<table, inside>> /\ owner # None
      /\ ReadCounter(t) \/ ReturnSize(t)
  BY DEF ViewInv, TableInv, SizeStep, ReadCounter, ReturnSize
<1>2. /\ my[t].pc \in {"start", "sum"} /\ call[t].op = "size" /\ call[t] # None
      /\ my[t] \in Locals /\ my[t].pc # "idle"
  <2>1. my[t].pc = "sum" \/ (my[t].pc = "start" /\ call[t].op = "size")
    BY <1>1 DEF ReadCounter, ReturnSize, At, Op
  <2>2. LocalOK(my[t], call[t])
    BY <1>1 DEF TInv
  <2> QED
    BY <2>1, <2>2 DEF LocalOK
<1>3. call[t] = [op |-> "size"]
  <2>1. call[t] \in AllCalls /\ Settle.op = "settle"
    BY <1>1, <1>2 DEF CInv, Inside, InsideOK, Settle
  <2> QED
    BY <1>2, <2>1, CallKinds DEF AllCalls
<1>4. counter \in [Locks -> Int] /\ Sum(counter, Locks) = Cardinality(HeldKeys(Content))
  BY <1>1 DEF TInv, Counts
<1> DEFINE r == my[t].root
           n == my[t].sum
<1>5. r \in Nat /\ n \in Int
  BY <1>2 DEF Locals
<1>6. ASSUME Session(t) PROVE n = Sum(FirstCounters(counter, r), Locks)
  <2>1. Summing(my[t], call[t], counter)
    BY <1>1, <1>6 DEF Walks
  <2>2. CASE my[t].pc = "start"
    <3>1. r = 0 /\ n = 0
      BY <2>1, <2>2 DEF Summing, Restart, Idle
    <3> HIDE DEF r, n
    <3> QED
      BY <1>4, <3>1, CountersFacts
  <2>3. CASE my[t].pc = "sum"
    BY <2>1, <2>3 DEF Summing
  <2> QED
    BY <1>2, <2>2, <2>3
<1>7. CASE ReadCounter(t)
  <2> DEFINE m == [my[t] EXCEPT !.pc = "sum", !.sum = @ + counter[my[t].root], !.root = @ + 1]
  <2>1. my' = [my EXCEPT ![t] = m] /\ Stay /\ r < MaxNumLocks
    BY <1>7 DEF ReadCounter, Go
  <2>2. m.pc = "sum" /\ m.sum = n + counter[r] /\ m.root = r + 1
    <3>1. my[t] = [pc |-> my[t].pc, hp |-> my[t].hp, queue |-> my[t].queue, root |-> my[t].root,
                   slots |-> my[t].slots, path |-> my[t].path, sum |-> my[t].sum]
      BY <1>2 DEF Locals
    <3> QED
      BY <3>1
  <2> HIDE DEF m, r, n
  <2>3. r \in Locks /\ r + 1 \in 0 .. MaxNumLocks
    BY <1>5, <2>1, SizeAssumption DEF Locks
  <2>4. Session(t) => m.sum = Sum(FirstCounters(counter, m.root), Locks)
    BY <1>4, <1>6, <2>2, <2>3, CountersFacts
  <2>5. Session(t) => Walking(m, call[t], buckets, it, job.at) /\ Summing(m, call[t], counter)
    BY <1>2, <2>2, <2>3, <2>4 DEF Walking, Summing
  <2>6. call' = [call EXCEPT ![t] = call[t]] /\ UNCHANGED <<call, ret>>
    BY <1>1, <2>1 DEF Stay, CInv
  <2>7. Walks' /\ Content' = Content /\ UNCHANGED <<Holder, Listing, Cursor, Stream>>
    BY <1>1, <1>2, <2>1, <2>2, <2>5, <2>6, QuietWalks
  <2> QED
    BY <2>6, <2>7, SameMap, InLM
<1>8. CASE ReturnSize(t)
  <2>1. Return(t, n) /\ my[t].pc = "sum" /\ r = MaxNumLocks
    BY <1>8 DEF ReturnSize, At
  <2>2. my' = [my EXCEPT ![t] = Idle] /\ call' = [call EXCEPT ![t] = None]
        /\ ret' = [ret EXCEPT ![t] = n]
    BY <2>1 DEF Return, Go
  <2>3. Walks' /\ Content' = Content /\ UNCHANGED <<Holder, Listing, Cursor, Stream>>
    BY <1>1, <1>2, <2>2, IdleIs, NoWalk, QuietWalks
  <2>4. ret'[t] = n
    <3> HIDE DEF n
    <3>1. ret = [u \in Threads |-> ret[u]]
      BY <1>1 DEF TInv
    <3> QED
      BY <2>2, <3>1
  <2> HIDE DEF n, r
  <2>5. CASE Holder # t
    <3>1. LM!Size(t)
      BY <1>5, <2>2, <2>3, <2>4 DEF LM!Size, LM!Return
    <3>2. LM!SizeOutside(t)
      BY <1>3, <2>3, <2>5, <3>1 DEF LM!SizeOutside, LM!session
    <3> QED
      BY <2>3, <3>2, InLM
  <2>6. CASE Holder = t
    <3>1. Ready /\ owner = t /\ Session(t)
      BY <1>1, <2>6, OwnerAssumption DEF Holder, Ready, Session
    <3>2. n = Sum(counter, Locks)
      BY <1>4, <1>6, <2>1, <3>1, CountersFacts
    <3>3. late = {}
      BY <1>1, <3>1 DEF Walks
    <3>4. n = Len(Listing)
      BY <1>1, <1>4, <3>1, <3>2, <3>3, ViewShown, InView
    <3>5. LM!SizeInside(t)
      BY <2>2, <2>3, <3>4 DEF LM!SizeInside, LM!Return, LM!session
    <3>6. LM!OwnerStep(t)
      BY <1>2, <2>6, <3>5 DEF LM!OwnerStep
    <3> QED
      BY <2>3, <3>6, InLM
  <2> QED
    BY <2>5, <2>6
<1> QED
  BY <1>1, <1>7, <1>8

-----------------------------------------------------------------------------
(* Resizes.                                                                 *)

LEMMA ReturnIs ==
  ASSUME NEW t, NEW r, Return(t, r)
  PROVE  LM!Return(t, r) /\ my' = [my EXCEPT ![t] = Idle] /\ call' = [call EXCEPT ![t] = None]
BY DEF Return, Go, LM!Return

LEMMA ResizeMap ==
  ASSUME NEW t \in Threads, call[t] # None, call[t].op \in Resizes, NEW r \in {"yes", "no", "exception"},
         Return(t, r), Content' = Content, UNCHANGED <<Holder, Stream>>,
         \/ UNCHANGED <<Listing, Cursor>>
         \/ Holder = t /\ LM!Lists(Listing', Content) /\ Cursor' = 0
  PROVE  Mapped
<1>1. LM!Return(t, r)
  BY ReturnIs
<1>2. LM!Resize(t)
  BY <1>1 DEF LM!Resize, Resizes
<1> QED
  BY <1>2, InLM

LEMMA CompareMap ==
  ASSUME ViewInv, NEW t \in Threads, CompareHashpower(t)
  PROVE  Walks' /\ Mapped
<1>1. /\ CInv /\ my[t].pc = "start" /\ call[t].op \in Resizes /\ UNCHANGED <<table, inside>>
      /\ \/ Return(t, "no")
         \/ Go(t, [Idle EXCEPT !.pc = "resize"]) /\ Stay
  BY DEF ViewInv, TableInv, CompareHashpower, At, Resizing, Resizes, Op
<1>2. call[t] # None /\ call = [u \in Threads |-> call[u]]
  BY <1>1 DEF CInv, Inside, InsideOK
<1>3. CASE Return(t, "no")
  <2>1. Walks' /\ Content' = Content /\ UNCHANGED <<Holder, Listing, Cursor, Stream>>
    BY <1>1, <1>3, ReturnIs, IdleIs, NoWalk, QuietWalks
  <2> QED
    BY <1>1, <1>2, <1>3, <2>1, ResizeMap
<1>4. CASE Go(t, [Idle EXCEPT !.pc = "resize"]) /\ Stay
  <2> DEFINE m == [Idle EXCEPT !.pc = "resize"]
  <2>1. my' = [my EXCEPT ![t] = m] /\ m.pc = "resize"
    BY <1>4, IdleIs DEF Go
  <2> HIDE DEF m
  <2>2. call' = [call EXCEPT ![t] = call[t]] /\ UNCHANGED <<call, ret>>
    BY <1>2, <1>4 DEF Stay
  <2>3. Walks' /\ Content' = Content /\ UNCHANGED <<Holder, Listing, Cursor, Stream>>
    BY <1>1, <2>1, <2>2, NoWalk, QuietWalks
  <2> QED
    BY <2>2, <2>3, SameMap, InLM
<1> QED
  BY <1>1, <1>3, <1>4

LEMMA ExpandMap ==
  ASSUME ViewInv, NEW t \in Threads, ExpandSimple(t)
  PROVE  Walks' /\ Mapped
<1>1. /\ CInv /\ Walks /\ my[t].pc = "resize" /\ UNCHANGED table /\ UNCHANGED <<locked, it, file>>
      /\ owner = None \/ Session(t)
      /\ \/ Return(t, "exception") /\ UNCHANGED <<owner, job>>
         \/ owner' = t /\ UNCHANGED <<call, ret, my, left>>
  BY DEF ViewInv, TableInv, ExpandSimple, At
<1>2. /\ call[t] # None /\ call[t].op \in Resizes
      /\ my = [u \in Threads |-> my[u]] /\ call = [u \in Threads |-> call[u]]
      /\ owner = None => ~locked
  BY <1>1 DEF CInv, Ownership, Inside, InsideOK
<1>3. CASE Return(t, "exception") /\ UNCHANGED <<owner, job>>
  <2>1. UNCHANGED inside
    BY <1>1, <1>3 DEF inside
  <2>2. Walks' /\ Content' = Content /\ UNCHANGED <<Holder, Listing, Cursor, Stream>>
    BY <1>1, <1>3, <2>1, ReturnIs, IdleIs, NoWalk, QuietWalks
  <2> QED
    BY <1>2, <1>3, <2>2, ResizeMap
<1>4. CASE owner' = t /\ UNCHANGED <<call, ret, my, left>>
  <2>1. my' = [my EXCEPT ![t] = my[t]] /\ call' = [call EXCEPT ![t] = call[t]]
    BY <1>2, <1>4
  <2>2. Ready' <=> Ready
    BY <1>1, <1>2, <1>4 DEF Ready, Session, Building, At
  <2>3. Ready => owner' = owner
    BY <1>1, <1>2, <1>4 DEF Ready, Session
  <2>4. late' = late /\ UNCHANGED <<buckets, it, file>>
    BY <1>1 DEF table
  <2>5. Walking(my[t], call[t], buckets', it', job'.at) /\ Summing(my[t], call[t], counter')
    BY <1>1, NoWalk
  <2>6. owner' # None
    BY <1>4, OwnerAssumption
  <2>7. Ready' => late' = {}
    BY <1>1, <2>2, <2>4 DEF Walks
  <2>8. Walks'
    BY ZenonT(60), <1>1, <1>4, <2>1, <2>5, <2>6, <2>7, WalksStep
  <2>9. UNCHANGED <<Holder, Listing, Cursor, Stream>>
    BY <2>2, <2>3, <2>4, ViewSame
  <2> QED
    BY <1>1, <1>4, <2>8, <2>9, SameContent, SameMap, InLM
<1> QED
  BY <1>1, <1>3, <1>4

\* The constructor of a locked_table takes the locks: nothing is visible yet.
LEMMA LockMap ==
  ASSUME ViewInv, NEW t \in Threads, LockTable(t)
  PROVE  Walks' /\ Mapped
<1> DEFINE m == [Idle EXCEPT !.pc = "build"]
<1>1. /\ CInv /\ owner = None /\ owner' = t /\ locked' = TRUE /\ Go(t, m) /\ Stay
      /\ UNCHANGED table /\ UNCHANGED <<it, file>>
  BY DEF ViewInv, TableInv, LockTable
<1>2. /\ my = [u \in Threads |-> my[u]] /\ call = [u \in Threads |-> call[u]]
      /\ ~locked /\ it = None
  BY <1>1 DEF CInv, Ownership
<1>3. m.pc = "build"
  BY IdleIs
<1> HIDE DEF m
<1>4. my' = [my EXCEPT ![t] = m] /\ call' = [call EXCEPT ![t] = call[t]] /\ my'[t] = m
  BY <1>1, <1>2 DEF Go, Stay
<1>5. ~Ready /\ ~Ready'
  BY <1>1, <1>2, <1>3, <1>4 DEF Ready, Building, At
<1>6. Walks'
  BY <1>1, <1>2, <1>3, <1>4, <1>5, NoWalk, OwnerAssumption, WalksStep
<1>7. UNCHANGED <<buckets, it, file>> /\ UNCHANGED <<call, ret>>
  BY <1>1 DEF table, Stay
<1>8. UNCHANGED <<Holder, Listing, Cursor, Stream>>
  BY <1>5, <1>7, ViewSame
<1> QED
  BY <1>1, <1>6, <1>7, <1>8, SameContent, SameMap, InLM

\* When it ends, the table is a list.
LEMMA EndMigrationMap ==
  ASSUME ViewInv, TableInv', NEW t \in Threads, EndMigration(t)
  PROVE  Walks' /\ Mapped
<1>1. /\ CInv /\ TInv' /\ Walks /\ owner = t /\ job.stage = "migrate" /\ late = {} /\ UNCHANGED table
      /\ UNCHANGED <<owner, locked, it, file>>
      /\ \/ Building(t) /\ Return(t, "yes")
         \/ ~Building(t) /\ UNCHANGED <<call, ret, my, left>>
  BY EndMigrationData DEF ViewInv, TableInv, EndMigration
<1>2. /\ my = [u \in Threads |-> my[u]] /\ call = [u \in Threads |-> call[u]]
      /\ InsideOK(t, my[t], call[t], owner, locked, job.stage, file)
  BY <1>1 DEF CInv, Inside
<1>3. late' = {} /\ UNCHANGED <<buckets, it, file>> /\ Content' = Content
  BY <1>1, SameContent DEF table
<1>4. CASE Building(t) /\ Return(t, "yes")
  <2>1. /\ my' = [my EXCEPT ![t] = Idle] /\ call' = [call EXCEPT ![t] = None] /\ LM!Return(t, "yes")
        /\ my'[t] = Idle
    BY <1>2, <1>4, ReturnIs
  <2>2. locked /\ call[t].op = "lock" /\ call[t] # None /\ call[t] \in AllCalls
    BY <1>1, <1>2, <1>4 DEF InsideOK, Building, At, Resizes
  <2>3. call[t] = [op |-> "lock"]
    <3>1. Settle.op = "settle"
      BY DEF Settle
    <3> QED
      BY <2>2, <3>1, CallKinds DEF AllCalls
  <2>4. ~Ready /\ Ready' /\ it = None
    BY <1>1, <1>4, <2>1, <2>2, IdleIs DEF Ready, Building, At, Walks
  <2>5. Walks'
    BY <1>1, <1>3, <2>1, <2>4, IdleIs, NoWalk, OwnerAssumption, WalksStep
  <2>6. Holder = None /\ Cursor = 0 /\ Holder' = t /\ Listing' = OrderOf(buckets') /\ Cursor' = 0
    BY <1>1, <1>3, <2>4, NotReady, InView
  <2>7. LM!Lists(Listing', Content)
    BY <1>1, <1>3, <2>6, ViewShown
  <2>8. UNCHANGED Stream
    BY <1>3 DEF Stream, ContentOf, OrderOf, Ordinal
  <2>9. LM!Lock(t)
    BY <1>3, <2>1, <2>3, <2>6, <2>7, <2>8 DEF LM!Lock
  <2> QED
    BY <2>5, <2>9, InLM
<1>5. CASE ~Building(t) /\ UNCHANGED <<call, ret, my, left>>
  <2>1. my' = [my EXCEPT ![t] = my[t]] /\ call' = [call EXCEPT ![t] = call[t]]
    BY <1>2, <1>5
  <2>2. my[t].pc = "resize"
    BY <1>1, <1>2, <1>5 DEF InsideOK, Building, At
  <2>3. (Ready' <=> Ready) /\ (Ready => owner' = owner)
    BY <1>1, <2>1, ReadySame
  <2>4. Walks'
    BY <1>1, <1>3, <2>1, <2>2, NoWalk, OwnerAssumption, WalksStep
  <2>5. UNCHANGED <<Holder, Listing, Cursor, Stream>>
    BY <1>3, <2>3, ViewSame
  <2> QED
    BY <1>3, <1>5, <2>4, <2>5, SameMap, InLM
<1> QED
  BY <1>1, <1>4, <1>5

\* The end of a resize, whether the new buckets take the place of the old ones
\* or an exception is thrown.
LEMMA EndResizeMap ==
  ASSUME ViewInv, TableInv', ~MoveEmpties, NEW t \in Threads, SwapBuckets(t) \/ RethrowTransfer(t)
  PROVE  Walks' /\ Mapped
<1>1. /\ CInv /\ TInv' /\ Data /\ Walks /\ owner = t /\ job.stage = "transfer" /\ Release
      /\ UNCHANGED <<late, locked, file>>
      /\ \/ Return(t, "yes") /\ it' = None
         \/ Return(t, "exception") /\ UNCHANGED <<buckets, it>>
  BY DEF ViewInv, TableInv, SwapBuckets, RethrowTransfer, AllMoved
<1>2. Content' = Content
  BY SwapData, RethrowData DEF ViewInv
<1>3. /\ my = [u \in Threads |-> my[u]] /\ call = [u \in Threads |-> call[u]]
      /\ InsideOK(t, my[t], call[t], owner, locked, job.stage, file)
  BY <1>1 DEF CInv, Inside
<1>4. my[t].pc = "resize" /\ call[t] # None /\ call[t].op \in Resizes
  BY <1>1, <1>3 DEF InsideOK
<1>5. late' = {}
  BY <1>1 DEF Data, Settled
<1>6. my' = [my EXCEPT ![t] = Idle] /\ call' = [call EXCEPT ![t] = None] /\ my'[t] = Idle
  BY <1>1, <1>3, ReturnIs
<1>7. Walks'
  <2>1. owner' \in {None, t} /\ (locked' => owner' # None)
    BY <1>1, OwnerAssumption DEF Release
  <2>2. Idle.pc # "build" /\ Walking(Idle, None, buckets', it', job'.at) /\ Summing(Idle, None, counter')
    BY IdleIs, NoWalk
  <2> QED
    BY <1>1, <1>5, <1>6, <2>1, <2>2, WalksStep
<1>8. UNCHANGED Stream
  BY <1>1 DEF Stream, ContentOf, OrderOf, Ordinal
<1>9. CASE locked
  <2>1. owner' = t /\ Ready /\ Ready'
    BY <1>1, <1>4, <1>6, <1>9, IdleIs DEF Release, Ready, Building, At
  <2>2. Holder = t /\ Holder' = t /\ Listing' = OrderOf(buckets')
    BY <1>1, <2>1, InView
  <2>3. LM!Lists(Listing', Content)
    BY <1>1, <1>2, <1>5, <2>2, ViewShown
  <2>4. CASE Return(t, "yes") /\ it' = None
    <3>1. Cursor' = 0
      BY <2>1, <2>4, InView
    <3> QED
      BY <1>2, <1>4, <1>7, <1>8, <2>2, <2>3, <2>4, <3>1, ResizeMap
  <2>5. CASE Return(t, "exception") /\ UNCHANGED <<buckets, it>>
    <3>1. UNCHANGED <<Holder, Listing, Cursor, Stream>>
      BY <1>1, <2>1, <2>5, ViewSame
    <3> QED
      BY <1>2, <1>4, <1>7, <2>5, <3>1, ResizeMap
  <2> QED
    BY <1>1, <2>4, <2>5
<1>10. CASE ~locked
  <2>1. ~Ready /\ ~Ready'
    BY <1>1, <1>10 DEF Ready
  <2>2. UNCHANGED <<Holder, Listing, Cursor, Stream>>
    BY <1>8, <2>1, NotReady
  <2>3. PICK r \in {"yes", "no", "exception"} : Return(t, r)
    BY <1>1
  <2> QED
    BY <1>2, <1>4, <1>7, <2>2, <2>3, ResizeMap
<1> QED
  BY <1>9, <1>10

\* Workers are invisible.
LEMMA WorkMap ==
  ASSUME ViewInv, TableInv', NEW w, WorkerStep(w)
  PROVE  Walks' /\ Mapped
<1>1. /\ CInv /\ TInv /\ Walks /\ job.stage # "none"
      /\ UNCHANGED <<call, ret, my, owner, locked, it, file>>
      /\ \/ MigrateLock(w) /\ Under({job.workers[w].next}, AfterMove({job.workers[w].next}))
         \/ TransferStep(w) /\ UNCHANGED table
  BY DEF ViewInv, TableInv, WorkerStep, MigrateLock, TransferStep, SkipSlot, MoveOut, GrowNewMap,
         FailTransfer, Transferring
<1>2. Content' = Content
  BY <1>1, MigrateData, TransferData DEF ViewInv
<1>3. Ready => buckets' = buckets
  BY <1>1 DEF Walks, Under, AfterMove, table
<1>4. late' \subseteq late
  BY <1>1 DEF Under, table
<1>5. (Ready' <=> Ready) /\ (Ready => owner' = owner)
  BY <1>1 DEF Ready, Building, At
<1>6. Walks'
  <2>1. Ready' => late' = {}
    BY <1>1, <1>4, <1>5 DEF Walks
  <2>2. locked' /\ Building(owner)' => it' = None
    BY <1>1 DEF Walks, Building, At
  <2>3. ASSUME NEW u \in Threads, Session(u)'
        PROVE  Walking(my'[u], call'[u], buckets', it', job'.at) /\ Summing(my'[u], call'[u], counter')
    <3>1. InsideOK(u, my[u], call[u], owner, locked, job.stage, file) /\ owner = u /\ my' = my
      BY <1>1, <2>3 DEF CInv, Inside, Session
    <3>2. my'[u].pc \in {"build", "resize"}
      BY <1>1, <3>1 DEF InsideOK
    <3> QED
      BY <3>2, NoWalk
  <2> QED
    BY <2>1, <2>2, <2>3 DEF Walks
<1>7. UNCHANGED <<Holder, Listing, Cursor, Stream>>
  <2>1. CASE Ready
    BY <1>1, <1>3, <1>5, <2>1, ViewSame
  <2>2. CASE ~Ready
    <3>1. UNCHANGED Stream
      BY <1>1 DEF Stream, ContentOf, OrderOf, Ordinal
    <3> QED
      BY <1>5, <2>2, <3>1, NotReady
  <2> QED
    BY <2>1, <2>2
<1> QED
  BY <1>1, <1>2, <1>6, <1>7, SameMap DEF Mapped

-----------------------------------------------------------------------------
(* Iterators.                                                               *)

\* The number of a place is where its element is in the list.
LEMMA PlaceInList ==
  ASSUME TInv, NEW p, p = EndOf(hp) \/ (Spot(hp, p) /\ Occupied(buckets, p[1], p[2]))
  PROVE  LET s == OrderOf(buckets)
             q == 1 + Ordinal(buckets, p)
         IN  /\ s \in Seq(Keys) /\ Len(s) \in Nat
             /\ q \in 1 .. Len(s) + 1
             /\ p = EndOf(hp) => q = Len(s) + 1
             /\ p # EndOf(hp) => /\ p \in Taken(buckets) /\ q \in 1 .. Len(s)
                                 /\ s[q] = KeyAt(buckets, p)
             /\ LM!ItemAt(s, q) = IF p = EndOf(hp) THEN "end" ELSE buckets[p[1]][p[2]].key
<1> DEFINE s == OrderOf(buckets)
           q == 1 + Ordinal(buckets, p)
           n == Cardinality(Taken(buckets))
<1>1. /\ Good(hp, buckets, old, late) /\ buckets \in Table /\ hp \in 0 .. MaxHp
      /\ \A x \in Taken(buckets) : Spot(hp, x)
  BY PlaceFacts DEF TInv, Good
<1>2. /\ s \in Seq(Keys) /\ Len(s) = n /\ n \in Nat
      /\ \A x \in Taken(buckets) : /\ Ordinal(buckets, x) + 1 \in 1 .. n
                                   /\ s[Ordinal(buckets, x) + 1] = KeyAt(buckets, x)
  BY <1>1, OrderFacts
<1>3. Size(hp) \in Nat /\ \A x \in Taken(buckets) : x[1] \in 0 .. Size(hp) - 1
  BY <1>1, Sizes DEF Spot
<1>4. CASE p = EndOf(hp)
  <2>1. \A x \in Taken(buckets) : Before(x, p)
    BY <1>3, <1>4 DEF EndOf, Before
  <2>2. Preceding(buckets, p) = Taken(buckets)
    BY <2>1 DEF Preceding
  <2>3. Ordinal(buckets, p) = n
    BY <2>2, PrecedingFacts
  <2> HIDE DEF n, s
  <2>4. q = n + 1
    BY <1>2, <2>3
  <2>5. q \in 1 .. Len(s) + 1 /\ q = Len(s) + 1
    BY <1>2, <2>4
  <2> HIDE DEF q
  <2>6. LM!ItemAt(s, q) = "end"
    BY <2>5 DEF LM!ItemAt
  <2> QED
    BY <1>2, <1>4, <2>5, <2>6 DEF s, q
<1>5. CASE p # EndOf(hp)
  <2>1. p \in Taken(buckets)
    BY <1>1, <1>5, PlaceFacts DEF Taken
  <2>2. Ordinal(buckets, p) + 1 \in 1 .. n /\ s[Ordinal(buckets, p) + 1] = KeyAt(buckets, p)
        /\ Ordinal(buckets, p) \in Nat
    BY <1>2, <2>1, PrecedingFacts
  <2> HIDE DEF n, s
  <2>3. q = Ordinal(buckets, p) + 1
    BY <2>2
  <2>4. q \in 1 .. Len(s) /\ s[q] = KeyAt(buckets, p) /\ q # Len(s) + 1 /\ q \in 1 .. Len(s) + 1
    BY <1>2, <2>2, <2>3
  <2> HIDE DEF q
  <2>5. LM!ItemAt(s, q) = buckets[p[1]][p[2]].key
    BY <2>4 DEF LM!ItemAt, KeyAt
  <2> QED
    BY <1>2, <1>5, <2>1, <2>4, <2>5 DEF s, q
<1> QED
  BY <1>4, <1>5

LEMMA PlaceIsSome ==
  ASSUME TInv, NEW p, p = EndOf(hp) \/ Spot(hp, p)
  PROVE  p # None /\ p \in Places
<1>1. hp \in 0 .. MaxHp
  BY DEF TInv, Good
<1>2. Size(hp) \in Nat /\ 0 .. Size(hp) - 1 \subseteq Nat /\ SlotInds \subseteq Nat
  BY <1>1, Sizes, SizeAssumption DEF SlotInds
<1>3. p \in Nat \X Nat
  <2>1. EndOf(hp) \in Nat \X Nat
    BY <1>2 DEF EndOf
  <2>2. (0 .. Size(hp) - 1) \X SlotInds \subseteq Nat \X Nat
    BY <1>2
  <2> QED
    BY <2>1, <2>2 DEF Spot
<1> QED
  BY <1>3, PositionAssumption DEF Places

\* What is known within a session.
LEMMA SessionView ==
  ASSUME ViewInv, NEW t \in Threads, owner = t, locked, job.stage = "none"
  PROVE  /\ CInv /\ TInv /\ Data /\ Walks /\ late = {} /\ Ready /\ Holder = t
         /\ Listing = OrderOf(buckets)
         /\ Cursor = IF it # None THEN 1 + Ordinal(buckets, it) ELSE 0
         /\ my[t].pc # "build" /\ Walking(my[t], call[t], buckets, it, job.at)
         /\ Summing(my[t], call[t], counter)
         /\ my = [u \in Threads |-> my[u]] /\ call = [u \in Threads |-> call[u]]
<1>1. CInv /\ TInv /\ Data /\ Walks
  BY DEF ViewInv, TableInv
<1>2. InsideOK(t, my[t], call[t], owner, locked, job.stage, file)
  BY <1>1 DEF CInv, Inside
<1>3. my[t].pc # "build"
  BY <1>2 DEF InsideOK
<1>4. Ready
  BY <1>3 DEF Ready, Building, At
<1>5. late = {}
  BY <1>1, <1>4 DEF Walks
<1>6. Walking(my[t], call[t], buckets, it, job.at) /\ Summing(my[t], call[t], counter)
  BY <1>1 DEF Walks, Session
<1>7. my = [u \in Threads |-> my[u]] /\ call = [u \in Threads |-> call[u]]
  BY <1>1 DEF CInv
<1> QED
  BY <1>1, <1>3, <1>4, <1>5, <1>6, <1>7, InView

\* Afterwards, if the owner is still in its session.
LEMMA SessionWalks ==
  ASSUME ViewInv, NEW t \in Threads, owner = t, locked, job.stage = "none",
         UNCHANGED <<owner, locked>>, NEW m, NEW c,
         my' = [my EXCEPT ![t] = m], call' = [call EXCEPT ![t] = c], m.pc # "build",
         late' = {}, Walking(m, c, buckets', it', job'.at), Summing(m, c, counter')
  PROVE  /\ Walks' /\ Holder' = t /\ Listing' = OrderOf(buckets')
         /\ Cursor' = IF it' # None THEN 1 + Ordinal(buckets', it') ELSE 0
<1>1. /\ CInv /\ my = [u \in Threads |-> my[u]]
  BY SessionView
<1>2. Walks'
  BY <1>1, OwnerAssumption, WalksStep
<1>3. my'[t] = m
  BY <1>1
<1>4. Ready'
  BY <1>3 DEF Ready, Building, At
<1> QED
  BY <1>2, <1>4, InView

\* An iterator that has arrived, where LockedMap moves it.
LEMMA ArriveMap ==
  ASSUME ViewInv, NEW t \in Threads, InSession(t), NEW p, Arrive(t, p),
         p = EndOf(hp) \/ (Spot(hp, p) /\ Occupied(buckets, p[1], p[2])),
         LET q == Ordinal(buckets, p)
         IN  \/ call[t].op = "begin" /\ q = 0
             \/ call[t].op = "end" /\ p = EndOf(hp)
             \/ call[t].op = "next" /\ it # None /\ q = Ordinal(buckets, it) + 1
             \/ call[t].op = "prev" /\ it # None /\ Ordinal(buckets, it) = q + 1
             \/ call[t].op = "settle" /\ it # None /\ q = Ordinal(buckets, it)
  PROVE  Walks' /\ Mapped
<1> DEFINE q == Ordinal(buckets, p)
           s == OrderOf(buckets)
           r == IF p = EndPos THEN "end" ELSE buckets[p[1]][p[2]].key
           o == Ordinal(buckets, it)
<1>1. /\ owner = t /\ locked /\ job.stage = "none" /\ call[t] # None
      /\ UNCHANGED table /\ UNCHANGED <<owner, locked, file>>
      /\ it' = p /\ Return(t, r)
  BY DEF InSession, Arrive
<1>2. /\ TInv /\ late = {} /\ Holder = t /\ Listing = s
      /\ Cursor = IF it # None THEN 1 + o ELSE 0
  BY <1>1, SessionView
<1>3. /\ Len(s) \in Nat /\ 1 + q \in 1 .. Len(s) + 1 /\ (p = EndOf(hp) => 1 + q = Len(s) + 1)
      /\ LM!ItemAt(s, 1 + q) = r
  BY <1>2, PlaceInList DEF EndPos, EndOf
<1>4. q \in Nat /\ o \in Nat
  BY PrecedingFacts
<1>5. /\ my' = [my EXCEPT ![t] = Idle] /\ call' = [call EXCEPT ![t] = None] /\ LM!Return(t, r)
  BY <1>1, ReturnIs
<1>6. late' = {} /\ UNCHANGED <<buckets, file>> /\ Content' = Content
  BY <1>1, <1>2, SameContent DEF table
<1>7. p # None
  BY <1>2, PlaceIsSome
<1>8. Walks' /\ Holder' = t /\ Listing' = s /\ Cursor' = 1 + q
  <2>1. Idle.pc = "idle"
    BY IdleIs
  <2>2. Walking(Idle, None, buckets', it', job'.at) /\ Summing(Idle, None, counter')
    BY <2>1, NoWalk
  <2>3. /\ Walks' /\ Holder' = t /\ Listing' = OrderOf(buckets')
        /\ Cursor' = IF it' # None THEN 1 + Ordinal(buckets', it') ELSE 0
    BY <1>1, <1>5, <1>6, <2>1, <2>2, SessionWalks
  <2> QED
    BY <1>1, <1>6, <1>7, <2>3
<1>9. UNCHANGED Stream
  BY <1>6 DEF Stream, ContentOf, OrderOf, Ordinal
<1>10. \/ call[t].op = "begin" /\ q = 0
       \/ call[t].op = "end" /\ p = EndOf(hp)
       \/ call[t].op = "next" /\ it # None /\ q = o + 1
       \/ call[t].op = "prev" /\ it # None /\ o = q + 1
       \/ call[t].op = "settle" /\ it # None /\ q = o
  OBVIOUS
<1> HIDE DEF q, s, r, o
<1>11. UNCHANGED <<Content, Holder, Listing, Stream>>
  BY <1>2, <1>6, <1>8, <1>9
<1>12. \A i : i = 1 + q => LM!MoveTo(t, i)
  BY <1>2, <1>3, <1>5, <1>8, <1>11 DEF LM!MoveTo
<1>13. LM!OwnerStep(t)
  <2>1. CASE call[t].op = "begin" /\ q = 0
    BY <1>1, <1>2, <1>12, <2>1 DEF LM!OwnerStep
  <2>2. CASE call[t].op = "end" /\ p = EndOf(hp)
    BY <1>1, <1>2, <1>3, <1>12, <2>2 DEF LM!OwnerStep
  <2>3. CASE call[t].op = "next" /\ it # None /\ q = o + 1
    <3>1. Cursor + 1 = 1 + q
      BY <1>2, <1>4, <2>3
    <3> QED
      BY <1>1, <1>2, <1>12, <2>3, <3>1 DEF LM!OwnerStep
  <2>4. CASE call[t].op = "prev" /\ it # None /\ o = q + 1
    <3>1. Cursor - 1 = 1 + q
      BY <1>2, <1>4, <2>4
    <3> QED
      BY <1>1, <1>2, <1>12, <2>4, <3>1 DEF LM!OwnerStep
  <2>5. CASE call[t].op = "settle" /\ it # None /\ q = o
    <3>1. Cursor = 1 + q /\ UNCHANGED Cursor
      BY <1>2, <1>4, <1>8, <2>5
    <3>2. LM!Settle(t)
      BY <1>2, <1>3, <1>5, <1>11, <3>1 DEF LM!Settle, LM!session
    <3> QED
      BY <1>1, <1>2, <2>5, <3>2 DEF LM!OwnerStep
  <2> QED
    BY <1>10, <2>1, <2>2, <2>3, <2>4, <2>5
<1> QED
  BY <1>8, <1>13, InLM

\* An iterator that looks on.
LEMMA LookMap ==
  ASSUME ViewInv, NEW t \in Threads, InSession(t), NEW m, NEW p,
         Stay, my' = [my EXCEPT ![t] = m], UNCHANGED it, job'.at = p,
         m.pc \in {"forward", "backward"}, Walking(m, call[t], buckets, it, p)
  PROVE  Walks' /\ Mapped
<1>1. /\ owner = t /\ locked /\ job.stage = "none"
      /\ UNCHANGED table /\ UNCHANGED <<owner, locked, file>> /\ UNCHANGED <<call, ret>>
  BY DEF InSession, Stay
<1>2. /\ late = {} /\ Holder = t /\ Listing = OrderOf(buckets)
      /\ Cursor = IF it # None THEN 1 + Ordinal(buckets, it) ELSE 0
      /\ call = [u \in Threads |-> call[u]]
  BY <1>1, SessionView
<1>3. late' = {} /\ UNCHANGED <<buckets, file>> /\ Content' = Content
  BY <1>1, <1>2, SameContent DEF table
<1>4. call' = [call EXCEPT ![t] = call[t]]
  BY <1>1, <1>2
<1>5. Walking(m, call[t], buckets', it', job'.at) /\ Summing(m, call[t], counter')
  BY <1>3 DEF Summing
<1>6. /\ Walks' /\ Holder' = t /\ Listing' = OrderOf(buckets')
      /\ Cursor' = IF it' # None THEN 1 + Ordinal(buckets', it') ELSE 0
  BY <1>1, <1>3, <1>4, <1>5, SessionWalks
<1>7. UNCHANGED <<Holder, Listing, Cursor>>
  BY <1>2, <1>3, <1>6
<1>8. UNCHANGED Stream
  BY <1>3 DEF Stream, ContentOf, OrderOf, Ordinal
<1> QED
  BY <1>1, <1>3, <1>6, <1>7, <1>8, SameMap DEF Mapped

\* The places of the elements, and the steps of the loops between them.
LEMMA LoopSteps ==
  ASSUME TInv
  PROVE  LET X == Taken(buckets) IN
         /\ \A i : Spot(hp, i) => \A x \in X : Before(x, <<i[1], i[2] + 1>>) <=> Before(x, i) \/ x = i
         /\ \A a : ForwardFrom(hp, a) /\ a[1] # Size(hp) /\ a \notin X =>
              \A x \in X : Before(x, StepForward(a)) <=> Before(x, a)
         /\ \A i : (i = EndOf(hp) \/ Spot(hp, i)) =>
              \A x \in X : Before(x, i) <=> Before(x, StepBackward(i)) \/ x = StepBackward(i)
         /\ \A x \in X : ~Before(x, <<0, 0>>)
<1> DEFINE X == Taken(buckets)
           n == Size(hp)
           m == SlotPerBucket
<1>1. /\ n \in Nat \ {0} /\ m \in Nat \ {0} /\ SlotInds = 0 .. m - 1
  BY Sizes, SizeAssumption DEF TInv, Good, SlotInds
<1>2. \A x \in X : Spot(hp, x)
  BY PlaceFacts DEF TInv
<1>3. ASSUME NEW x \in X
      PROVE  x = <<x[1], x[2]>> /\ x[1] \in 0 .. n - 1 /\ x[2] \in 0 .. m - 1
  BY <1>1, <1>2, <1>3 DEF Spot
<1> HIDE DEF X
<1>4. ASSUME NEW i, Spot(hp, i), NEW x \in X
      PROVE  Before(x, <<i[1], i[2] + 1>>) <=> Before(x, i) \/ x = i
  <2>1. i = <<i[1], i[2]>> /\ i[1] \in 0 .. n - 1 /\ i[2] \in 0 .. m - 1
    BY <1>1, <1>4 DEF Spot
  <2> DEFINE i1 == i[1]
             i2 == i[2]
             x1 == x[1]
             x2 == x[2]
  <2>2. x = i <=> x1 = i1 /\ x2 = i2
    BY <1>3, <2>1
  <2>3. Before(x, <<i1, i2 + 1>>) <=> x1 < i1 \/ (x1 = i1 /\ x2 < i2 + 1)
    BY DEF Before
  <2>4. Before(x, i) <=> x1 < i1 \/ (x1 = i1 /\ x2 < i2)
    BY DEF Before
  <2>5. x2 \in Nat /\ i2 \in Nat
    BY <1>1, <1>3, <2>1
  <2> HIDE DEF i1, i2, x1, x2
  <2> QED
    BY <2>2, <2>3, <2>4, <2>5 DEF i1, i2
<1>5. ASSUME NEW a, ForwardFrom(hp, a), a[1] # n, a \notin X, NEW x \in X
      PROVE  Before(x, StepForward(a)) <=> Before(x, a)
  <2> DEFINE a1 == a[1]
             a2 == a[2]
             x1 == x[1]
             x2 == x[2]
  <2>1. a = <<a1, a2>> /\ a1 \in 0 .. n - 1 /\ a2 \in 0 .. m
    <3>1. a # EndOf(hp)
      BY <1>5 DEF EndOf
    <3> QED
      BY <1>5, <3>1 DEF ForwardFrom
  <2>2. ~(x1 = a1 /\ x2 = a2)
    BY <1>3, <1>5, <2>1
  <2>3. x1 \in Nat /\ a1 \in Nat /\ x2 \in Nat /\ a2 \in Nat /\ x2 < m
    BY <1>1, <1>3, <2>1
  <2>4. Before(x, a) <=> x1 < a1 \/ (x1 = a1 /\ x2 < a2)
    BY DEF Before
  <2>5. CASE a2 < m
    <3>1. StepForward(a) = <<a1, a2 + 1>>
      BY <2>5 DEF StepForward
    <3>2. Before(x, StepForward(a)) <=> x1 < a1 \/ (x1 = a1 /\ x2 < a2 + 1)
      BY <3>1 DEF Before
    <3> HIDE DEF a1, a2, x1, x2
    <3> QED
      BY <2>2, <2>3, <2>4, <3>2
  <2>6. CASE ~(a2 < m)
    <3>1. StepForward(a) = <<a1 + 1, 0>>
      BY <2>6 DEF StepForward
    <3>2. Before(x, StepForward(a)) <=> x1 < a1 + 1 \/ (x1 = a1 + 1 /\ x2 < 0)
      BY <3>1 DEF Before
    <3> HIDE DEF a1, a2, x1, x2, m
    <3> QED
      BY <1>1, <2>3, <2>4, <2>6, <3>2
  <2> QED
    BY <2>5, <2>6
<1>6. ASSUME NEW i, i = EndOf(hp) \/ Spot(hp, i), NEW x \in X
      PROVE  Before(x, i) <=> Before(x, StepBackward(i)) \/ x = StepBackward(i)
  <2> DEFINE i1 == i[1]
             i2 == i[2]
             x1 == x[1]
             x2 == x[2]
             j == StepBackward(i)
  <2>1. i1 \in Nat /\ i2 \in Nat
    BY <1>1, <1>6 DEF EndOf, Spot
  <2>2. x = <<x1, x2>> /\ x1 \in Nat /\ x2 \in Nat /\ x2 <= m - 1
    BY <1>1, <1>3
  <2>3. Before(x, i) <=> x1 < i1 \/ (x1 = i1 /\ x2 < i2)
    BY DEF Before
  <2>4. CASE i2 = 0
    <3>1. j = <<i1 - 1, m - 1>>
      BY <2>4 DEF StepBackward
    <3>2. Before(x, j) <=> x1 < i1 - 1 \/ (x1 = i1 - 1 /\ x2 < m - 1)
      BY <3>1 DEF Before
    <3>3. x = j <=> x1 = i1 - 1 /\ x2 = m - 1
      BY <2>2, <3>1
    <3> HIDE DEF i1, i2, x1, x2, m, j
    <3>4. x1 < i1 <=> x1 < i1 - 1 \/ (x1 = i1 - 1 /\ x2 < m - 1) \/ (x1 = i1 - 1 /\ x2 = m - 1)
      BY <1>1, <2>1, <2>2
    <3> QED
      BY <2>2, <2>3, <2>4, <3>2, <3>3, <3>4 DEF j
  <2>5. CASE i2 # 0
    <3>1. j = <<i1, i2 - 1>>
      BY <2>5 DEF StepBackward
    <3>2. Before(x, j) <=> x1 < i1 \/ (x1 = i1 /\ x2 < i2 - 1)
      BY <3>1 DEF Before
    <3>3. x = j <=> x1 = i1 /\ x2 = i2 - 1
      BY <2>2, <3>1
    <3> HIDE DEF i1, i2, x1, x2, m, j
    <3> QED
      BY <2>1, <2>2, <2>3, <2>5, <3>2, <3>3 DEF j
  <2> QED
    BY <2>4, <2>5
<1>7. ASSUME NEW x \in X PROVE ~Before(x, <<0, 0>>)
  <2>1. x[1] \in Nat /\ x[2] \in Nat
    BY <1>1, <1>3
  <2> QED
    BY <2>1 DEF Before
<1> QED
  BY <1>4, <1>5, <1>6, <1>7 DEF X

\* A place is that of an element if it is occupied.
LEMMA TakenSpot ==
  ASSUME TInv, NEW a, Spot(hp, a)
  PROVE  a \in Taken(buckets) <=> Occupied(buckets, a[1], a[2])
BY PlaceFacts DEF TInv, Taken

LEMMA FirstOrdinal ==
  ASSUME NEW tb, NEW a, \A x \in Taken(tb) : ~Before(x, a)
  PROVE  Ordinal(tb, a) = 0
<1>1. Preceding(tb, a) = {}
  BY DEF Preceding
<1> QED
  BY <1>1, PrecedingFacts, FS_EmptySet

\* What an iterator on its way has passed, where it arrives.
LEMMA WalkArrives ==
  ASSUME NEW m, NEW c, NEW tb, NEW i, NEW a, Walking(m, c, tb, i, a), m.pc \in {"forward", "backward"},
         m.pc = "backward" => a \in Taken(tb)
  PROVE  LET q == Ordinal(tb, a)
         IN  \/ c.op = "begin" /\ q = 0
             \/ c.op = "next" /\ i \in Taken(tb) /\ q = Ordinal(tb, i) + 1
             \/ c.op = "prev" /\ i # None /\ Ordinal(tb, i) = q + 1
             \/ c.op = "settle" /\ i # None /\ q = Ordinal(tb, i)
<1>1. CASE m.pc = "forward"
  <2>1. \/ c.op = "begin" /\ \A x \in Taken(tb) : ~Before(x, a)
        \/ c.op = "next" /\ i \in Taken(tb) /\ \A x \in Taken(tb) : Before(x, a) <=> Before(x, i) \/ x = i
        \/ c.op = "settle" /\ i # None /\ \A x \in Taken(tb) : Before(x, a) <=> Before(x, i)
    BY <1>1 DEF Walking
  <2> QED
    BY <2>1, FirstOrdinal, OrdinalNext, OrdinalSame
<1>2. CASE m.pc = "backward"
  <2>1. c.op = "prev" /\ i # None /\ \A x \in Taken(tb) : Before(x, i) <=> Before(x, a) \/ x = a
    BY <1>2 DEF Walking
  <2>2. Ordinal(tb, i) = Ordinal(tb, a) + 1
    BY <1>2, <2>1, OrdinalNext
  <2> QED
    BY <2>1, <2>2
<1> QED
  BY <1>1, <1>2

LEMMA ScanMap ==
  ASSUME ViewInv, NEW t \in Threads, ScanForward(t) \/ ScanBackward(t)
  PROVE  Walks' /\ Mapped
<1> DEFINE a == job.at
           X == Taken(buckets)
<1>1. InSession(t) /\ TableInv /\ owner = t /\ locked /\ job.stage = "none"
  BY IterationLooks DEF InSession, ViewInv, TableInv
<1>2. /\ CInv /\ TInv /\ SessionOK(my[t], call[t], hp, buckets, it, a) /\ hp \in 0 .. MaxHp
      /\ \A x \in X : Spot(hp, x)
  BY <1>1, SessionIs, PlaceFacts DEF TInv
<1>3. Walking(my[t], call[t], buckets, it, a) /\ my = [u \in Threads |-> my[u]]
  BY <1>1, SessionView
<1>4. \A x \in X : x # None
  BY <1>2, PlaceIsSome
<1>5. ASSUME Arrive(t, a), my[t].pc \in {"forward", "backward"}, my[t].pc = "backward" => a \in X,
             a = EndOf(hp) \/ (Spot(hp, a) /\ Occupied(buckets, a[1], a[2]))
      PROVE  Walks' /\ Mapped
  <2>1. \/ call[t].op = "begin" /\ Ordinal(buckets, a) = 0
        \/ call[t].op = "next" /\ it # None /\ Ordinal(buckets, a) = Ordinal(buckets, it) + 1
        \/ call[t].op = "prev" /\ it # None /\ Ordinal(buckets, it) = Ordinal(buckets, a) + 1
        \/ call[t].op = "settle" /\ it # None /\ Ordinal(buckets, a) = Ordinal(buckets, it)
    BY <1>3, <1>4, <1>5, WalkArrives
  <2> QED
    BY <1>1, <1>5, <2>1, ArriveMap
<1>6. ASSUME NEW p, Scans(t, p), Walking(my[t], call[t], buckets, it, p)
      PROVE  Walks' /\ Mapped
  <2>1. JobOK' /\ job'.at = p
    BY <1>2, <1>6, AtIs DEF Scans, CInv
  <2>2. my' = [my EXCEPT ![t] = my[t]]
    BY <1>3, <1>6 DEF Scans
  <2> QED
    BY <1>1, <1>6, <2>1, <2>2, LookMap DEF Scans
<1>7. CASE ScanForward(t)
  <2>1. my[t].pc = "forward" /\ ForwardFrom(hp, a)
    BY <1>2, <1>7 DEF ScanForward, At, SessionOK, ForwardFrom
  <2>2. CASE a[1] = Size(hp) \/ (a[2] < SlotPerBucket /\ Holds(a))
    <3>1. Arrive(t, a)
      BY <1>7, <2>2 DEF ScanForward
    <3>2. a = EndOf(hp) \/ (Spot(hp, a) /\ Occupied(buckets, a[1], a[2]))
      BY <1>2, <2>1, <2>2, ForwardFacts DEF Holds
    <3> QED
      BY <1>5, <2>1, <3>1, <3>2
  <2>3. CASE ~(a[1] = Size(hp) \/ (a[2] < SlotPerBucket /\ Holds(a)))
    <3>1. Scans(t, StepForward(a))
      BY <1>7, <2>1, <2>3 DEF ScanForward, Scans
    <3>2. a \notin X
      <4>1. ASSUME a \in X PROVE a[2] < SlotPerBucket /\ Occupied(buckets, a[1], a[2])
        BY <4>1, TakenFacts, SizeAssumption DEF SlotInds
      <4> QED
        BY <2>3, <4>1 DEF Holds
    <3>3. \A x \in X : Before(x, StepForward(a)) <=> Before(x, a)
      BY <1>2, <2>1, <2>3, <3>2, LoopSteps
    <3>4. Walking(my[t], call[t], buckets, it, StepForward(a))
      BY <1>3, <2>1, <3>3 DEF Walking
    <3> QED
      BY <1>6, <3>1, <3>4
  <2> QED
    BY <2>2, <2>3
<1>8. CASE ScanBackward(t)
  <2>1. my[t].pc = "backward" /\ Spot(hp, a)
    BY <1>2, <1>8 DEF ScanBackward, At, SessionOK
  <2>2. CASE Holds(a)
    <3>1. Arrive(t, a) /\ Occupied(buckets, a[1], a[2])
      BY <1>8, <2>2 DEF ScanBackward, Holds
    <3> QED
      BY <1>2, <1>5, <2>1, <3>1, TakenSpot
  <2>3. CASE ~Holds(a)
    <3>1. Scans(t, StepBackward(a))
      BY <1>8, <2>1, <2>3 DEF ScanBackward, Scans
    <3>2. a \notin X
      BY <1>2, <2>1, <2>3, TakenSpot DEF Holds
    <3>3. \A x \in X : Before(x, a) <=> Before(x, StepBackward(a)) \/ x = StepBackward(a)
      BY <1>2, <2>1, LoopSteps
    <3>4. Walking(my[t], call[t], buckets, it, StepBackward(a))
      BY <1>3, <2>1, <3>2, <3>3 DEF Walking
    <3> QED
      BY <1>6, <3>1, <3>4
  <2> QED
    BY <2>2, <2>3
<1> QED
  BY <1>7, <1>8

LEMMA IterateMap ==
  ASSUME ViewInv, NEW t \in Threads, Iterate(t)
  PROVE  Walks' /\ Mapped
<1> DEFINE X == Taken(buckets)
<1>1. InSession(t) /\ TableInv /\ owner = t /\ locked /\ job.stage = "none"
  BY IterationLooks DEF InSession, ViewInv, TableInv
<1>2. /\ CInv /\ TInv /\ SessionOK(my[t], call[t], hp, buckets, it, job.at) /\ hp \in 0 .. MaxHp
      /\ \A x \in X : Spot(hp, x)
      /\ Spot(hp, <<0, 0>>)
  BY <1>1, SessionIs, PlaceFacts DEF TInv
<1>3. my[t].pc = "start" /\ call[t].op \in {"begin", "end", "next", "settle", "prev"} /\ call[t].op = Op(t)
  BY DEF Iterate, At, Op
<1>4. ASSUME NEW w \in {"forward", "backward"}, NEW p, Loops(t, w, p),
             \A m : m.pc = w => Walking(m, call[t], buckets, it, p)
      PROVE  Walks' /\ Mapped
  <2> DEFINE m == [Idle EXCEPT !.pc = w]
  <2>1. job'.at = p
    BY <1>4, AtIs DEF Loops
  <2>2. m.pc = w /\ my' = [my EXCEPT ![t] = m]
    BY <1>4, IdleIs DEF Loops, Go
  <2> HIDE DEF m
  <2> QED
    BY <1>1, <1>4, <2>1, <2>2, LookMap DEF Loops
<1>5. ASSUME NEW p, Spot(hp, p), Advance(t, p), p \notin X,
             \/ call[t].op = "begin" /\ \A x \in X : ~Before(x, p)
             \/ call[t].op = "settle" /\ it = p
      PROVE  Walks' /\ Mapped
  <2>1. Loops(t, "forward", <<p[1], p[2] + 1>>)
    BY <1>5 DEF Advance, Loops
  <2>2. \A x \in X : Before(x, <<p[1], p[2] + 1>>) <=> Before(x, p)
    BY <1>2, <1>5, LoopSteps
  <2>3. p # None
    BY <1>2, <1>5, PlaceIsSome
  <2>4. \A m : m.pc = "forward" => Walking(m, call[t], buckets, it, <<p[1], p[2] + 1>>)
    BY <1>5, <2>2, <2>3 DEF Walking
  <2> QED
    BY <1>4, <2>1, <2>4
<1>6. ASSUME NEW p, Spot(hp, p), Construct(t, p),
             \/ call[t].op = "begin" /\ \A x \in X : ~Before(x, p)
             \/ call[t].op = "settle" /\ it = p
      PROVE  Walks' /\ Mapped
  <2>1. CASE p = EndPos \/ Holds(p)
    <3>1. Arrive(t, p)
      BY <1>6, <2>1 DEF Construct
    <3>2. p = EndOf(hp) \/ (Spot(hp, p) /\ Occupied(buckets, p[1], p[2]))
      BY <1>6, <2>1 DEF EndPos, EndOf, Holds
    <3>3. p # None
      BY <1>2, <1>6, PlaceIsSome
    <3>4. \/ call[t].op = "begin" /\ Ordinal(buckets, p) = 0
          \/ call[t].op = "settle" /\ it # None /\ Ordinal(buckets, p) = Ordinal(buckets, it)
      BY <1>6, <3>3, FirstOrdinal
    <3> QED
      BY <1>1, <3>1, <3>2, <3>4, ArriveMap
  <2>2. CASE ~(p = EndPos \/ Holds(p))
    <3>1. p \notin X
      BY <1>2, <1>6, <2>2, TakenSpot DEF Holds
    <3> QED
      BY <1>5, <1>6, <2>2, <3>1 DEF Construct
  <2> QED
    BY <2>1, <2>2
<1>7. CASE Op(t) = "begin"
  <2>1. Construct(t, <<0, 0>>) /\ \A x \in X : ~Before(x, <<0, 0>>)
    BY <1>2, <1>7, LoopSteps DEF Iterate
  <2> QED
    BY <1>2, <1>3, <1>6, <1>7, <2>1
<1>8. CASE Op(t) = "settle"
  <2>1. Spot(hp, it) /\ Construct(t, it)
    BY <1>2, <1>3, <1>8 DEF SessionOK, Iterate
  <2> QED
    BY <1>3, <1>6, <1>8, <2>1
<1>9. CASE Op(t) = "end"
  <2>1. Arrive(t, EndOf(hp))
    BY <1>9 DEF Iterate, EndPos, EndOf
  <2> QED
    BY <1>1, <1>3, <1>9, <2>1, ArriveMap
<1>10. CASE Op(t) = "next"
  <2>1. Spot(hp, it) /\ Occupied(buckets, it[1], it[2])
    BY <1>2, <1>3, <1>10 DEF SessionOK
  <2>2. it \in X
    BY <1>2, <2>1, TakenSpot
  <2>3. \A x \in X : Before(x, <<it[1], it[2] + 1>>) <=> Before(x, it) \/ x = it
    BY <1>2, <2>1, LoopSteps
  <2>4. Loops(t, "forward", <<it[1], it[2] + 1>>)
    BY <1>10 DEF Iterate, Advance, Loops
  <2>5. \A m : m.pc = "forward" => Walking(m, call[t], buckets, it, <<it[1], it[2] + 1>>)
    BY <1>3, <1>10, <2>2, <2>3 DEF Walking
  <2> QED
    BY <1>4, <2>4, <2>5
<1>11. CASE Op(t) = "prev"
  <2>1. it # None /\ (it = EndOf(hp) \/ Spot(hp, it))
    BY <1>2, <1>3, <1>11 DEF SessionOK
  <2>2. \A x \in X : Before(x, it) <=> Before(x, StepBackward(it)) \/ x = StepBackward(it)
    BY <1>2, <2>1, LoopSteps
  <2>3. Loops(t, "backward", StepBackward(it))
    BY <1>11 DEF Iterate, Loops
  <2>4. \A m : m.pc = "backward" => Walking(m, call[t], buckets, it, StepBackward(it))
    BY <1>3, <1>11, <2>1, <2>2 DEF Walking
  <2> QED
    BY <1>4, <2>3, <2>4
<1> QED
  BY <1>3, <1>7, <1>8, <1>9, <1>10, <1>11

-----------------------------------------------------------------------------
(* The other calls to a locked_table.                                       *)

\* Where a key is, and what the map has for it.
LEMMA KeyHeld ==
  ASSUME TInv, late = {}, NEW k \in Keys
  PROVE  /\ \A x : x \in Positions(buckets, k) <=> x \in Taken(buckets) /\ KeyAt(buckets, x) = k
         /\ Positions(buckets, k) = {} => Content[k] = None
         /\ \A x \in Positions(buckets, k) : buckets[x[1]][x[2]].val = Content[k] /\ Content[k] # None
<1>1. Represents(hp, buckets, Empty, {}, Content)
  BY Shown
<1> DEFINE store == Content
           tb == buckets
           lt == {}
<1>2. Represents(hp, tb, Empty, lt, store) /\ LocksOf(Own(k)) \cap lt = {}
  BY <1>1
<1>3. \A x : x \in Positions(buckets, k) => x \in Taken(buckets) /\ KeyAt(buckets, x) = k
  <2>1. Own(k) \subseteq BucketInds
    BY LocksOfFacts
  <2> QED
    BY <2>1, PositionFacts DEF Taken, KeyAt
<1>4. ASSUME NEW x \in Taken(buckets), KeyAt(buckets, x) = k PROVE x \in Positions(buckets, k)
  <2>1. Spot(hp, x) /\ Occupied(buckets, x[1], x[2])
    BY TakenFacts, PlaceFacts DEF TInv
  <2> QED
    BY <1>4, <2>1, AtElement DEF KeyAt
<1> HIDE DEF store, tb, lt
<1>5. /\ Positions(tb, k) = {} => store[k] = None
      /\ \A x \in Positions(tb, k) : tb[x[1]][x[2]] = [key |-> k, val |-> store[k]] /\ store[k] # None
  BY <1>2, LookUp
<1>6. \A x \in Positions(tb, k) : tb[x[1]][x[2]].val = store[k] /\ store[k] # None
  BY <1>5
<1> QED
  BY <1>3, <1>4, <1>5, <1>6 DEF store, tb

LEMMA StartView ==
  ASSUME ViewInv, NEW t \in Threads, Session(t), my[t].pc = "start"
  PROVE  /\ owner = t /\ locked /\ job.stage = "none" /\ call[t] # None
         /\ TableInv /\ TInv /\ Data /\ late = {} /\ old = Empty
         /\ SessionOK(my[t], call[t], hp, buckets, it, job.at)
         /\ Holder = t /\ Listing = OrderOf(buckets)
         /\ Cursor = IF it # None THEN 1 + Ordinal(buckets, it) ELSE 0
         /\ my = [u \in Threads |-> my[u]] /\ my[t] = Restart
<1>1. TableInv
  BY DEF ViewInv
<1>2. /\ TInv /\ Data /\ owner = t /\ locked /\ job.stage = "none" /\ late = {} /\ old = Empty
      /\ SessionOK(my[t], call[t], hp, buckets, it, job.at)
  BY <1>1, InStart
<1>3. call[t] # None
  BY <1>2, InCall DEF At
<1>4. /\ Holder = t /\ Listing = OrderOf(buckets)
      /\ Cursor = IF it # None THEN 1 + Ordinal(buckets, it) ELSE 0
      /\ my = [u \in Threads |-> my[u]] /\ Summing(my[t], call[t], counter)
  BY <1>2, SessionView
<1>5. my[t] = Restart
  BY <1>4 DEF Summing
<1> QED
  BY <1>1, <1>2, <1>3, <1>4, <1>5

LEMMA ReturnView ==
  ASSUME ViewInv, NEW t \in Threads, Session(t), my[t].pc = "start", NEW r, Return(t, r),
         UNCHANGED <<owner, locked>>, late' = {}
  PROVE  /\ LM!Return(t, r) /\ Walks' /\ Holder' = t /\ Listing' = OrderOf(buckets')
         /\ Cursor' = IF it' # None THEN 1 + Ordinal(buckets', it') ELSE 0
<1>1. /\ my' = [my EXCEPT ![t] = Idle] /\ call' = [call EXCEPT ![t] = None] /\ LM!Return(t, r)
  BY ReturnIs
<1>2. owner = t /\ locked /\ job.stage = "none"
  BY StartView
<1>3. Idle.pc = "idle"
  BY IdleIs
<1>4. Walking(Idle, None, buckets', it', job'.at) /\ Summing(Idle, None, counter')
  BY <1>3, NoWalk
<1> QED
  BY <1>1, <1>2, <1>3, <1>4, SessionWalks

LEMMA SameStream == UNCHANGED file => UNCHANGED Stream
BY DEF Stream, ContentOf, OrderOf, Ordinal

LEMMA UnlockMap ==
  ASSUME ViewInv, NEW t \in Threads, Unlock(t)
  PROVE  Walks' /\ Mapped
<1>1. /\ Session(t) /\ my[t].pc = "start" /\ call[t].op = "unlock" /\ owner' = None /\ ~locked' /\ it' = None
      /\ Return(t, "yes") /\ UNCHANGED table /\ UNCHANGED <<job, file>>
  BY DEF Unlock, At, Op
<1>2. CInv /\ Holder = t /\ call[t] # None
  BY <1>1, StartView DEF TableInv
<1>3. /\ my' = [my EXCEPT ![t] = Idle] /\ call' = [call EXCEPT ![t] = None] /\ LM!Return(t, "yes")
  BY <1>1, ReturnIs
<1>4. ~Ready'
  BY <1>1 DEF Ready
<1>5. Walks'
  BY <1>1, <1>2, <1>3, <1>4, OwnerAssumption, WalksStep
<1>6. Holder' = None /\ Listing' = <<>> /\ Cursor' = 0
  BY <1>4, NotReady
<1>7. LM!Unlock(t)
  BY <1>1, <1>3, <1>6, SameContent, SameStream DEF LM!Unlock
<1>8. LM!OwnerStep(t)
  BY <1>1, <1>2, <1>7 DEF LM!OwnerStep
<1> QED
  BY <1>5, <1>8, InLM

LEMMA FindItMap ==
  ASSUME ViewInv, NEW t \in Threads, FindIt(t)
  PROVE  Walks' /\ Mapped
<1> DEFINE k == Key(t)
           s == OrderOf(buckets)
           goal == IF LM!Present(k) THEN k ELSE "end"
<1>1. /\ Session(t) /\ my[t].pc = "start" /\ UNCHANGED table /\ UNCHANGED <<owner, locked, job, file>>
      /\ call[t].op = "find"
      /\ \/ Positions(buckets, k) = {} /\ it' = EndPos /\ Return(t, None)
         \/ \E x \in Positions(buckets, k) : it' = x /\ Return(t, buckets[x[1]][x[2]].val)
  BY DEF FindIt, At, Op
<1>2. /\ TInv /\ Data /\ late = {} /\ Holder = t /\ Listing = s /\ call[t] # None
  BY <1>1, StartView
<1>3. k \in Keys
  BY <1>1, <1>2, InCall DEF At, Op
<1>4. late' = {} /\ UNCHANGED buckets /\ Content' = Content
  BY <1>1, <1>2, SameContent DEF table
<1>5. buckets \in Table /\ Once(buckets)
  <2>1. Represents(hp, buckets, Empty, {}, Content)
    BY <1>2, Shown
  <2> QED
    BY <2>1, ShownBy
<1>6. \E x : /\ x = EndOf(hp) \/ (x \in Positions(buckets, k) /\ Spot(hp, x) /\ Occupied(buckets, x[1], x[2]))
             /\ it' = x /\ Return(t, Content[k])
             /\ x = EndOf(hp) => Content[k] = None
             /\ x # EndOf(hp) => Content[k] # None /\ KeyAt(buckets, x) = k
  <2>1. CASE Positions(buckets, k) = {} /\ it' = EndPos /\ Return(t, None)
    BY <1>2, <1>3, <2>1, KeyHeld DEF EndPos, EndOf
  <2>2. ASSUME NEW x \in Positions(buckets, k), it' = x, Return(t, buckets[x[1]][x[2]].val)
        PROVE  /\ Spot(hp, x) /\ Occupied(buckets, x[1], x[2]) /\ x # EndOf(hp)
               /\ Return(t, Content[k]) /\ Content[k] # None /\ KeyAt(buckets, x) = k
    <3>1. x \in Taken(buckets) /\ KeyAt(buckets, x) = k /\ Return(t, Content[k]) /\ Content[k] # None
      BY <1>2, <1>3, <2>2, KeyHeld
    <3>2. Spot(hp, x) /\ Occupied(buckets, x[1], x[2]) /\ hp \in 0 .. MaxHp
      BY <1>2, <3>1, TakenFacts, PlaceFacts DEF TInv, Good
    <3>3. x # EndOf(hp)
      BY <3>2, Sizes DEF Spot, EndOf
    <3> QED
      BY <3>1, <3>2, <3>3
  <2> QED
    BY <1>1, <2>1, <2>2
<1>7. PICK x : /\ x = EndOf(hp) \/ (x \in Positions(buckets, k) /\ Spot(hp, x) /\ Occupied(buckets, x[1], x[2]))
               /\ it' = x /\ Return(t, Content[k])
               /\ x = EndOf(hp) => Content[k] = None
               /\ x # EndOf(hp) => Content[k] # None /\ KeyAt(buckets, x) = k
  BY <1>6
<1> DEFINE q == 1 + Ordinal(buckets, x)
<1>8. /\ LM!Return(t, Content[k]) /\ Walks' /\ Holder' = t /\ Listing' = s /\ Cursor' = q
  <2>1. x # None
    BY <1>2, <1>7, PlaceIsSome
  <2> QED
    BY <1>1, <1>4, <1>7, <2>1, ReturnView
<1>9. /\ s \in Seq(Keys) /\ Len(s) \in Nat /\ q \in 1 .. Len(s) + 1
      /\ x = EndOf(hp) => q = Len(s) + 1
      /\ x # EndOf(hp) => q \in 1 .. Len(s) /\ s[q] = k
  BY <1>2, <1>7, PlaceInList
<1>10. /\ \A i, j \in 1 .. Len(s) : s[i] = s[j] => i = j
       /\ \A i \in 1 .. Len(s) : s[i] \in Keys
  <2>1. Len(s) = Cardinality(Taken(buckets)) /\ DOMAIN s = 1 .. Len(s)
    BY <1>5, OrderFacts
  <2>2. \A i, j \in 1 .. Cardinality(Taken(buckets)) : s[i] = s[j] => i = j
    BY <1>5, OrderOnce
  <2> HIDE DEF s
  <2> QED
    BY <1>9, <2>1, <2>2
<1>11. goal = IF x = EndOf(hp) THEN "end" ELSE k
  BY <1>7 DEF LM!Present
<1> HIDE DEF s, q, goal
<1>12. q = CHOOSE i \in 1 .. Len(s) + 1 : LM!ItemAt(s, i) = goal
  <2>1. \A i \in 1 .. Len(s) + 1 : LM!ItemAt(s, i) = goal <=> i = q
    <3>1. CASE x = EndOf(hp)
      BY <1>9, <1>10, <1>11, <3>1, EndAssumption DEF LM!ItemAt
    <3>2. CASE x # EndOf(hp)
      BY <1>3, <1>9, <1>10, <1>11, <3>2, EndAssumption DEF LM!ItemAt
    <3> QED
      BY <3>1, <3>2
  <2> QED
    BY <1>9, <2>1
<1>13. LM!FindIt(t, k)
  BY <1>1, <1>2, <1>4, <1>8, <1>12, SameStream DEF LM!FindIt, goal
<1>14. LM!OwnerStep(t)
  BY <1>1, <1>2, <1>13 DEF LM!OwnerStep, Key
<1> QED
  BY <1>8, <1>14, InLM

LEMMA ClearAllMap ==
  ASSUME ViewInv, NEW t \in Threads, ClearAll(t)
  PROVE  Walks' /\ Mapped
<1>1. /\ Session(t) /\ my[t].pc = "start" /\ call[t].op = "clear" /\ Step(t) /\ Clear(t) /\ Return(t, "yes")
      /\ it' = None /\ late' = {} /\ buckets' = Empty /\ UNCHANGED <<owner, locked, job, file>>
  BY DEF ClearAll, Clear, At, Step, Op
<1>2. TInv /\ Holder = t /\ call[t] # None
  BY <1>1, StartView
<1>3. KVM!Perform(t)
  BY <1>1, <1>2, ClearStep DEF Performs
<1>4. LM!Clear(t)
  BY <1>1, <1>3, SamePerform DEF LM!Perform, LM!Insertions
<1>5. Walks' /\ Holder' = t /\ Listing' = OrderOf(buckets') /\ Cursor' = 0
  BY <1>1, ReturnView
<1>6. Listing' = <<>>
  <2>1. Taken(Empty) = {}
    BY TakenFacts DEF Empty, NoEntry, Occupied
  <2>2. Cardinality(Taken(Empty)) = 0
    BY <2>1, FS_EmptySet
  <2>3. Empty \in Table
    BY EmptyFacts
  <2>4. OrderOf(Empty) \in Seq(Keys) /\ Len(OrderOf(Empty)) = 0
    BY <2>2, <2>3, OrderFacts
  <2> QED
    BY <1>1, <1>5, <2>4
<1>7. LM!ClearAll(t)
  BY <1>1, <1>2, <1>4, <1>5, <1>6, SameStream DEF LM!ClearAll
<1>8. LM!OwnerStep(t)
  BY <1>1, <1>2, <1>7 DEF LM!OwnerStep
<1> QED
  BY <1>5, <1>8, InLM

LEMMA SaveMap ==
  ASSUME ViewInv, NEW t \in Threads, Save(t)
  PROVE  Walks' /\ Mapped
<1>1. /\ Session(t) /\ my[t].pc = "start" /\ call[t].op = "save" /\ UNCHANGED table
      /\ file' = [hp |-> hp, buckets |-> buckets, size |-> Elements] /\ Return(t, "yes")
      /\ UNCHANGED <<owner, locked, job, it>>
  BY DEF Save, At, Op
<1>2. /\ TInv /\ late = {} /\ old = Empty /\ Holder = t /\ Listing = OrderOf(buckets) /\ call[t] # None
      /\ Cursor = IF it # None THEN 1 + Ordinal(buckets, it) ELSE 0
  BY <1>1, StartView
<1>3. late' = {} /\ UNCHANGED buckets /\ Content' = Content
  BY <1>1, <1>2, SameContent DEF table
<1>4. /\ LM!Return(t, "yes") /\ Walks' /\ UNCHANGED <<Holder, Listing, Cursor>>
  BY <1>1, <1>2, <1>3, ReturnView
<1>5. file'.buckets = buckets /\ file' # None
  <2>1. Elements = Cardinality(Taken(buckets))
    BY <1>2, NoOldElements
  <2>2. hp \in Nat /\ buckets \in Table /\ Elements \in Nat
    BY <1>2, <2>1, TakenFacts DEF TInv, Good
  <2> QED
    BY <1>1, <2>2, StreamAssumption
<1>6. Stream' = [store |-> ContentOf(buckets), order |-> OrderOf(buckets)]
  BY <1>5 DEF Stream, ContentOf, OrderOf, Ordinal
<1>7. Stream' = [store |-> Content, order |-> Listing]
  BY <1>2, <1>6, ViewShown
<1>8. LM!Save(t)
  BY <1>3, <1>4, <1>7 DEF LM!Save
<1>9. LM!OwnerStep(t)
  BY <1>1, <1>2, <1>8 DEF LM!OwnerStep
<1> QED
  BY <1>4, <1>9, InLM

LEMMA LoadMap ==
  ASSUME ViewInv, TableInv', NEW t \in Threads, Load(t)
  PROVE  Walks' /\ Mapped
<1> DEFINE tb == file.buckets
<1>1. /\ Session(t) /\ my[t].pc = "start" /\ call[t].op = "load"
      /\ buckets' = tb /\ it' = None /\ file' = None /\ Return(t, "yes")
      /\ UNCHANGED <<late, owner, locked, job>>
  BY DEF Load, At, Op
<1>2. /\ TableInv /\ TInv /\ late = {} /\ Holder = t /\ call[t] # None
  BY <1>1, StartView
<1>3. file # None
  BY <1>1, <1>2, InStart
<1>4. late' = {} /\ TInv'
  BY <1>1, <1>2 DEF TableInv
<1>5. LM!Return(t, "yes") /\ Walks' /\ Holder' = t /\ Listing' = OrderOf(buckets') /\ Cursor' = 0
  BY <1>1, <1>4, ReturnView
<1>6. /\ ContentOf(buckets') = Content' /\ buckets' \in Table
      /\ Content' \in [Keys -> Vals \cup {None}]
  <2>1. Represents(hp', buckets', Empty, {}, Content')
    BY <1>4, Shown
  <2> DEFINE p == hp'
             b == buckets'
             c == Content'
  <2>2. Represents(p, b, Empty, {}, c)
    BY <2>1
  <2> HIDE DEF p, b, c
  <2>3. ContentOf(b) = c /\ b \in Table /\ c \in [Keys -> Vals \cup {None}]
    BY <2>2, ShownBy, ContentOfIs
  <2> QED
    BY <2>3 DEF p, b, c
<1>7. ContentOf(tb) = Content' /\ OrderOf(tb) = Listing' /\ OrderOf(tb) \in Seq(Keys)
  BY <1>1, <1>5, <1>6, OrderFacts
<1>8. Stream = [store |-> ContentOf(tb), order |-> OrderOf(tb)]
  BY <1>3 DEF Stream
<1>9. Stream.store = Content' /\ Stream.order = Listing' /\ Stream # None
  <2>1. Stream \in [store : [Keys -> Vals \cup {None}], order : Seq(Keys)]
    BY <1>6, <1>7, <1>8
  <2> QED
    BY <1>7, <1>8, <2>1, StreamAssumption
<1>10. Stream' = None
  BY <1>1 DEF Stream
<1>11. LM!Load(t)
  BY <1>2, <1>5, <1>9, <1>10 DEF LM!Load
<1>12. LM!OwnerStep(t)
  BY <1>1, <1>2, <1>11 DEF LM!OwnerStep
<1> QED
  BY <1>5, <1>12, InLM

\* The element that the iterator is at is erased; the iterator stays where it is.
LEMMA EraseAtMap ==
  ASSUME ViewInv, NEW t \in Threads, EraseAt(t)
  PROVE  Walks' /\ Mapped
<1> DEFINE b == it[1]
           r == it[2]
           k == buckets[b][r].key
           s == OrderOf(buckets)
           o == Ordinal(buckets, it)
           nothing == {}
<1>1. /\ Session(t) /\ my[t].pc = "start" /\ call[t].op = "erase_at"
      /\ Under(nothing, Put(buckets, b, r, None))
      /\ call' = [call EXCEPT ![t] = Settle] /\ UNCHANGED <<ret, my, left, inside>>
  BY DEF EraseAt, Delete, Settle, At, Op
<1>2. /\ TableInv /\ TInv /\ owner = t /\ locked /\ job.stage = "none" /\ call[t] # None
      /\ late = {} /\ Holder = t /\ Listing = s /\ Cursor = IF it # None THEN 1 + o ELSE 0
      /\ my = [u \in Threads |-> my[u]] /\ my[t] = Restart
  BY <1>1, StartView
<1>3. it # None /\ it # EndOf(hp) /\ Spot(hp, it) /\ Occupied(buckets, b, r)
  <2>1. SessionOK(my[t], call[t], hp, buckets, it, job.at)
    BY <1>1, StartView
  <2> QED
    BY <1>1, <2>1 DEF SessionOK
<1>4. it = <<b, r>> /\ b \in BucketInds /\ r \in SlotInds
  BY <1>2, <1>3, PlaceFacts DEF TInv
<1>5. Content' = [Content EXCEPT ![k] = None]
  BY <1>2, EraseAtData
<1>6. buckets \in Table /\ Once(buckets)
  <2>1. Represents(hp, buckets, Empty, {}, Content)
    BY <1>2, Shown
  <2> QED
    BY <2>1, ShownBy
<1>7. late' = {} /\ buckets' = Put(buckets, b, r, None)
  BY <1>1, <1>2 DEF Under
<1>8. Len(s) \in Nat /\ 1 + o \in 1 .. Len(s) /\ s[1 + o] = k
  BY <1>2, <1>3, PlaceInList DEF KeyAt
<1>9. OrderOf(buckets') = LM!Without(s, k)
  BY <1>3, <1>4, <1>6, <1>7, OrderWithout
<1>10. Ordinal(buckets', it) = o
  <2>1. ~Before(it, it)
    BY <1>2, <1>3, PlaceIsSome, BeforeFacts
  <2> QED
    BY <1>3, <1>4, <1>6, <1>7, <2>1, TakenWithout
<1>11. UNCHANGED <<owner, locked, job, it, file>>
  BY <1>1 DEF inside
<1>12. /\ my' = [my EXCEPT ![t] = Restart] /\ Restart.pc = "start"
  BY <1>1, <1>2, IdleIs
<1>13. Walks' /\ Holder' = t /\ Listing' = OrderOf(buckets') /\ Cursor' = 1 + o
  <2>1. Walking(Restart, Settle, buckets', it', job'.at) /\ Summing(Restart, Settle, counter')
    BY StartWalk
  <2> QED
    BY <1>1, <1>2, <1>3, <1>7, <1>10, <1>11, <1>12, <2>1, SessionWalks
<1> HIDE DEF s, o, k
<1>14. LM!EraseAt(t)
  <2>1. Cursor = 1 + o
    BY <1>2, <1>3
  <2>2. LM!Put(Listing[Cursor], None)
    BY <1>2, <1>5, <1>8, <2>1 DEF LM!Put
  <2> QED
    BY <1>1, <1>2, <1>8, <1>9, <1>11, <1>13, <2>1, <2>2, SameStream DEF LM!EraseAt, Settle
<1>15. LM!OwnerStep(t)
  BY <1>1, <1>2, <1>14 DEF LM!OwnerStep
<1> QED
  BY <1>13, <1>15, InLM

\* Where a place is in the list without the element at z.
LEMMA CursorWithout ==
  ASSUME TInv, Once(buckets), NEW z \in Taken(buckets), NEW k, KeyAt(buckets, z) = k,
         NEW nt, nt = Put(buckets, z[1], z[2], None),
         NEW i, i = EndOf(hp) \/ (Spot(hp, i) /\ Occupied(buckets, i[1], i[2])), i # z
  PROVE  LET s == OrderOf(buckets)
             q == 1 + Ordinal(buckets, i)
         IN  /\ LM!ItemAt(s, q) # k
             /\ 1 + Ordinal(nt, i) = IF \E j \in 1 .. q - 1 : s[j] = k THEN q - 1 ELSE q
<1> DEFINE s == OrderOf(buckets)
           o == Ordinal(buckets, i)
           oz == Ordinal(buckets, z)
<1>1. /\ buckets \in Table /\ hp \in 0 .. MaxHp /\ Size(hp) \in Nat
      /\ \A x \in Taken(buckets) : Spot(hp, x)
  BY PlaceFacts, Sizes DEF TInv, Good
<1>2. /\ z = <<z[1], z[2]>> /\ z[1] \in BucketInds /\ z[2] \in SlotInds
      /\ Occupied(buckets, z[1], z[2])
  BY TakenFacts
<1>3. Ordinal(nt, i) = IF Before(z, i) THEN o - 1 ELSE o
  BY <1>1, <1>2, TakenWithout
<1>4. /\ Len(s) \in Nat /\ Len(s) = Cardinality(Taken(buckets))
      /\ oz + 1 \in 1 .. Len(s) /\ s[oz + 1] = k /\ s \in Seq(Keys)
  BY <1>1, OrderFacts
<1>5. \A a, c \in 1 .. Len(s) : s[a] = s[c] => a = c
  BY <1>1, <1>4, OrderOnce
<1>6. /\ 1 + o \in 1 .. Len(s) + 1
      /\ i = EndOf(hp) => 1 + o = Len(s) + 1
      /\ i # EndOf(hp) => i \in Taken(buckets) /\ 1 + o \in 1 .. Len(s) /\ s[1 + o] = KeyAt(buckets, i)
      /\ LM!ItemAt(s, 1 + o) = IF i = EndOf(hp) THEN "end" ELSE buckets[i[1]][i[2]].key
  BY PlaceInList
<1>7. o \in Nat /\ oz \in Nat
  BY PrecedingFacts
<1>8. z \in Places /\ i \in Places
  BY <1>1, PlaceIsSome
<1>9. Before(z, i) => oz < o
  BY <1>8, OrdinalGrows
<1>10. ~Before(z, i) => o < oz
  <2>1. ASSUME i = EndOf(hp) PROVE Before(z, i)
    <3>1. z[1] \in 0 .. Size(hp) - 1
      BY <1>1 DEF Spot
    <3> QED
      BY <1>1, <2>1, <3>1 DEF EndOf, Before
  <2>2. ASSUME i # EndOf(hp), ~Before(z, i) PROVE o < oz
    BY <1>6, <1>8, <2>2, BeforeFacts, OrdinalGrows
  <2> QED
    BY <2>1, <2>2
<1>11. k \in Keys
  <2>1. 1 .. Len(s) = DOMAIN s
    BY <1>4
  <2> HIDE DEF s
  <2> QED
    BY <1>4, <2>1
<1> HIDE DEF s, o, oz
<1>12. LM!ItemAt(s, 1 + o) # k
  <2>1. CASE i = EndOf(hp)
    BY <1>6, <1>11, <2>1, EndAssumption
  <2>2. CASE i # EndOf(hp)
    <3>1. 1 + o # oz + 1
      BY <1>7, <1>9, <1>10
    <3>2. s[1 + o] # k
      BY <1>4, <1>5, <1>6, <2>2, <3>1
    <3> QED
      BY <1>6, <2>2, <3>2 DEF KeyAt
  <2> QED
    BY <2>1, <2>2
<1>13. (\E j \in 1 .. (1 + o) - 1 : s[j] = k) <=> Before(z, i)
  <2>1. ASSUME NEW j \in 1 .. (1 + o) - 1, s[j] = k PROVE Before(z, i)
    <3>1. j \in 1 .. Len(s) /\ j <= o
      BY <1>4, <1>6, <1>7
    <3>2. j = oz + 1
      BY <1>4, <1>5, <2>1, <3>1
    <3> QED
      BY <1>7, <1>10, <3>1, <3>2
  <2>2. ASSUME Before(z, i) PROVE \E j \in 1 .. (1 + o) - 1 : s[j] = k
    <3>1. oz + 1 \in 1 .. (1 + o) - 1
      BY <1>7, <1>9, <2>2
    <3> QED
      BY <1>4, <3>1
  <2> QED
    BY <2>1, <2>2
<1>14. 1 + Ordinal(nt, i) = IF Before(z, i) THEN (1 + o) - 1 ELSE 1 + o
  BY <1>3, <1>7 DEF o
<1> QED
  BY <1>12, <1>13, <1>14 DEF s, o

LEMMA EraseKeyMap ==
  ASSUME ViewInv, NEW t \in Threads, EraseKey(t)
  PROVE  Walks' /\ Mapped
<1> DEFINE k == Key(t)
           ls == LocksOf(Own(k))
           s == OrderOf(buckets)
           o == Ordinal(buckets, it)
<1>1. /\ Session(t) /\ my[t].pc = "start" /\ call[t].op = "erase" /\ Erase(t)
      /\ it' = IF it \in Positions(buckets, k) THEN None ELSE it
      /\ UNCHANGED <<owner, locked, job, file>>
  BY DEF EraseKey, Erase, At, Op
<1>2. /\ TInv /\ late = {} /\ Holder = t /\ Listing = s /\ call[t] # None
      /\ Cursor = IF it # None THEN 1 + o ELSE 0
      /\ SessionOK(my[t], call[t], hp, buckets, it, job.at)
  BY <1>1, StartView
<1>3. k \in Keys /\ call[t].key = k
  BY <1>1, <1>2, InCall DEF At, Op, Key
<1>4. LM!Erase(t, k)
  <2>1. KVM!Perform(t)
    BY <1>1, <1>2, EraseStep DEF Performs
  <2> QED
    BY <1>1, <1>3, <2>1, SamePerform DEF LM!Perform, LM!Insertions
<1>5. \/ Positions(buckets, k) = {} /\ Under(ls, buckets) /\ Return(t, "no")
      \/ \E x \in Positions(buckets, k) : Under(ls, Put(buckets, x[1], x[2], None)) /\ Return(t, "yes")
  <2>1. AfterMove(ls) = buckets
    BY <1>2 DEF AfterMove
  <2> QED
    BY <1>1, <2>1 DEF Erase, Delete
<1>6. late' = {}
  BY <1>2, <1>5 DEF Under
<1>7. /\ Walks' /\ Holder' = t /\ Listing' = OrderOf(buckets')
      /\ Cursor' = IF it' # None THEN 1 + Ordinal(buckets', it') ELSE 0
  BY <1>1, <1>5, <1>6, ReturnView
<1>8. buckets \in Table /\ Once(buckets)
  <2>1. Represents(hp, buckets, Empty, {}, Content)
    BY <1>2, Shown
  <2> QED
    BY <2>1, ShownBy
<1>9. it # None => it = EndOf(hp) \/ (Spot(hp, it) /\ Occupied(buckets, it[1], it[2]))
  BY <1>1, <1>2 DEF SessionOK
<1>10. o \in Nat
  BY PrecedingFacts
<1> HIDE DEF k, ls
<1>11. ASSUME Positions(buckets, k) = {}, Under(ls, buckets)
       PROVE  Listing' = LM!Without(Listing, k) /\ Cursor' = Cursor /\ ~LM!Present(k)
  <2>1. Content[k] = None /\ \A x \in Taken(buckets) : KeyAt(buckets, x) # k
    BY <1>2, <1>3, <1>11, KeyHeld
  <2>2. UNCHANGED <<buckets, it>>
    BY <1>1, <1>11 DEF Under, k
  <2>3. ~\E i \in DOMAIN s : s[i] = k
    BY <1>8, <2>1, OrderFacts
  <2>4. LM!Without(s, k) = s
    BY <2>3 DEF LM!Without
  <2>5. Listing' = LM!Without(Listing, k) /\ Cursor' = Cursor /\ ~LM!Present(k)
    BY <1>2, <1>7, <2>1, <2>2, <2>4 DEF LM!Present
  <2> QED
    BY <2>5
<1>12. ASSUME NEW x \in Positions(buckets, k), Under(ls, Put(buckets, x[1], x[2], None))
       PROVE  /\ Listing' = LM!Without(Listing, k)
              /\ Cursor' = IF Cursor = 0 \/ ~LM!Present(k) THEN Cursor
                           ELSE IF LM!ItemAt(Listing, Cursor) = k THEN 0
                           ELSE IF \E i \in 1 .. Cursor - 1 : Listing[i] = k THEN Cursor - 1 ELSE Cursor
  <2>1. x \in Taken(buckets) /\ KeyAt(buckets, x) = k /\ Content[k] # None
    BY <1>2, <1>3, KeyHeld
  <2>2. /\ x = <<x[1], x[2]>> /\ x[1] \in BucketInds /\ x[2] \in SlotInds
        /\ Occupied(buckets, x[1], x[2])
    BY <2>1, TakenFacts
  <2>3. buckets' = Put(buckets, x[1], x[2], None)
    BY <1>12 DEF Under
  <2>4. OrderOf(buckets') = LM!Without(s, k)
    BY <1>8, <2>1, <2>2, <2>3, OrderWithout DEF KeyAt
  <2>5. \A y \in Positions(buckets, k) : y = x
    <3>1. \A y \in Positions(buckets, k) : y \in Taken(buckets) /\ KeyAt(buckets, y) = k
      BY <1>2, <1>3, KeyHeld
    <3>2. Represents(hp, buckets, Empty, {}, Content)
      BY <1>2, Shown
    <3>3. \A y, z \in Taken(buckets) : KeyAt(buckets, y) = KeyAt(buckets, z) => y = z
      BY <3>2, ShownBy
    <3> QED
      BY <2>1, <3>1, <3>3
  <2>6. CASE it = None
    BY <1>1, <1>2, <1>7, <2>4, <2>6
  <2>7. CASE it = x
    <3>1. it # None /\ it # EndOf(hp)
      <4>1. Spot(hp, x) /\ hp \in 0 .. MaxHp
        BY <1>2, <2>1, PlaceFacts DEF TInv, Good
      <4> QED
        BY <1>2, <2>7, <4>1, PlaceIsSome, Sizes DEF Spot, EndOf
    <3>2. LM!ItemAt(s, 1 + o) = k
      BY <1>2, <1>9, <2>1, <2>7, <3>1, PlaceInList DEF KeyAt
    <3>3. Cursor' = 0
      BY <1>1, <1>7, <2>7 DEF k
    <3>4. Cursor = 1 + o /\ Cursor # 0
      BY <1>2, <1>10, <3>1
    <3> QED
      BY <1>2, <1>7, <2>1, <2>4, <3>2, <3>3, <3>4 DEF LM!Present
  <2>8. CASE it # None /\ it # x
    <3>1. it' = it
      BY <1>1, <2>5, <2>8 DEF k
    <3> DEFINE q == 1 + o
    <3>2. /\ LM!ItemAt(s, q) # k
          /\ 1 + Ordinal(buckets', it) = IF \E j \in 1 .. q - 1 : s[j] = k THEN q - 1 ELSE q
      BY <1>2, <1>8, <1>9, <2>1, <2>3, <2>8, CursorWithout
    <3>3. Cursor = q /\ Cursor # 0 /\ Cursor' = 1 + Ordinal(buckets', it)
      BY <1>2, <1>7, <1>10, <2>8, <3>1
    <3> HIDE DEF q, s
    <3> QED
      BY <1>2, <1>7, <2>1, <2>4, <3>2, <3>3 DEF LM!Present
  <2> QED
    BY <2>6, <2>7, <2>8
<1>13. /\ Listing' = LM!Without(Listing, k)
       /\ Cursor' = IF Cursor = 0 \/ ~LM!Present(k) THEN Cursor
                    ELSE IF LM!ItemAt(Listing, Cursor) = k THEN 0
                    ELSE IF \E i \in 1 .. Cursor - 1 : Listing[i] = k THEN Cursor - 1 ELSE Cursor
  BY <1>5, <1>11, <1>12
<1>14. LM!EraseKey(t, k)
  BY <1>1, <1>2, <1>4, <1>7, <1>13, SameStream DEF LM!EraseKey
<1>15. LM!OwnerStep(t)
  BY <1>1, <1>2, <1>3, <1>14 DEF LM!OwnerStep
<1> QED
  BY <1>7, <1>15, InLM

-----------------------------------------------------------------------------
(* The implementation of LockedMap.                                         *)

LEMMA ViewInit == LockedInit => ViewInv /\ LM!LockedInit
<1> SUFFICES ASSUME LockedInit PROVE ViewInv /\ LM!LockedInit
  OBVIOUS
<1>1. TableInv /\ Walks
  BY ControlInit, LockedInitData, WalksInit DEF TableInv
<1>2. /\ late = {} /\ ~locked /\ file = None
      /\ call = [t \in Threads |-> None] /\ ret = [t \in Threads |-> None]
  BY DEF LockedInit
<1>3. Content \in [Keys -> Vals \cup {None}]
  <2>1. Represents(hp, buckets, Empty, {}, Content)
    BY <1>1, <1>2, Shown DEF TableInv
  <2> QED
    BY <2>1, ShownBy
<1>4. Holder = None /\ Listing = <<>> /\ Cursor = 0 /\ Stream = None
  BY <1>2, NotReady DEF Ready, Stream
<1> QED
  BY <1>1, <1>2, <1>3, <1>4 DEF ViewInv, LM!LockedInit

LEMMA ViewStutters ==
  ASSUME ViewInv, UNCHANGED lockedVars
  PROVE  Walks' /\ Mapped
<1>1. UNCHANGED <<table, inside>> /\ UNCHANGED <<call, ret, my, left>>
  BY DEF lockedVars, table, inside
<1>2. UNCHANGED <<hp, buckets, late, counter>> /\ UNCHANGED <<owner, locked, job, it, file>>
  BY <1>1 DEF table, inside
<1>3. Ready' <=> Ready
  BY <1>1, <1>2 DEF Ready, Building, At
<1>4. Walks'
  BY <1>1, <1>2, <1>3 DEF ViewInv, Walks, Session, Building, At
<1>5. UNCHANGED <<Holder, Listing, Cursor, Stream>>
  BY <1>2, <1>3, ViewSame
<1> QED
  BY <1>1, <1>4, <1>5, SameContent, SameMap DEF Mapped

\* One step of the table is at most one of the map.
LEMMA ViewNext ==
  ASSUME ~MoveEmpties, ViewInv, [LockedNext]_lockedVars
  PROVE  ViewInv' /\ Mapped
<1>1. TableInv'
  BY TableNext DEF ViewInv
<1>2. ASSUME NEW t \in Threads, PlainCall(t) \/ PlainStep(t) \/ SizeStep(t) \/ SessionCall(t)
      PROVE  Walks' /\ Mapped
  BY <1>2, CallsMap, PlainMap, SizeMap
<1>3. ASSUME NEW t \in Threads, ResizeStep(t)
      PROVE  Walks' /\ Mapped
  <2>1. CompareHashpower(t) \/ ExpandSimple(t) => Walks' /\ Mapped
    BY <1>1, CompareMap, ExpandMap
  <2>2. EndMigration(t) => Walks' /\ Mapped
    BY <1>1, EndMigrationMap
  <2>3. SwapBuckets(t) \/ RethrowTransfer(t) => Walks' /\ Mapped
    BY <1>1, EndResizeMap
  <2> QED
    BY <1>3, <2>1, <2>2, <2>3 DEF ResizeStep
<1>4. ASSUME NEW t \in Threads, LockedStep(t)
      PROVE  Walks' /\ Mapped
  <2>1. LockTable(t) \/ Unlock(t) => Walks' /\ Mapped
    BY LockMap, UnlockMap
  <2>2. Iterate(t) \/ ScanForward(t) \/ ScanBackward(t) => Walks' /\ Mapped
    BY IterateMap, ScanMap
  <2>3. EraseAt(t) \/ FindIt(t) \/ EraseKey(t) \/ ClearAll(t) => Walks' /\ Mapped
    BY EraseAtMap, FindItMap, EraseKeyMap, ClearAllMap
  <2>4. Save(t) \/ Load(t) => Walks' /\ Mapped
    BY <1>1, SaveMap, LoadMap
  <2> QED
    BY <1>3, <1>4, <2>1, <2>2, <2>3, <2>4 DEF LockedStep
<1>5. ASSUME NEW w, WorkerStep(w) PROVE Walks' /\ Mapped
  BY <1>1, <1>5, WorkMap
<1>6. ASSUME UNCHANGED lockedVars PROVE Walks' /\ Mapped
  BY <1>6, ViewStutters
<1> QED
  BY <1>1, <1>2, <1>4, <1>5, <1>6 DEF LockedNext, ViewInv

\* To the table, Walks adds what the view of LockedMap rests on: where an
\* iterator that looks for the next element has come from, and what a size()
\* of the owner has counted.
THEOREM ViewInvariant == ASSUME ~MoveEmpties PROVE LockedSpec => []ViewInv
<1>1. LockedInit => ViewInv
  BY ViewInit
<1>2. ViewInv /\ [LockedNext]_lockedVars => ViewInv'
  BY ViewNext
<1> QED
  BY <1>1, <1>2, PTL DEF LockedSpec

\* When moving an element leaves it as it was, the table with its resizes, its
\* workers and its locked_table is the map with its list: a resize loses and
\* doubles nothing, the iterators meet every element once in both directions,
\* also while elements are erased, and a stream gives back what was saved.
THEOREM LockedRefinement == ASSUME ~MoveEmpties PROVE LockedSpec => ImplementsLockedMap
<1>1. LockedInit => ViewInv /\ LM!LockedInit
  BY ViewInit
<1>2. ViewInv /\ [LockedNext]_lockedVars => ViewInv' /\ [LM!LockedNext]_(LM!lockedMap)
  BY ViewNext DEF Mapped
<1> QED
  BY <1>1, <1>2, PTL DEF LockedSpec, LM!LockedSpec, ImplementsLockedMap
=============================================================================
