--------------------------- MODULE DriversProofs ---------------------------
(***************************************************************************)
(* Proofs about Drivers.tla, for any number of threads, requests, rounds   *)
(* and any key range: when a program exits, when a worker is ended by an   *)
(* exception, and why the modifications of CH_HybridTest succeed.          *)
(***************************************************************************)
EXTENDS Drivers, NumberFacts, FiniteSetTheorems

-----------------------------------------------------------------------------
(* The inductive invariant.                                                *)

IsHybrid == program = "CH_HybridTest"

WorkerType ==
  [state : {"head", "working", "done", "aborted"}, next : Nat, round : Nat, nth : Nat,
   failed : BOOLEAN, op : {"get", "set"}]

\* Before the second phase only the replays have workers.
Crew == IF phase = "load" /\ program \notin Replays THEN {} ELSE Tids

TypedSetting ==
  /\ program \in Programs /\ thread_number \in Nat \ {0} /\ key_range \in Nat
  /\ loads \in Seq(Nat)
  /\ IsHybrid => key_range # 0
  /\ program \in Replays => runs \in [1 .. Length -> [op : {"get", "set"}, key : KeysOf(loads)]]

Typed ==
  /\ TypedSetting
  /\ phase \in {"load", "run", "over", "exited"}
  /\ worker = [tid \in DOMAIN worker |-> worker[tid]] /\ DOMAIN worker = Crew
  /\ \A tid \in Crew : worker[tid] \in WorkerType

\* A worker is within its share, and ends at the end of it.
InShare(tid) ==
  program # "CH_YCSBTest" =>
    /\ Share(tid, Length).first <= worker[tid].next
    /\ worker[tid].next <= Share(tid, Length).end
    /\ program \notin Timed =>
         /\ worker[tid].state \in {"working", "done"}
         /\ worker[tid].state = "done" => AtEnd(tid)

\* What the first phase loads into the table; a replay forgets the rest.
Kept(k) ==
  \/ program \in Checkers
  \/ program = "ycsb" /\ Length % thread_number = 0
  \/ IsHybrid /\ k < key_range

Loaded ==
  /\ \A tid \in Crew : InShare(tid)
  /\ phase = "load" =>
       \A tid \in Crew : \A i \in Share(tid, Length).first .. worker[tid].next - 1 :
         loads[i + 1] \in store
  /\ phase # "load" => \A k \in KeysOf(loads) : Kept(k) => k \in store
  /\ phase = "exited" => program = "ycsb" /\ Length % thread_number # 0
  /\ \A tid \in Crew : worker[tid].state = "aborted" => IsHybrid /\ Beyond # {}

\* The keys of CH_HybridTest: of a worker, its mth of two rounds.
Fresh(tid, m, q) == thread_number * m + tid + (q + 1) * key_range

Enough == IsHybrid /\ Beyond = {} /\ thread_number * PerRound <= key_range

\* How many of the requests before next modify.
Before(next) == Cardinality({j \in 0 .. next - 1 : Modifies(j)})

\* Which of the keys of its round a worker has inserted, or not yet erased.
Has(tid, m) == IF worker[tid].round % 2 = 0 THEN m < worker[tid].nth ELSE worker[tid].nth <= m

Modifying ==
  Enough =>
    \A tid \in Crew :
      /\ ~worker[tid].failed
      /\ worker[tid].nth = IF worker[tid].state = "working" THEN Before(worker[tid].next) ELSE 0
      /\ \A m \in 0 .. PerRound - 1, q \in Nat :
           Fresh(tid, m, q) \in store <=> q = worker[tid].round \div 2 /\ Has(tid, m)

DInv == Typed /\ Loaded /\ Modifying

-----------------------------------------------------------------------------
(* Numbers and counts.                                                     *)

LEMMA Products ==
  ASSUME NEW a \in Nat, NEW b \in Nat, NEW q \in Nat, a <= b
  PROVE  a * q <= b * q /\ q * a <= q * b
<1>1. PICK d \in Nat : b = a + d
  <2>1. b - a \in Nat /\ b = a + (b - a)
    OBVIOUS
  <2> QED
    BY <2>1
<1>2. b * q = a * q + d * q /\ d * q \in Nat /\ a * q \in Nat /\ q * a = a * q /\ q * b = b * q
  BY <1>1
<1> QED
  BY <1>2

\* Equal shares without a rest are all there is.
LEMMA SharesCover ==
  ASSUME NEW n \in Nat, NEW t \in Nat \ {0}, n % t = 0, NEW i \in 0 .. n - 1
  PROVE  \E u \in 0 .. t - 1 : i \in u * (n \div t) .. (u + 1) * (n \div t) - 1
<1> DEFINE q == n \div t
<1>1. q \in Nat /\ n = t * q
  OBVIOUS
<1> HIDE DEF q
<1>2. q # 0
  BY <1>1
<1> DEFINE u == i \div q
           r == i % q
<1>3. u \in Nat /\ r \in 0 .. q - 1 /\ i = q * u + r
  BY <1>1, <1>2
<1> HIDE DEF u, r
<1>4. u < t
  <2> SUFFICES ASSUME t <= u PROVE FALSE
    BY <1>3
  <2>1. q * t <= q * u /\ q * t = n
    BY <1>1, <1>3, Products
  <2> QED
    BY <1>1, <1>3, <2>1
<1>5. i \in u * q .. (u + 1) * q - 1
  <2>1. u * q = q * u /\ (u + 1) * q = q * u + q /\ q * u \in Nat
    BY <1>1, <1>3
  <2> QED
    BY <1>1, <1>3, <2>1
<1> QED
  BY SMTT(60), <1>3, <1>4, <1>5 DEF q

LEMMA ShareFacts ==
  ASSUME TypedSetting, NEW tid \in Tids
  PROVE  /\ Share(tid, Length).first \in Nat /\ Share(tid, Length).end \in Nat
         /\ IsHybrid \/ program \in Checkers =>
              Share(tid, Length).first = 0 /\ Share(tid, Length).end = Length
         /\ program \in Replays =>
              /\ Share(tid, Length).first = tid * (Length \div thread_number)
              /\ Share(tid, Length).end = (tid + 1) * (Length \div thread_number)
              /\ Share(tid, Length).first <= Share(tid, Length).end
              /\ Share(tid, Length).end <= Length
<1> DEFINE n == Length
           t == thread_number
           q == n \div t
<1>1. n \in Nat /\ t \in Nat \ {0} /\ tid \in Nat /\ tid + 1 <= t
  BY DEF TypedSetting, Length, Tids
<1>2. q \in Nat /\ t * q <= n
  <2> HIDE DEF n, t
  <2>1. n = t * q + (n % t) /\ n % t \in Nat /\ q \in Nat
    BY <1>1
  <2> HIDE DEF q
  <2>2. t * q \in Nat
    BY <1>1, <2>1
  <2> QED
    BY <2>1, <2>2
<1> HIDE DEF q
<1>3. /\ tid * q \in Nat /\ (tid + 1) * q \in Nat /\ tid * q <= (tid + 1) * q
      /\ (tid + 1) * q <= t * q /\ t * q \in Nat
  BY <1>1, <1>2, Products
<1>4. (tid * n) \div t \in Nat /\ ((tid + 1) * n) \div t \in Nat
  <2> DEFINE a == tid * n
             b == (tid + 1) * n
  <2> HIDE DEF n, t
  <2>1. a \in Nat /\ b \in Nat
    BY <1>1
  <2> HIDE DEF a, b
  <2>2. a \div t \in Nat /\ b \div t \in Nat
    BY <1>1, <2>1
  <2> QED
    BY <2>2 DEF a, b
<1>5. CASE program \in Replays
  <2>1. Share(tid, Length) = [first |-> tid * q, end |-> (tid + 1) * q]
    BY <1>5 DEF Share, Cut, Replays, q
  <2>2. (tid + 1) * q <= n
    BY <1>1, <1>2, <1>3
  <2> QED
    BY <1>3, <1>5, <2>1, <2>2 DEF Replays, Checkers, IsHybrid, q
<1>6. CASE program = "CH_YCSBTest"
  <2>1. Share(tid, Length) = [first |-> (tid * n) \div t, end |-> ((tid + 1) * n) \div t]
    BY <1>6 DEF Share, Rounded, Replays
  <2> QED
    BY <1>4, <1>6, <2>1 DEF Replays, Checkers, IsHybrid
<1>7. CASE program \notin Replays /\ program # "CH_YCSBTest"
  <2>1. Share(tid, Length) = [first |-> 0, end |-> n]
    BY <1>7 DEF Share
  <2> QED
    BY <1>1, <1>7, <2>1
<1> QED
  BY <1>5, <1>6, <1>7

LEMMA BeforeFacts ==
  ASSUME TypedSetting
  PROVE  /\ Before(0) = 0 /\ PerRound \in Nat /\ PerRound = Before(Length)
         /\ \A i \in Nat : /\ Before(i) \in Nat
                           /\ Before(i + 1) = Before(i) + (IF Modifies(i) THEN 1 ELSE 0)
                           /\ i <= Length => Before(i) <= PerRound
<1> DEFINE S(i) == {j \in 0 .. i - 1 : Modifies(j)}
<1>1. \A i \in Nat : IsFiniteSet(S(i)) /\ Before(i) \in Nat
  <2> SUFFICES ASSUME NEW i \in Nat PROVE IsFiniteSet(S(i)) /\ Before(i) \in Nat
    OBVIOUS
  <2>1. IsFiniteSet(0 .. i - 1)
    BY FS_Interval
  <2>2. IsFiniteSet(S(i))
    BY <2>1, FS_Subset
  <2> QED
    BY <2>2, FS_CardinalityType DEF Before
<1>2. Before(0) = 0
  <2>1. S(0) = {}
    OBVIOUS
  <2> QED
    BY <2>1, FS_EmptySet DEF Before
<1>3. Length \in Nat /\ PerRound = Before(Length)
  BY DEF TypedSetting, Length, PerRound, Before
<1>4. ASSUME NEW i \in Nat
      PROVE  Before(i + 1) = Before(i) + (IF Modifies(i) THEN 1 ELSE 0)
  <2>1. S(i + 1) = IF Modifies(i) THEN S(i) \cup {i} ELSE S(i)
    OBVIOUS
  <2>2. i \notin S(i)
    OBVIOUS
  <2>3. /\ Before(i) = Cardinality(S(i)) /\ Before(i + 1) = Cardinality(S(i + 1))
        /\ IsFiniteSet(S(i)) /\ Before(i) \in Nat
    BY <1>1 DEF Before
  <2> HIDE DEF S
  <2>4. Cardinality(S(i) \cup {i}) = Cardinality(S(i)) + 1
    BY <2>2, <2>3, FS_AddElement
  <2> QED
    BY <2>1, <2>3, <2>4
<1>5. ASSUME NEW i \in Nat, i <= Length PROVE Before(i) <= PerRound
  <2>1. S(i) \in SUBSET S(Length)
    BY <1>3, <1>5
  <2>2. IsFiniteSet(S(Length))
    BY <1>1, <1>3
  <2>3. Cardinality(S(i)) <= Cardinality(S(Length))
    BY <2>1, <2>2, FS_Subset
  <2> QED
    BY <1>3, <2>3 DEF Before
<1> QED
  BY <1>1, <1>2, <1>3, <1>4, <1>5

\* Of two threads, two rounds or two modifications of a round the keys differ,
\* and from the loaded ones.
LEMMA FreshDiffers ==
  ASSUME TypedSetting, Enough, NEW s \in Tids, NEW t \in Tids,
         NEW m \in 0 .. PerRound - 1, NEW n \in 0 .. PerRound - 1, NEW p \in Nat, NEW q \in Nat
  PROVE  /\ Fresh(s, m, p) = Fresh(t, n, q) => s = t /\ m = n /\ p = q
         /\ Fresh(s, m, p) \in Nat /\ key_range <= Fresh(s, m, p)
<1> DEFINE T == thread_number
           K == key_range
           P == PerRound
<1>1. T \in Nat \ {0} /\ K \in Nat \ {0} /\ P \in Nat /\ T * P <= K /\ s \in 0 .. T - 1 /\ t \in 0 .. T - 1
  BY BeforeFacts DEF TypedSetting, Enough, Tids
<1>2. m \in 0 .. P - 1 /\ n \in 0 .. P - 1
  OBVIOUS
<1> HIDE DEF T, K, P
<1>3. ASSUME NEW u \in 0 .. T - 1, NEW l \in 0 .. P - 1
      PROVE  l * T + u \in 0 .. K - 1 /\ l * T + u = T * l + u
  <2>1. (l + 1) * T <= P * T /\ P * T = T * P
    BY <1>1, Products
  <2>2. (l + 1) * T = l * T + T /\ l * T \in Nat /\ T * l = l * T
    BY <1>1
  <2>3. T * P \in Nat
    BY <1>1
  <2> QED
    BY <1>1, <2>1, <2>2, <2>3
<1> DEFINE x == m * T + s
           y == n * T + t
<1>4. x \in 0 .. K - 1 /\ y \in 0 .. K - 1 /\ x = T * m + s /\ y = T * n + t
  BY <1>1, <1>2, <1>3
<1>5. /\ Fresh(s, m, p) = (p + 1) * K + x /\ Fresh(t, n, q) = (q + 1) * K + y
      /\ (p + 1) * K = p * K + K /\ p * K \in Nat
  <2> HIDE DEF x, y
  <2>1. (p + 1) * K \in Nat /\ (q + 1) * K \in Nat /\ (p + 1) * K = p * K + K /\ p * K \in Nat
    BY <1>1
  <2>2. Fresh(s, m, p) = x + (p + 1) * K /\ Fresh(t, n, q) = y + (q + 1) * K
    BY <1>4 DEF Fresh, T, K
  <2> QED
    BY <1>4, <2>1, <2>2
<1>6. ASSUME Fresh(s, m, p) = Fresh(t, n, q) PROVE s = t /\ m = n /\ p = q
  <2> HIDE DEF x, y
  <2>1. /\ ((p + 1) * K + x) % K = x /\ ((p + 1) * K + x) \div K = p + 1
        /\ ((q + 1) * K + y) % K = y /\ ((q + 1) * K + y) \div K = q + 1
    <3>1. \A a \in Nat, d \in 0 .. K - 1 : (a * K + d) % K = d /\ (a * K + d) \div K = a
      BY <1>1, QuotientIs
    <3>2. p + 1 \in Nat /\ q + 1 \in Nat
      OBVIOUS
    <3> QED
      BY <1>4, <3>1, <3>2
  <2>2. x = y /\ p = q
    BY <1>5, <1>6, <2>1
  <2>3. (m * T + s) % T = s /\ (m * T + s) \div T = m /\ (n * T + t) % T = t /\ (n * T + t) \div T = n
    <3>1. \A a \in Nat, d \in 0 .. T - 1 : (a * T + d) % T = d /\ (a * T + d) \div T = a
      BY <1>1, QuotientIs
    <3> QED
      BY <1>1, <1>2, <3>1
  <2> QED
    BY <2>2, <2>3 DEF x, y
<1>7. Fresh(s, m, p) \in Nat /\ K <= Fresh(s, m, p)
  <2> HIDE DEF x, y
  <2> QED
    BY <1>1, <1>4, <1>5
<1> QED
  BY <1>6, <1>7 DEF K

-----------------------------------------------------------------------------
(* Steps of a worker.                                                      *)

\* The worker tid goes on with new, all else of the workers stays.
LEMMA Stepping ==
  ASSUME Typed, NEW tid \in Crew, NEW new \in WorkerType, To(tid, new), UNCHANGED <<setting, phase>>
  PROVE  /\ Typed' /\ Crew' = Crew /\ Crew \subseteq Tids
         /\ worker'[tid] = new /\ worker[tid] \in WorkerType
         /\ \A u \in Crew : u # tid => worker'[u] = worker[u]
<1>1. /\ Crew' = Crew /\ TypedSetting' /\ Crew \subseteq Tids
      /\ phase' \in {"load", "run", "over", "exited"}
  BY DEF Typed, TypedSetting, Crew, Tids, setting, IsHybrid, Length, KeysOf
<1>2. /\ worker = [u \in Crew |-> worker[u]] /\ worker' = [worker EXCEPT ![tid] = new]
      /\ \A u \in Crew : worker[u] \in WorkerType
  BY DEF Typed, To
<1>3. /\ worker' = [u \in Crew |-> worker'[u]] /\ worker'[tid] = new /\ DOMAIN worker' = Crew
      /\ \A u \in Crew : u # tid => worker'[u] = worker[u]
  BY <1>2
<1>4. \A u \in Crew : worker'[u] \in WorkerType
  BY <1>2, <1>3
<1> QED
  BY <1>1, <1>2, <1>3, <1>4 DEF Typed

LEMMA SameShares ==
  ASSUME UNCHANGED setting
  PROVE  /\ \A u : Share(u, Length)' = Share(u, Length)
         /\ Length' = Length /\ Enough' = Enough /\ PerRound' = PerRound
         /\ \A m, u, q : Fresh(u, m, q)' = Fresh(u, m, q)
         /\ \A k : Kept(k)' = Kept(k)
         /\ \A n : Before(n)' = Before(n)
BY DEF setting, Share, Length, Cut, Rounded, Enough, Beyond, PerRound, Fresh, Kept, Before, IsHybrid, KeysOf

LEMMA LoadedAfter ==
  ASSUME DInv, UNCHANGED <<setting, phase>>, Crew' = Crew,
         NEW tid \in Crew, \A u \in Crew : u # tid => worker'[u] = worker[u],
         InShare(tid)',
         phase = "load" => /\ store \subseteq store'
                           /\ \A i \in worker[tid].next .. worker'[tid].next - 1 :
                                loads[i + 1] \in store'
                           /\ worker[tid].next \in Nat /\ worker'[tid].next \in Nat
                           /\ Share(tid, Length).first \in Nat,
         phase # "load" => \A k \in KeysOf(loads) : Kept(k) /\ k \in store => k \in store',
         worker'[tid].state = "aborted" =>
           worker[tid].state = "aborted" \/ (IsHybrid /\ Beyond # {})
  PROVE  Loaded'
<1>1. /\ \A u : Share(u, Length)' = Share(u, Length)
      /\ Length' = Length /\ \A k : Kept(k)' = Kept(k)
  BY SameShares
<1>2. /\ program' = program /\ loads' = loads /\ key_range' = key_range
      /\ thread_number' = thread_number /\ phase' = phase /\ IsHybrid' = IsHybrid
      /\ KeysOf(loads)' = KeysOf(loads)
  BY DEF setting, IsHybrid, KeysOf
<1>3. \A u \in Crew' : InShare(u)'
  <2> SUFFICES ASSUME NEW u \in Crew, u # tid PROVE InShare(u)'
    OBVIOUS
  <2>1. InShare(u) /\ worker'[u] = worker[u]
    BY DEF DInv, Loaded
  <2> QED
    BY <1>1, <1>2, <2>1 DEF InShare, AtEnd
<1>4. ASSUME phase = "load", NEW u \in Crew, NEW i \in Share(u, Length).first .. worker'[u].next - 1
      PROVE  loads[i + 1] \in store'
  <2>1. CASE u # tid
    BY <1>4, <2>1 DEF DInv, Loaded
  <2>2. CASE u = tid /\ i <= worker[u].next - 1
    BY <1>4, <2>2 DEF DInv, Loaded
  <2>3. CASE u = tid /\ ~(i <= worker[u].next - 1)
    <3>1. i \in worker[tid].next .. worker'[tid].next - 1
      BY <1>4, <2>3
    <3> QED
      BY <1>4, <3>1
  <2> QED
    BY <2>1, <2>2, <2>3
<1>5. \A u \in Crew : worker'[u].state = "aborted" => IsHybrid /\ Beyond # {}
  BY DEF DInv, Loaded
<1>6. phase' = "load" => \A u \in Crew' : \A i \in Share(u, Length)'.first .. worker'[u].next - 1 :
                           loads'[i + 1] \in store'
  BY <1>1, <1>2, <1>4
<1>7. phase' # "load" => \A k \in KeysOf(loads)' : Kept(k)' => k \in store'
  BY <1>1, <1>2 DEF DInv, Loaded
<1> QED
  BY <1>1, <1>2, <1>3, <1>5, <1>6, <1>7 DEF DInv, Loaded, Beyond

\* Workers of other programs than CH_HybridTest modify nothing.
LEMMA NotModifying ==
  ASSUME UNCHANGED setting, ~IsHybrid
  PROVE  Modifying'
BY DEF Modifying, Enough, IsHybrid, setting

LEMMA HybridRuns ==
  ASSUME Typed, IsHybrid, Crew # {}
  PROVE  phase # "load" /\ program \notin Replays /\ program # "CH_YCSBTest" /\ program \notin Checkers
         /\ program # "ycsb_char" /\ program # "ycsb"
BY DEF IsHybrid, Crew, Replays, Checkers

\* A worker at a request.
LEMMA AtWork ==
  ASSUME DInv, NEW tid, Working(tid), ~AtEnd(tid)
  PROVE  /\ tid \in Crew /\ tid \in Tids /\ worker[tid] \in WorkerType /\ worker[tid].state = "working"
         /\ phase \in {"load", "run"} /\ TypedSetting
         /\ worker[tid].next \in Nat /\ worker[tid].next + 1 \in Nat
         /\ program # "CH_YCSBTest" =>
              /\ Share(tid, Length).first <= worker[tid].next
              /\ worker[tid].next + 1 <= Share(tid, Length).end
              /\ worker[tid].next < Length
              /\ loads[worker[tid].next + 1] \in KeysOf(loads)
<1>1. /\ tid \in Crew /\ tid \in Tids /\ worker[tid] \in WorkerType /\ worker[tid].state = "working"
      /\ phase \in {"load", "run"} /\ TypedSetting
  BY DEF DInv, Typed, Working, Crew
<1>2. worker[tid].next \in Nat
  BY <1>1 DEF WorkerType
<1>3. ASSUME program # "CH_YCSBTest"
      PROVE  /\ Share(tid, Length).first <= worker[tid].next
             /\ worker[tid].next + 1 <= Share(tid, Length).end
             /\ worker[tid].next < Length
  <2>1. /\ Share(tid, Length).first <= worker[tid].next
        /\ worker[tid].next <= Share(tid, Length).end
        /\ worker[tid].next # Share(tid, Length).end
    BY <1>1, <1>3 DEF DInv, Loaded, InShare, AtEnd
  <2>2. Share(tid, Length).end \in Nat /\ Share(tid, Length).end <= Length /\ Length \in Nat
    <3>1. program \in Replays \/ program \in Checkers \/ IsHybrid
      BY <1>1, <1>3, ProgramsAssumption DEF TypedSetting, Timed, IsHybrid
    <3>2. Length \in Nat
      BY <1>1 DEF TypedSetting, Length
    <3> QED
      BY <1>1, <3>1, <3>2, ShareFacts
  <2> QED
    BY <1>2, <2>1, <2>2
<1>4. ASSUME worker[tid].next < Length PROVE loads[worker[tid].next + 1] \in KeysOf(loads)
  <2>1. worker[tid].next + 1 \in 1 .. Len(loads)
    BY <1>1, <1>2, <1>4 DEF Length, TypedSetting
  <2> QED
    BY <1>1, <2>1 DEF KeysOf, TypedSetting
<1> QED
  BY <1>1, <1>2, <1>3, <1>4

LEMMA HybridRequests ==
  ASSUME IsHybrid, phase # "load", NEW tid
  PROVE  LET w == worker[tid]
             i == w.next
             fresh == NewKey(tid, w.nth, w.round)
         IN  /\ Updates(i) => Request(tid) = [op |-> "update", key |-> loads[i + 1]]
             /\ ~Updates(i) /\ ~Modifies(i) => Request(tid) = [op |-> "get", key |-> loads[i + 1]]
             /\ Modifies(i) /\ w.round % 2 = 0 => Request(tid) = [op |-> "insert", key |-> fresh]
             /\ Modifies(i) /\ w.round % 2 # 0 => Request(tid) = [op |-> "erase", key |-> fresh]
             /\ Modifies(i) => ~Updates(i)
             /\ fresh = Fresh(tid, w.nth, w.round \div 2)
<1>1. Request(tid) = HybridRequest(tid, worker[tid].next)
  BY DEF Request, IsHybrid, Replays, Checkers
<1>2. \A i : Modifies(i) => ~Updates(i)
  BY DEF Modifies
<1> QED
  BY <1>1, <1>2 DEF HybridRequest, NewKey, Fresh

\* A worker served a request and goes on.
LEMMA Served ==
  ASSUME DInv, NEW tid, Working(tid), ~AtEnd(tid), NEW new \in WorkerType, To(tid, new),
         new.next = worker[tid].next + 1, new.state = "working", UNCHANGED <<setting, phase>>,
         phase = "load" => store' = store \cup {loads[worker[tid].next + 1]},
         phase # "load" => \A k \in KeysOf(loads) : Kept(k) /\ k \in store => k \in store'
  PROVE  /\ Typed' /\ Loaded' /\ Crew' = Crew /\ worker'[tid] = new
         /\ \A u \in Crew : u # tid => worker'[u] = worker[u]
<1>1. /\ tid \in Crew /\ tid \in Tids /\ worker[tid].next \in Nat /\ new.next \in Nat /\ Typed
      /\ TypedSetting
  BY AtWork DEF DInv
<1>2. /\ Typed' /\ Crew' = Crew /\ worker'[tid] = new
      /\ \A u \in Crew : u # tid => worker'[u] = worker[u]
  BY <1>1, Stepping
<1>3. InShare(tid)'
  <2>1. program # "CH_YCSBTest" =>
          /\ Share(tid, Length).first <= worker[tid].next
          /\ new.next <= Share(tid, Length).end
    BY AtWork
  <2>2. Share(tid, Length).first \in Nat
    BY <1>1, ShareFacts
  <2>3. program' = program /\ \A u : Share(u, Length)' = Share(u, Length)
    BY SameShares DEF setting
  <2>4. program # "CH_YCSBTest" =>
          /\ Share(tid, Length).first <= new.next
          /\ new.next <= Share(tid, Length).end
    BY <1>1, <2>1, <2>2
  <2> QED
    BY <1>2, <2>3, <2>4 DEF InShare
<1>4. ASSUME phase = "load"
      PROVE  /\ store \subseteq store'
             /\ \A i \in worker[tid].next .. worker'[tid].next - 1 : loads[i + 1] \in store'
             /\ worker[tid].next \in Nat /\ worker'[tid].next \in Nat
             /\ Share(tid, Length).first \in Nat
  <2>1. \A i \in worker[tid].next .. worker'[tid].next - 1 : i = worker[tid].next
    BY <1>1, <1>2
  <2> QED
    BY <1>1, <1>2, <1>4, <2>1, ShareFacts
<1>5. worker'[tid].state # "aborted"
  BY <1>2
<1>6. Loaded'
  BY <1>1, <1>2, <1>3, <1>4, <1>5, LoadedAfter
<1> QED
  BY <1>2, <1>6

LEMMA SetStep ==
  ASSUME DInv, NEW tid, Working(tid), ~AtEnd(tid), Set(tid), UNCHANGED setting
  PROVE  DInv'
<1> DEFINE i == worker[tid].next
           new == Next1(tid)
<1>1. /\ tid \in Crew /\ worker[tid] \in WorkerType /\ worker[tid].state = "working"
      /\ phase \in {"load", "run"} /\ i + 1 \in Nat
  BY AtWork
<1>2. /\ Request(tid).op = "set" /\ store' = store \cup {Request(tid).key}
      /\ To(tid, new) /\ UNCHANGED phase
  BY DEF Set
<1>3. new \in WorkerType /\ new.next = i + 1 /\ new.state = "working"
  BY <1>1 DEF Next1, WorkerType
<1>4. phase = "load" => Request(tid) = [op |-> "set", key |-> loads[i + 1]]
  BY DEF Request
<1>5. ~IsHybrid
  <2> SUFFICES ASSUME IsHybrid PROVE FALSE
    OBVIOUS
  <2>1. phase # "load"
    BY <1>1, HybridRuns DEF DInv
  <2> QED
    BY <1>2, <2>1, HybridRequests
<1> HIDE DEF new
<1>6. Typed' /\ Loaded'
  BY <1>2, <1>3, <1>4, Served
<1> QED
  BY <1>5, <1>6, NotModifying DEF DInv

\* A key that is loaded and kept is there.
LEMMA KeptIsThere ==
  ASSUME DInv, NEW tid, Working(tid), ~AtEnd(tid), phase # "load", program # "CH_YCSBTest"
  PROVE  Kept(loads[worker[tid].next + 1]) => loads[worker[tid].next + 1] \in store
BY AtWork DEF DInv, Loaded

LEMMA HybridKeys ==
  ASSUME TypedSetting, IsHybrid, NEW k \in KeysOf(loads)
  PROVE  k \in Nat /\ key_range \in Nat /\ (k \notin Beyond => Kept(k))
<1>1. k \in Nat /\ key_range \in Nat
  BY DEF TypedSetting, KeysOf
<1>2. k \notin Beyond => k < key_range
  BY <1>1 DEF Beyond
<1> QED
  BY <1>1, <1>2 DEF Kept

LEMMA GetStep ==
  ASSUME DInv, NEW tid, Working(tid), ~AtEnd(tid), Get(tid), UNCHANGED setting
  PROVE  DInv'
<1> DEFINE i == worker[tid].next
           key == loads[i + 1]
<1>1. /\ tid \in Crew /\ worker[tid] \in WorkerType /\ worker[tid].state = "working"
      /\ phase \in {"load", "run"} /\ i \in Nat /\ i + 1 \in Nat /\ TypedSetting /\ Typed
      /\ program # "CH_YCSBTest" => key \in KeysOf(loads) /\ i < Length
  BY AtWork DEF DInv
<1>2. /\ Request(tid).op = "get" /\ store' = store /\ phase # "load"
      /\ program # "CH_YCSBTest"
  <2>1. Request(tid).op = "get" /\ store' = store
    BY DEF Get
  <2>2. phase = "load" => Request(tid) = [op |-> "set", key |-> loads[i + 1]]
    BY DEF Request
  <2>3. phase # "load" /\ program = "CH_YCSBTest" => Request(tid).op = "update"
    BY DEF Request, Replays, Checkers
  <2> QED
    BY <2>1, <2>2, <2>3
<1>3. IsHybrid => Request(tid).key = key /\ ~Modifies(i) /\ (key \notin store => Beyond # {})
  <2> SUFFICES ASSUME IsHybrid
               PROVE  Request(tid).key = key /\ ~Modifies(i)
                        /\ (key \notin store => Beyond # {})
    OBVIOUS
  <2>1. Request(tid).key = key /\ ~Modifies(i)
    BY <1>2, HybridRequests
  <2>2. key \notin Beyond => key \in store
    BY <1>1, <1>2, HybridKeys, KeptIsThere
  <2> QED
    BY <1>1, <1>2, <2>1, <2>2
<1>4. CASE To(tid, Next1(tid)) /\ UNCHANGED phase
  <2> DEFINE new == Next1(tid)
  <2>1. new \in WorkerType /\ new.next = i + 1 /\ new.state = "working"
        /\ new.round = worker[tid].round /\ new.nth = worker[tid].nth /\ new.failed = worker[tid].failed
    BY <1>1 DEF Next1, WorkerType
  <2> HIDE DEF new
  <2>2. /\ Typed' /\ Loaded' /\ Crew' = Crew /\ worker'[tid] = new
        /\ \A u \in Crew : u # tid => worker'[u] = worker[u]
    BY <1>2, <1>4, <2>1, Served DEF new
  <2>3. CASE IsHybrid
    <3>1. Before(i + 1) = Before(i)
      <4>1. Before(i) \in Nat
        BY <1>1, BeforeFacts
      <4> QED
        BY <1>1, <1>3, <2>3, <4>1, BeforeFacts
    <3>2. ASSUME Enough, NEW u \in Crew
          PROVE  /\ ~worker'[u].failed
                 /\ worker'[u].nth = IF worker'[u].state = "working" THEN Before(worker'[u].next) ELSE 0
                 /\ \A m \in 0 .. PerRound - 1, q \in Nat :
                      Fresh(u, m, q) \in store'
                        <=> q = worker'[u].round \div 2 /\ Has(u, m)'
      <4>1. /\ ~worker[u].failed
            /\ worker[u].nth = IF worker[u].state = "working" THEN Before(worker[u].next) ELSE 0
            /\ \A m \in 0 .. PerRound - 1, q \in Nat :
                 Fresh(u, m, q) \in store <=> q = worker[u].round \div 2 /\ Has(u, m)
        BY <3>2 DEF DInv, Modifying
      <4>2. worker'[u].round = worker[u].round /\ worker'[u].nth = worker[u].nth
            /\ worker'[u].failed = worker[u].failed
        BY <2>1, <2>2
      <4>3. \A m : Has(u, m)' = Has(u, m)
        BY <4>2 DEF Has
      <4>4. worker'[u].nth = IF worker'[u].state = "working" THEN Before(worker'[u].next) ELSE 0
        BY <1>1, <2>1, <2>2, <3>1, <4>1
      <4> QED
        BY <1>2, <4>1, <4>2, <4>3, <4>4
    <3>3. Modifying'
      <4>1. Enough' = Enough /\ PerRound' = PerRound /\ \A u, m, q : Fresh(u, m, q)' = Fresh(u, m, q)
        BY SameShares
      <4>2. \A n : Before(n)' = Before(n)
        BY SameShares
      <4> QED
        BY <2>2, <3>2, <4>1, <4>2 DEF Modifying
    <3> QED
      BY <2>2, <3>3 DEF DInv
  <2>4. CASE ~IsHybrid
    BY <2>2, <2>4, NotModifying DEF DInv
  <2> QED
    BY <2>3, <2>4
<1>5. CASE /\ Request(tid).key \notin store /\ program \in {"ycsb", "main", "hellohash"}
           /\ phase' = "exited" /\ UNCHANGED worker
  <2>1. program = "ycsb" /\ Length % thread_number # 0
    <3>1. CASE program \in Checkers
      <4>1. Request(tid) = [op |-> worker[tid].op, key |-> key]
        BY <1>2, <3>1 DEF Request, Replays, Checkers
      <4>2. key \in store
        BY <1>1, <1>2, <3>1, KeptIsThere DEF Kept
      <4> QED
        BY <1>5, <4>1, <4>2
    <3>2. CASE program = "ycsb" /\ Length % thread_number = 0
      <4>1. Request(tid) = runs[i + 1]
        BY <1>2, <3>2 DEF Request, Replays, Checkers
      <4>2. runs[i + 1].key \in KeysOf(loads)
        <5>1. i + 1 \in 1 .. Length
          BY <1>1, <1>2 DEF TypedSetting, Length
        <5> QED
          BY <1>1, <3>2, <5>1 DEF TypedSetting, Replays
      <4>3. runs[i + 1].key \in store
        BY <1>2, <3>2, <4>2 DEF DInv, Loaded, Kept
      <4> QED
        BY <1>5, <4>1, <4>3
    <3> QED
      BY <1>5, <3>1, <3>2 DEF Checkers
  <2>2. ~IsHybrid /\ Crew' = Crew
    BY <1>2, <1>5, <2>1 DEF IsHybrid, Crew, Tids, setting
  <2>3. Typed'
    BY <1>1, <1>5, <2>2 DEF Typed, TypedSetting, setting, Length, KeysOf, IsHybrid
  <2>4. Loaded'
    <3>1. \A u \in Crew' : InShare(u)'
      BY <1>5, <2>2, SameShares DEF DInv, Loaded, InShare, AtEnd, setting
    <3>2. \A k \in KeysOf(loads)' : Kept(k)' => k \in store'
      BY <1>2, SameShares DEF DInv, Loaded, setting, KeysOf
    <3>3. program' = "ycsb" /\ Length' % thread_number' # 0
      BY <2>1, SameShares DEF setting
    <3>4. \A u \in Crew' : worker'[u].state # "aborted"
      BY <1>5, <2>2 DEF DInv, Loaded
    <3> QED
      BY <1>5, <3>1, <3>2, <3>3, <3>4 DEF Loaded
  <2> QED
    BY <2>2, <2>3, <2>4, NotModifying DEF DInv
<1>6. CASE /\ Request(tid).key \notin store /\ program = "CH_HybridTest"
           /\ To(tid, [worker[tid] EXCEPT !.state = "aborted"]) /\ UNCHANGED phase
  <2> DEFINE new == [worker[tid] EXCEPT !.state = "aborted"]
  <2>1. IsHybrid /\ Beyond # {}
    BY <1>3, <1>6 DEF IsHybrid
  <2>2. new \in WorkerType /\ new.state = "aborted" /\ new.next = i
    BY <1>1 DEF WorkerType
  <2> HIDE DEF new
  <2>3. /\ Typed' /\ Crew' = Crew /\ worker'[tid] = new
        /\ \A u \in Crew : u # tid => worker'[u] = worker[u]
    BY <1>1, <1>6, <2>2, Stepping DEF new
  <2>4. InShare(tid)'
    <3>1. InShare(tid) /\ program \in Timed
      BY <1>1, <2>1 DEF DInv, Loaded, IsHybrid, Timed
    <3> QED
      BY <2>2, <2>3, <3>1, SameShares DEF InShare, setting
  <2>5. Loaded'
    BY <1>1, <1>2, <1>6, <2>1, <2>3, <2>4, LoadedAfter
  <2>6. Modifying'
    BY <2>1, SameShares DEF Modifying, Enough
  <2> QED
    BY <2>3, <2>5, <2>6 DEF DInv
<1> QED
  BY <1>4, <1>5, <1>6 DEF Get

LEMMA UpdateStep ==
  ASSUME DInv, NEW tid, Working(tid), ~AtEnd(tid), Update(tid), UNCHANGED setting
  PROVE  DInv'
<1> DEFINE i == worker[tid].next
           ok == Request(tid).key \in store
           new == [Next1(tid) EXCEPT !.failed = @ \/ ~ok]
<1>1. /\ tid \in Crew /\ worker[tid] \in WorkerType /\ worker[tid].state = "working"
      /\ phase \in {"load", "run"} /\ i \in Nat /\ i + 1 \in Nat /\ TypedSetting
      /\ program # "CH_YCSBTest" => loads[i + 1] \in KeysOf(loads) /\ i < Length
  BY AtWork
<1>2. Request(tid).op = "update" /\ store' = store /\ UNCHANGED phase /\ To(tid, new)
  BY DEF Update
<1>3. ok \in BOOLEAN
  OBVIOUS
<1>4. phase # "load"
  BY <1>2 DEF Request
<1>5. IsHybrid => Request(tid).key = loads[i + 1] /\ ~Modifies(i)
                    /\ (Enough => ok)
  <2> SUFFICES ASSUME IsHybrid
               PROVE  Request(tid).key = loads[i + 1] /\ ~Modifies(i) /\ (Enough => ok)
    OBVIOUS
  <2>1. Request(tid).key = loads[i + 1] /\ ~Modifies(i)
    BY <1>2, <1>4, HybridRequests
  <2>2. program # "CH_YCSBTest"
    BY DEF IsHybrid
  <2>3. loads[i + 1] \notin Beyond => loads[i + 1] \in store
    BY <1>1, <1>4, <2>2, HybridKeys, KeptIsThere
  <2> QED
    BY <1>1, <2>1, <2>2, <2>3 DEF Enough
<1> HIDE DEF ok
<1>6. /\ new \in WorkerType /\ new.next = i + 1 /\ new.state = "working"
      /\ new.round = worker[tid].round /\ new.nth = worker[tid].nth
      /\ ok => new.failed = worker[tid].failed
  <2> DEFINE f == worker[tid].failed \/ ~ok
  <2>1. f \in BOOLEAN /\ (ok => f = worker[tid].failed)
    BY <1>1 DEF WorkerType
  <2>2. Next1(tid) \in WorkerType /\ Next1(tid).next = i + 1 /\ Next1(tid).state = "working"
        /\ Next1(tid).round = worker[tid].round /\ Next1(tid).nth = worker[tid].nth
        /\ Next1(tid).failed = worker[tid].failed
    BY <1>1 DEF Next1, WorkerType
  <2>3. new = [Next1(tid) EXCEPT !.failed = f]
    BY <2>2
  <2> HIDE DEF f, new
  <2>4. new.failed = f /\ new \in WorkerType /\ new.next = i + 1 /\ new.state = "working"
        /\ new.round = worker[tid].round /\ new.nth = worker[tid].nth
    BY <2>1, <2>2, <2>3 DEF WorkerType
  <2> QED
    BY <2>1, <2>4
<1> HIDE DEF new
<1>7. /\ Typed' /\ Loaded' /\ Crew' = Crew /\ worker'[tid] = new
      /\ \A u \in Crew : u # tid => worker'[u] = worker[u]
  BY <1>2, <1>4, <1>6, Served
<1>8. CASE IsHybrid
  <2>1. Before(i + 1) = Before(i)
    <3>1. Before(i) \in Nat
      BY <1>1, BeforeFacts
    <3> QED
      BY <1>1, <1>5, <1>8, <3>1, BeforeFacts
  <2>2. ASSUME Enough, NEW u \in Crew
        PROVE  /\ ~worker'[u].failed
               /\ worker'[u].nth = IF worker'[u].state = "working" THEN Before(worker'[u].next) ELSE 0
               /\ \A m \in 0 .. PerRound - 1, q \in Nat :
                    Fresh(u, m, q) \in store'
                      <=> q = worker'[u].round \div 2 /\ Has(u, m)'
    <3>1. /\ ~worker[u].failed
          /\ worker[u].nth = IF worker[u].state = "working" THEN Before(worker[u].next) ELSE 0
          /\ \A m \in 0 .. PerRound - 1, q \in Nat :
               Fresh(u, m, q) \in store <=> q = worker[u].round \div 2 /\ Has(u, m)
      BY <2>2 DEF DInv, Modifying
    <3>2. worker'[u].round = worker[u].round /\ worker'[u].nth = worker[u].nth
          /\ worker'[u].failed = worker[u].failed
      BY <1>5, <1>6, <1>7, <1>8, <2>2
    <3>3. \A m : Has(u, m)' = Has(u, m)
      BY <3>2 DEF Has
    <3>4. worker'[u].nth = IF worker'[u].state = "working" THEN Before(worker'[u].next) ELSE 0
      BY <1>1, <1>6, <1>7, <2>1, <3>1
    <3> QED
      BY <1>2, <3>1, <3>2, <3>3, <3>4
  <2>3. Modifying'
    <3>1. Enough' = Enough /\ PerRound' = PerRound /\ \A u, m, q : Fresh(u, m, q)' = Fresh(u, m, q)
      BY SameShares
    <3>2. \A n : Before(n)' = Before(n)
      BY SameShares
    <3> QED
      BY <1>7, <2>2, <3>1, <3>2 DEF Modifying
  <2> QED
    BY <1>7, <2>3 DEF DInv
<1>9. CASE ~IsHybrid
  BY <1>7, <1>9, NotModifying DEF DInv
<1> QED
  BY <1>8, <1>9

\* An insertion or an erasure of CH_HybridTest: of the key of this worker that
\* comes next, which no other modification has.
LEMMA ModifyStep ==
  ASSUME DInv, NEW tid, Working(tid), ~AtEnd(tid), Insert(tid) \/ Erase(tid), UNCHANGED setting
  PROVE  DInv'
<1> DEFINE w == worker[tid]
           i == w.next
           key == Request(tid).key
           even == w.round % 2 = 0
           ok == IF even THEN key \notin store ELSE key \in store
           new == [Next1(tid) EXCEPT !.nth = @ + 1, !.failed = @ \/ ~ok]
<1>1. /\ tid \in Crew /\ tid \in Tids /\ w \in WorkerType /\ w.state = "working"
      /\ phase \in {"load", "run"} /\ i \in Nat /\ i + 1 \in Nat /\ TypedSetting
      /\ program # "CH_YCSBTest" => i < Length
  BY AtWork
<1>2. Request(tid).op \in {"insert", "erase"} /\ UNCHANGED phase
  BY DEF Insert, Erase
<1>3. phase # "load" /\ IsHybrid
  <2>1. phase # "load"
    BY <1>2 DEF Request
  <2>2. program \in Programs /\ Programs \subseteq Replays \cup Timed \cup Checkers
    BY <1>1, ProgramsAssumption DEF TypedSetting
  <2>3. ASSUME program \in Replays PROVE FALSE
    <3>1. Request(tid) = runs[i + 1]
      BY <2>1, <2>3 DEF Request, Replays, Checkers
    <3>2. i + 1 \in 1 .. Length
      <4>1. program # "CH_YCSBTest" /\ Length \in Nat
        BY <1>1, <2>3 DEF Replays, TypedSetting, Length
      <4> QED
        BY <1>1, <4>1
    <3>3. runs[i + 1].op \in {"get", "set"}
      BY <1>1, <2>3, <3>2 DEF TypedSetting
    <3> QED
      BY <1>2, <3>1, <3>3
  <2>4. program # "CH_YCSBTest"
    BY <1>2, <2>1 DEF Request, Replays, Checkers
  <2>5. ASSUME program \in Checkers PROVE FALSE
    <3>1. Request(tid).op = w.op
      BY <2>1, <2>5 DEF Request, Replays, Checkers
    <3> QED
      BY <1>1, <1>2, <3>1 DEF WorkerType
  <2> QED
    BY <2>1, <2>2, <2>3, <2>4, <2>5 DEF Timed, IsHybrid
<1>4. /\ Modifies(i) /\ key = Fresh(tid, w.nth, w.round \div 2)
      /\ even => Request(tid).op = "insert"
      /\ ~even => Request(tid).op = "erase"
      /\ i < Length
  <2>1. Modifies(i)
    BY <1>2, <1>3, HybridRequests
  <2> QED
    BY <1>1, <1>3, <2>1, HybridRequests DEF IsHybrid
<1>5. /\ To(tid, new)
      /\ store' = IF even THEN store \cup {key} ELSE store \ {key}
  <2>1. CASE Insert(tid)
    BY <1>4, <2>1 DEF Insert, Modified
  <2>2. CASE Erase(tid)
    BY <1>4, <2>2 DEF Erase, Modified
  <2> QED
    BY <2>1, <2>2
<1>6. w.nth \in Nat /\ w.round \in Nat /\ w.round \div 2 \in Nat
  BY <1>1 DEF WorkerType
<1> HIDE DEF ok, key, even
<1>7. /\ new \in WorkerType /\ new.next = i + 1 /\ new.state = "working"
      /\ new.round = w.round /\ new.nth = w.nth + 1
      /\ ok => new.failed = w.failed
  <2> DEFINE f == w.failed \/ ~ok
             n == w.nth + 1
  <2>1. f \in BOOLEAN /\ (ok => f = w.failed) /\ n \in Nat
    BY <1>1, <1>6 DEF WorkerType
  <2>2. Next1(tid) \in WorkerType /\ Next1(tid).next = i + 1 /\ Next1(tid).state = "working"
        /\ Next1(tid).round = w.round /\ Next1(tid).nth = w.nth
        /\ Next1(tid).failed = w.failed
    BY <1>1 DEF Next1, WorkerType
  <2>3. new = [Next1(tid) EXCEPT !.nth = n, !.failed = f]
    BY <2>2
  <2> HIDE DEF f, new, n
  <2>4. new.failed = f /\ new \in WorkerType /\ new.next = i + 1 /\ new.state = "working"
        /\ new.round = w.round /\ new.nth = n
    BY <2>1, <2>2, <2>3 DEF WorkerType
  <2> QED
    BY <2>1, <2>4 DEF n
<1> HIDE DEF new
\* What is loaded and kept stays: the keys that are erased are beyond key_range.
<1>8. key_range <= key /\ key \in Nat /\ key_range \in Nat
  <2> DEFINE a == thread_number * w.nth
             b == (w.round \div 2) * key_range
  <2>1. a \in Nat /\ b \in Nat /\ tid \in Nat /\ key_range \in Nat
    BY SMTT(60), <1>1, <1>6 DEF TypedSetting, Tids
  <2>2. (w.round \div 2 + 1) * key_range = b + key_range
    BY <1>6, <2>1
  <2>3. key = a + tid + (b + key_range)
    BY <1>4, <2>2 DEF Fresh
  <2> HIDE DEF a, b
  <2> QED
    BY <2>1, <2>3
<1>9. \A k \in KeysOf(loads) : Kept(k) /\ k \in store => k \in store'
  <2> SUFFICES ASSUME NEW k \in KeysOf(loads), Kept(k), k \in store PROVE k \in store'
    OBVIOUS
  <2>1. k < key_range /\ k \in Nat
    BY <1>1, <1>3, HybridKeys DEF Kept, IsHybrid, Checkers
  <2>2. k # key
    BY <1>8, <2>1
  <2> QED
    BY <1>5, <2>2
<1>10. /\ Typed' /\ Loaded' /\ Crew' = Crew /\ worker'[tid] = new
       /\ \A u \in Crew : u # tid => worker'[u] = worker[u]
  BY <1>2, <1>3, <1>5, <1>7, <1>9, Served
<1>11. ASSUME Enough
       PROVE  /\ w.nth \in 0 .. PerRound - 1 /\ w.nth = Before(i) /\ Before(i + 1) = w.nth + 1
              /\ ok
  <2>1. w.nth = Before(i)
    BY <1>1, <1>11 DEF DInv, Modifying
  <2>2. Before(i + 1) = Before(i) + 1 /\ Before(i + 1) <= PerRound /\ PerRound \in Nat
    <3>1. i + 1 <= Length
      BY <1>1, <1>4 DEF TypedSetting, Length
    <3> QED
      BY <1>1, <1>4, <3>1, BeforeFacts
  <2>3. w.nth \in 0 .. PerRound - 1
    BY <1>6, <2>1, <2>2
  <2>4. key \in store <=> Has(tid, w.nth)
    BY <1>1, <1>4, <1>6, <1>11, <2>3 DEF DInv, Modifying
  <2>5. Has(tid, w.nth) <=> ~even
    BY <1>6 DEF Has, even
  <2> QED
    BY <2>1, <2>2, <2>3, <2>4, <2>5 DEF ok
<1>12. ASSUME Enough, NEW u \in Crew
       PROVE  /\ ~worker'[u].failed
              /\ worker'[u].nth = IF worker'[u].state = "working" THEN Before(worker'[u].next) ELSE 0
  <2>1. /\ ~worker[u].failed
        /\ worker[u].nth = IF worker[u].state = "working" THEN Before(worker[u].next) ELSE 0
    BY <1>12 DEF DInv, Modifying
  <2> QED
    BY <1>7, <1>10, <1>11, <1>12, <2>1
<1>13. ASSUME Enough, NEW u \in Crew, NEW m \in 0 .. PerRound - 1, NEW q \in Nat
       PROVE  Fresh(u, m, q) \in store' <=> q = worker'[u].round \div 2 /\ Has(u, m)'
  <2>1. Fresh(u, m, q) \in store <=> q = worker[u].round \div 2 /\ Has(u, m)
    BY <1>13 DEF DInv, Modifying
  <2>2. u \in Tids
    BY DEF Crew
  <2>3. Fresh(u, m, q) = key => u = tid /\ m = w.nth /\ q = w.round \div 2
    BY <1>1, <1>4, <1>6, <1>11, <1>13, <2>2, FreshDiffers
  <2>4. worker'[u].round = worker[u].round
    BY <1>7, <1>10
  <2>5. CASE u # tid
    <3>1. Has(u, m)' <=> Has(u, m)
      BY <1>10, <2>5 DEF Has
    <3> QED
      BY <1>5, <2>1, <2>3, <2>4, <2>5, <3>1
  <2>6. CASE u = tid /\ (q # w.round \div 2 \/ m # w.nth)
    <3>1. m # w.nth => (Has(u, m)' <=> Has(u, m))
      <4>1. worker'[u].nth = w.nth + 1 /\ worker[u] = w
        BY <1>7, <1>10, <2>6
      <4> QED
        BY <1>6, <2>4, <4>1 DEF Has
    <3> QED
      BY <1>5, <2>1, <2>3, <2>4, <2>6, <3>1
  <2>7. CASE u = tid /\ q = w.round \div 2 /\ m = w.nth
    <3>1. Has(u, m)' <=> even
      <4>1. worker'[u].nth = w.nth + 1 /\ worker'[u].round = w.round
        BY <1>7, <1>10, <2>7
      <4> QED
        BY <1>6, <2>7, <4>1 DEF Has, even
    <3>2. Fresh(u, m, q) \in store' <=> even
      BY <1>4, <1>5, <2>7
    <3> QED
      BY <2>4, <2>7, <3>1, <3>2
  <2> QED
    BY <2>5, <2>6, <2>7
<1>14. Modifying'
  <2>1. Enough' = Enough /\ PerRound' = PerRound /\ \A u, m, q : Fresh(u, m, q)' = Fresh(u, m, q)
    BY SameShares
  <2>2. \A n : Before(n)' = Before(n)
    BY SameShares
  <2> QED
    BY <1>10, <1>12, <1>13, <2>1, <2>2 DEF Modifying
<1> QED
  BY <1>10, <1>14 DEF DInv

LEMMA ServeStep ==
  ASSUME DInv, NEW tid, Serve(tid)
  PROVE  DInv'
BY SetStep, GetStep, UpdateStep, ModifyStep DEF Serve

\* The keys of a worker from one round to the next: what an even round has
\* inserted the next one finds; what it has erased nobody misses.
LEMMA EndRoundStep ==
  ASSUME DInv, NEW tid, EndRound(tid)
  PROVE  DInv'
<1> DEFINE w == worker[tid]
           new == IF program \in Timed
                  THEN [w EXCEPT !.state = "head", !.round = @ + 1, !.nth = 0]
                  ELSE [w EXCEPT !.state = "done"]
<1>1. /\ tid \in Crew /\ tid \in Tids /\ w \in WorkerType /\ w.state = "working"
      /\ AtEnd(tid) /\ To(tid, new) /\ UNCHANGED <<setting, store, phase>>
      /\ TypedSetting /\ Typed
  BY DEF EndRound, DInv, Typed, Working, Crew
<1>2. w.round \in Nat /\ w.nth \in Nat /\ w.next \in Nat
  BY <1>1 DEF WorkerType
<1>3. /\ new \in WorkerType /\ new.next = w.next /\ new.state # "aborted" /\ new.failed = w.failed
      /\ program \in Timed => new.state = "head" /\ new.round = w.round + 1 /\ new.nth = 0
      /\ program \notin Timed => new.state = "done"
  <2>1. CASE program \in Timed
    <3> DEFINE r == w.round + 1
    <3>1. new = [w EXCEPT !.state = "head", !.round = r, !.nth = 0] /\ r \in Nat
      BY <1>2, <2>1
    <3> HIDE DEF r, new
    <3>2. /\ new \in WorkerType /\ new.next = w.next /\ new.failed = w.failed
          /\ new.state = "head" /\ new.round = r /\ new.nth = 0
      BY <1>1, <3>1 DEF WorkerType
    <3> QED
      BY <2>1, <3>2 DEF r
  <2>2. CASE program \notin Timed
    <3>1. new = [w EXCEPT !.state = "done"]
      BY <2>2
    <3> HIDE DEF new
    <3>2. /\ new \in WorkerType /\ new.next = w.next /\ new.failed = w.failed
          /\ new.state = "done"
      BY <1>1, <3>1 DEF WorkerType
    <3> QED
      BY <2>2, <3>2
  <2> QED
    BY <2>1, <2>2
<1> HIDE DEF new
<1>4. /\ Typed' /\ Crew' = Crew /\ worker'[tid] = new
      /\ \A u \in Crew : u # tid => worker'[u] = worker[u]
  BY <1>1, <1>3, Stepping
<1>5. InShare(tid)'
  <2>1. InShare(tid) /\ program' = program /\ \A u : Share(u, Length)' = Share(u, Length)
    BY <1>1, SameShares DEF DInv, Loaded, setting
  <2> QED
    BY <1>1, <1>3, <1>4, <2>1 DEF InShare, AtEnd
<1>6. Loaded'
  <2>1. /\ store \subseteq store' /\ worker[tid].next \in Nat /\ worker'[tid].next \in Nat
        /\ \A i \in worker[tid].next .. worker'[tid].next - 1 : loads[i + 1] \in store'
        /\ Share(tid, Length).first \in Nat
    BY <1>1, <1>2, <1>3, <1>4, ShareFacts
  <2> QED
    BY <1>1, <1>3, <1>4, <1>5, <2>1, LoadedAfter
<1>7. ASSUME Enough, NEW u \in Crew
      PROVE  /\ ~worker'[u].failed
             /\ worker'[u].nth = IF worker'[u].state = "working" THEN Before(worker'[u].next) ELSE 0
             /\ \A m \in 0 .. PerRound - 1, q \in Nat :
                  Fresh(u, m, q) \in store'
                    <=> q = worker'[u].round \div 2 /\ Has(u, m)'
  <2>1. /\ ~worker[u].failed
        /\ worker[u].nth = IF worker[u].state = "working" THEN Before(worker[u].next) ELSE 0
        /\ \A m \in 0 .. PerRound - 1, q \in Nat :
             Fresh(u, m, q) \in store <=> q = worker[u].round \div 2 /\ Has(u, m)
    BY <1>7 DEF DInv, Modifying
  <2>2. CASE u # tid
    <3>1. \A m : Has(u, m)' = Has(u, m)
      BY <1>4, <2>2 DEF Has
    <3> QED
      BY <1>1, <1>4, <2>1, <2>2, <3>1
  <2>3. CASE u = tid
    <3>1. program \in Timed
      BY <1>7 DEF Enough, IsHybrid, Timed
    <3>2. w.nth = PerRound /\ PerRound \in Nat
      <4>1. w.next = Length
        BY <1>1, <1>7, ShareFacts DEF AtEnd, Enough
      <4> QED
        BY <1>1, <2>1, <2>3, <4>1, BeforeFacts
    <3>3. worker'[u].round = w.round + 1 /\ worker'[u].nth = 0 /\ worker'[u].state = "head"
          /\ worker'[u].failed = worker[u].failed
      BY <1>3, <1>4, <2>3, <3>1
    <3>4. ASSUME NEW m \in 0 .. PerRound - 1, NEW q \in Nat
          PROVE  Fresh(u, m, q) \in store' <=> q = worker'[u].round \div 2 /\ Has(u, m)'
      <4>1. Has(u, m) <=> w.round % 2 = 0
        BY <2>3, <3>2 DEF Has
      <4>2. Has(u, m)' <=> (w.round + 1) % 2 # 0
        BY <3>2, <3>3 DEF Has
      <4>3. Fresh(u, m, q) \in store' <=> q = w.round \div 2 /\ w.round % 2 = 0
        BY <1>1, <2>1, <2>3, <4>1
      <4>4. /\ w.round % 2 = 0 <=> (w.round + 1) % 2 # 0
            /\ w.round % 2 = 0 => (w.round + 1) \div 2 = w.round \div 2
        BY <1>2
      <4> QED
        BY <3>3, <4>2, <4>3, <4>4
    <3> QED
      BY <2>1, <3>3, <3>4
  <2> QED
    BY <2>2, <2>3
<1>8. Modifying'
  <2>1. Enough' = Enough /\ PerRound' = PerRound /\ \A u, m, q : Fresh(u, m, q)' = Fresh(u, m, q)
    BY <1>1, SameShares
  <2>2. \A n : Before(n)' = Before(n)
    BY <1>1, SameShares
  <2> QED
    BY <1>4, <1>7, <2>1, <2>2 DEF Modifying
<1> QED
  BY <1>4, <1>6, <1>8 DEF DInv

LEMMA LookAtTimerStep ==
  ASSUME DInv, NEW tid \in DOMAIN worker, LookAtTimer(tid)
  PROVE  DInv'
<1> DEFINE w == worker[tid]
           first == Share(tid, Length).first
           new == IF stopMeasure THEN [w EXCEPT !.state = "done"]
                  ELSE [w EXCEPT !.state = "working", !.next = first]
<1>1. /\ tid \in Crew /\ tid \in Tids /\ w \in WorkerType /\ w.state = "head" /\ phase = "run"
      /\ To(tid, new) /\ UNCHANGED <<setting, store, phase>>
      /\ TypedSetting /\ Typed /\ first \in Nat
  <2>1. tid \in Crew /\ tid \in Tids /\ w \in WorkerType /\ TypedSetting /\ Typed
    BY DEF DInv, Typed, Crew
  <2> QED
    BY <2>1, ShareFacts DEF LookAtTimer
<1>2. /\ new \in WorkerType /\ new.state \in {"done", "working"} /\ new.failed = w.failed
      /\ new.round = w.round /\ new.nth = w.nth
      /\ new.state = "working" => new.next = first
      /\ new.state = "done" => new.next = w.next
  BY <1>1 DEF WorkerType
<1> HIDE DEF new
<1>3. /\ Typed' /\ Crew' = Crew /\ worker'[tid] = new
      /\ \A u \in Crew : u # tid => worker'[u] = worker[u]
  BY <1>1, <1>2, Stepping
<1>4. InShare(tid)'
  <2>1. InShare(tid) /\ program' = program /\ \A u : Share(u, Length)' = Share(u, Length)
    BY <1>1, SameShares DEF DInv, Loaded, setting
  <2>2. program # "CH_YCSBTest" => program \in Timed /\ first <= Share(tid, Length).end
    <3>1. ASSUME program # "CH_YCSBTest" PROVE program \in Timed
      BY <1>1, <2>1, <3>1 DEF InShare
    <3>2. ASSUME IsHybrid PROVE first <= Share(tid, Length).end
      <4>1. Length \in Nat
        BY <1>1 DEF TypedSetting, Length
      <4> QED
        BY <1>1, <3>2, <4>1, ShareFacts
    <3> QED
      BY <3>1, <3>2 DEF Timed, IsHybrid
  <2>3. program # "CH_YCSBTest" => first <= new.next /\ new.next <= Share(tid, Length).end
    BY <1>1, <1>2, <2>1, <2>2 DEF InShare
  <2> QED
    BY <1>3, <2>1, <2>2, <2>3 DEF InShare
<1>5. Loaded'
  BY <1>1, <1>2, <1>3, <1>4, LoadedAfter
<1>6. ASSUME Enough, NEW u \in Crew
      PROVE  /\ ~worker'[u].failed
             /\ worker'[u].nth = IF worker'[u].state = "working" THEN Before(worker'[u].next) ELSE 0
             /\ \A m \in 0 .. PerRound - 1, q \in Nat :
                  Fresh(u, m, q) \in store'
                    <=> q = worker'[u].round \div 2 /\ Has(u, m)'
  <2>1. /\ ~worker[u].failed
        /\ worker[u].nth = IF worker[u].state = "working" THEN Before(worker[u].next) ELSE 0
        /\ \A m \in 0 .. PerRound - 1, q \in Nat :
             Fresh(u, m, q) \in store <=> q = worker[u].round \div 2 /\ Has(u, m)
    BY <1>6 DEF DInv, Modifying
  <2>2. worker'[u].round = worker[u].round /\ worker'[u].nth = worker[u].nth
        /\ worker'[u].failed = worker[u].failed
    BY <1>2, <1>3
  <2>3. \A m : Has(u, m)' = Has(u, m)
    BY <2>2 DEF Has
  <2>4. worker'[u].nth = IF worker'[u].state = "working" THEN Before(worker'[u].next) ELSE 0
    <3>1. CASE u = tid
      <4>1. first = 0 /\ Before(0) = 0
        BY <1>1, <1>6, ShareFacts, BeforeFacts DEF Enough
      <4>2. w.nth = 0
        BY <1>1, <2>1, <3>1
      <4> QED
        BY <1>2, <1>3, <3>1, <4>1, <4>2
    <3> QED
      BY <1>3, <2>1, <3>1
  <2> QED
    BY <1>1, <2>1, <2>2, <2>3, <2>4
<1>7. Modifying'
  <2>1. Enough' = Enough /\ PerRound' = PerRound /\ \A u, m, q : Fresh(u, m, q)' = Fresh(u, m, q)
    BY <1>1, SameShares
  <2>2. \A n : Before(n)' = Before(n)
    BY <1>1, SameShares
  <2> QED
    BY <1>3, <1>6, <2>1, <2>2 DEF Modifying
<1> QED
  BY <1>3, <1>5, <1>7 DEF DInv

-----------------------------------------------------------------------------
(* Steps of the main thread.                                               *)

LEMMA NewWorker ==
  ASSUME TypedSetting, NEW tid \in Tids, NEW op \in {"get", "set"}
  PROVE  LET w == Started(tid, Length, op) IN
         /\ w \in WorkerType /\ w.next = Share(tid, Length).first
         /\ w.round = 0 /\ w.nth = 0 /\ ~w.failed
         /\ w.state = IF program \in Timed THEN "head" ELSE "working"
<1>1. Share(tid, Length).first \in Nat
  BY ShareFacts
<1> QED
  BY <1>1 DEF Started, WorkerType

LEMMA FirstIsInShare ==
  ASSUME TypedSetting, NEW tid \in Tids, program # "CH_YCSBTest"
  PROVE  /\ Share(tid, Length).first <= Share(tid, Length).end
         /\ Share(tid, Length).first \in Nat
<1>1. program \in Replays \/ program \in Checkers \/ IsHybrid
  BY ProgramsAssumption DEF TypedSetting, Timed, IsHybrid
<1>2. Length \in Nat
  BY DEF TypedSetting, Length
<1> QED
  BY <1>1, <1>2, ShareFacts

\* The second phase begins: what the programs keep is loaded.
LEMMA StartRunStep ==
  ASSUME DInv, phase = "load", UNCHANGED setting, StartRun,
         \A k \in KeysOf(loads) : Kept(k) => k \in store',
         IsHybrid => store' = KeysOf(loads)
  PROVE  DInv'
<1>1. /\ phase' = "run" /\ TypedSetting
      /\ program' = program /\ thread_number' = thread_number /\ loads' = loads
      /\ key_range' = key_range /\ runs' = runs
  BY DEF StartRun, setting, DInv, Typed
<1>2. PICK ops \in [Tids -> {"get", "set"}] :
        worker' = [tid \in Tids |-> Started(tid, Length, ops[tid])]
  BY DEF StartRun
<1>3. Crew' = Tids /\ TypedSetting' /\ DOMAIN worker' = Tids
  BY <1>1, <1>2 DEF Crew, Tids, TypedSetting, Length, IsHybrid, KeysOf
<1>4. \A u : Share(u, Length)' = Share(u, Length)
  BY SameShares
<1>5. ASSUME NEW tid \in Tids
      PROVE  /\ worker'[tid] \in WorkerType /\ worker'[tid].next = Share(tid, Length).first
             /\ worker'[tid].round = 0 /\ worker'[tid].nth = 0 /\ ~worker'[tid].failed
             /\ worker'[tid].state = IF program \in Timed THEN "head" ELSE "working"
  <2> DEFINE o == ops[tid]
  <2>1. worker'[tid] = Started(tid, Length, o) /\ o \in {"get", "set"}
    BY <1>2
  <2> HIDE DEF o
  <2> QED
    BY <1>1, <2>1, NewWorker
<1>6. Typed'
  <2>1. worker' = [tid \in DOMAIN worker' |-> worker'[tid]]
    BY <1>2
  <2> QED
    BY <1>1, <1>3, <1>5, <2>1 DEF Typed
<1>7. Loaded'
  <2>1. ASSUME NEW tid \in Tids PROVE InShare(tid)'
    BY <1>1, <1>4, <1>5, FirstIsInShare DEF InShare
  <2>2. \A k \in KeysOf(loads)' : Kept(k)' => k \in store'
    BY <1>1, SameShares DEF KeysOf
  <2>3. \A tid \in Crew' : worker'[tid].state # "aborted"
    BY <1>3, <1>5
  <2> QED
    BY <1>1, <1>3, <2>1, <2>2, <2>3 DEF Loaded
<1>8. ASSUME Enough, NEW u \in Tids
      PROVE  /\ ~worker'[u].failed /\ worker'[u].state = "head" /\ worker'[u].nth = 0
             /\ \A m \in 0 .. PerRound - 1, q \in Nat :
                  /\ Fresh(u, m, q) \notin store' /\ ~Has(u, m)'
  <2>1. /\ ~worker'[u].failed /\ worker'[u].state = "head" /\ worker'[u].nth = 0
        /\ worker'[u].round = 0
    BY <1>5, <1>8 DEF Enough, IsHybrid, Timed
  <2>2. ASSUME NEW m \in 0 .. PerRound - 1, NEW q \in Nat
        PROVE  Fresh(u, m, q) \notin store' /\ ~Has(u, m)'
    <3>1. Fresh(u, m, q) \in Nat /\ key_range <= Fresh(u, m, q) /\ key_range \in Nat
      BY <1>1, <1>8, FreshDiffers DEF TypedSetting
    <3>2. \A k \in KeysOf(loads) : k \in Nat /\ k < key_range
      <4>1. \A k \in KeysOf(loads) : k \in Nat /\ ~(k >= key_range)
        BY <1>1, <1>8, HybridKeys DEF Enough, Beyond
      <4> QED
        BY <3>1, <4>1
    <3>3. store' = KeysOf(loads)
      BY <1>8 DEF Enough
    <3>4. 0 % 2 = 0
      OBVIOUS
    <3> QED
      BY <2>1, <3>1, <3>2, <3>3, <3>4 DEF Has
  <2> QED
    BY <2>1, <2>2
<1>9. Modifying'
  <2>1. Enough' = Enough /\ PerRound' = PerRound /\ \A u, m, q : Fresh(u, m, q)' = Fresh(u, m, q)
    BY SameShares
  <2> QED
    BY <1>3, <1>8, <2>1 DEF Modifying
<1> QED
  BY <1>6, <1>7, <1>9 DEF DInv

LEMMA LoadAloneStep ==
  ASSUME DInv, LoadAlone
  PROVE  DInv'
BY StartRunStep DEF LoadAlone

\* All shares are loaded, and without a rest they are all there is.
LEMMA JoinLoadStep ==
  ASSUME DInv, JoinLoad
  PROVE  DInv'
<1>1. /\ phase = "load" /\ UNCHANGED setting /\ StartRun /\ store' = store
      /\ worker # <<>> /\ \A tid \in Tids : Finished(tid)
      /\ TypedSetting /\ worker = [tid \in DOMAIN worker |-> worker[tid]]
      /\ DOMAIN worker = Crew
  BY DEF JoinLoad, Joined, DInv, Typed
<1>2. program \in Replays
  <2> SUFFICES ASSUME program \notin Replays PROVE FALSE
    OBVIOUS
  <2>1. DOMAIN worker = {}
    BY <1>1 DEF Crew
  <2>2. worker = <<>>
    BY <1>1, <2>1
  <2> QED
    BY <1>1, <2>2
<1>3. ~IsHybrid /\ program \notin Checkers /\ Crew = Tids
  BY <1>2 DEF IsHybrid, Replays, Checkers, Crew
<1>4. ASSUME NEW tid \in Tids, NEW i \in Share(tid, Length).first .. Share(tid, Length).end - 1
      PROVE  loads[i + 1] \in store
  <2>1. worker[tid].state = "done" /\ worker[tid].next = Share(tid, Length).end
    <3>1. InShare(tid) /\ worker[tid].state # "aborted" /\ Finished(tid)
      BY <1>1, <1>3 DEF DInv, Loaded
    <3>2. program # "CH_YCSBTest" /\ program \notin Timed
      BY <1>2 DEF Replays, Timed
    <3> QED
      BY <3>1, <3>2 DEF InShare, AtEnd, Finished
  <2> QED
    BY <1>1, <1>3, <1>4, <2>1 DEF DInv, Loaded
<1>5. ASSUME NEW k \in KeysOf(loads), Kept(k) PROVE k \in store
  <2>1. program = "ycsb" /\ Length % thread_number = 0
    BY <1>3, <1>5 DEF Kept
  <2>2. PICK j \in 1 .. Length : k = loads[j]
    BY <1>1 DEF KeysOf, TypedSetting, Length
  <2> DEFINE n == Length
             t == thread_number
             i == j - 1
  <2>3. n \in Nat /\ t \in Nat \ {0} /\ n % t = 0 /\ i \in 0 .. n - 1 /\ j = i + 1
    BY <1>1, <2>1 DEF TypedSetting, Length
  <2> HIDE DEF n, t, i
  <2>4. PICK u \in 0 .. t - 1 : i \in u * (n \div t) .. (u + 1) * (n \div t) - 1
    BY <2>3, SharesCover
  <2>5. u \in Tids
    BY DEF Tids, t
  <2>6. i \in Share(u, Length).first .. Share(u, Length).end - 1
    BY <1>1, <1>2, <2>4, <2>5, ShareFacts DEF n, t
  <2> QED
    BY <1>4, <2>2, <2>3, <2>5, <2>6
<1> QED
  BY <1>1, <1>3, <1>5, StartRunStep

\* A step that changes no worker and no key, and a phase only after loading.
LEMMA PhaseStep ==
  ASSUME DInv, UNCHANGED <<setting, store, worker>>,
         phase' = phase \/ (phase = "run" /\ phase' = "over")
  PROVE  DInv'
<1>1. /\ UNCHANGED setting /\ store' = store /\ worker' = worker
      /\ (phase = "load" <=> phase' = "load") /\ (phase' = "exited" => phase = "exited")
  OBVIOUS
<1>2. program' = program /\ thread_number' = thread_number /\ key_range' = key_range /\ loads' = loads
  BY <1>1 DEF setting
<1>3. Crew' = Crew /\ TypedSetting'
  BY <1>1, <1>2 DEF Crew, Tids, setting, DInv, Typed, TypedSetting, Length, IsHybrid, KeysOf
<1>4. Typed'
  BY <1>1, <1>3 DEF DInv, Typed
<1>5. /\ \A u : Share(u, Length)' = Share(u, Length)
      /\ Length' = Length /\ \A k : Kept(k)' = Kept(k)
  BY <1>1, SameShares
<1>6. Loaded'
  <2>1. \A u \in Crew' : InShare(u)'
    BY <1>1, <1>2, <1>3, <1>5 DEF DInv, Loaded, InShare, AtEnd
  <2>2. phase' = "load" =>
          \A u \in Crew' : \A i \in Share(u, Length)'.first .. worker'[u].next - 1 :
            loads'[i + 1] \in store'
    BY <1>1, <1>2, <1>3, <1>5 DEF DInv, Loaded
  <2>3. phase' # "load" => \A k \in KeysOf(loads)' : Kept(k)' => k \in store'
    BY <1>1, <1>2, <1>5 DEF DInv, Loaded, KeysOf
  <2>4. phase' = "exited" => program' = "ycsb" /\ Length' % thread_number' # 0
    BY <1>1, <1>2, <1>5 DEF DInv, Loaded
  <2>5. \A u \in Crew' : worker'[u].state = "aborted" => (IsHybrid /\ Beyond # {})'
    BY <1>1, <1>2, <1>3 DEF DInv, Loaded, IsHybrid, KeysOf, Beyond
  <2> QED
    BY <2>1, <2>2, <2>3, <2>4, <2>5 DEF Loaded
<1>7. Modifying'
  <2>1. Enough' = Enough /\ PerRound' = PerRound /\ \A u, m, q : Fresh(u, m, q)' = Fresh(u, m, q)
    BY <1>1, SameShares
  <2>2. \A n : Before(n)' = Before(n)
    BY <1>1, SameShares
  <2>3. \A u, m : Has(u, m)' = Has(u, m)
    BY <1>1 DEF Has
  <2> QED
    BY <1>1, <1>3, <2>1, <2>2, <2>3 DEF DInv, Modifying
<1> QED
  BY <1>4, <1>6, <1>7 DEF DInv

-----------------------------------------------------------------------------
(* The theorems.                                                           *)

LEMMA DriversInit == Init => DInv
<1> SUFFICES ASSUME Init PROVE DInv
  OBVIOUS
<1>1. /\ program \in Programs /\ thread_number \in 1 .. MaxThreads /\ store = {} /\ phase = "load"
      /\ key_range \in IF program = "CH_HybridTest" THEN KeyRanges ELSE {0}
  BY DEF Init
<1>2. PICK n \in Counts :
       /\ loads \in CASE program = "CH_HybridTest" -> Generated(n) \cup Reread(n)
                      [] program = "main"          -> Database(n)
                      [] OTHER                     -> {Trace(n)}
       /\ runs \in CASE program \in Replays -> [1 .. n -> [op : {"get", "set"}, key : 1 .. n]]
                     [] OTHER -> {[i \in 1 .. n |-> [op |-> "set", key |-> i]]}
  BY DEF Init
<1>3. n \in Nat /\ thread_number \in Nat \ {0} /\ key_range \in Nat
      /\ (IsHybrid => key_range # 0)
  BY <1>1, NumbersAssumption DEF IsHybrid
<1>4. loads \in Seq(Nat)
      /\ (program \in Replays => KeysOf(loads) = 1 .. n /\ Length = n)
  <2>1. CASE IsHybrid
    <3>1. \/ loads \in [1 .. n -> {0, key_range - 1, key_range}]
          \/ loads \in [1 .. n -> FileKeys \cup {0}]
      BY <1>2, <2>1 DEF IsHybrid, Generated, Reread
    <3>2. {0, key_range - 1, key_range} \subseteq Nat /\ FileKeys \cup {0} \subseteq Nat
      BY <1>3, <2>1, NumbersAssumption
    <3>3. loads \in [1 .. n -> Nat]
      BY <3>1, <3>2
    <3>4. loads \in Seq(Nat)
      BY <1>3, <3>3
    <3> QED
      BY <2>1, <3>4 DEF IsHybrid, Replays
  <2>2. CASE program = "main"
    <3>1. PICK from \in 0 .. n : loads = [i \in 1 .. n - from |-> from + i]
      BY <1>2, <2>2 DEF Database
    <3>2. n - from \in Nat /\ from \in Nat
      BY <1>3
    <3>3. loads \in Seq(Nat)
      BY <3>1, <3>2
    <3> QED
      BY <2>2, <3>3 DEF IsHybrid, Replays
  <2>3. CASE ~IsHybrid /\ program # "main"
    <3>1. loads = [i \in 1 .. n |-> i]
      BY <1>2, <2>3 DEF IsHybrid, Trace
    <3>2. loads \in Seq(Nat) /\ Len(loads) = n
      BY <1>3, <3>1
    <3>3. KeysOf(loads) = 1 .. n
      BY <3>1 DEF KeysOf
    <3> QED
      BY <2>3, <3>2, <3>3 DEF Length
  <2> QED
    BY <2>1, <2>2, <2>3
<1>5. program \in Replays => runs \in [1 .. Length -> [op : {"get", "set"}, key : KeysOf(loads)]]
  BY <1>2, <1>4
<1>6. TypedSetting
  BY <1>1, <1>3, <1>4, <1>5 DEF TypedSetting
<1>7. CASE program \in Replays
  <2>1. worker = [tid \in Tids |-> Started(tid, Length, "set")] /\ Crew = Tids /\ ~IsHybrid
    BY <1>1, <1>7 DEF Init, Crew, IsHybrid, Replays
  <2>2. ASSUME NEW tid \in Tids
        PROVE  /\ worker[tid] \in WorkerType /\ worker[tid].next = Share(tid, Length).first
               /\ worker[tid].state = "working"
    BY <1>6, <1>7, <2>1, NewWorker DEF Replays, Timed
  <2>3. Typed
    BY <1>1, <1>6, <2>1, <2>2 DEF Typed
  <2>4. Loaded
    <3>1. ASSUME NEW tid \in Tids
          PROVE  InShare(tid) /\ Share(tid, Length).first \in Nat
      <4>1. program # "CH_YCSBTest"
        BY <1>7 DEF Replays
      <4> QED
        BY <1>6, <2>2, <4>1, FirstIsInShare DEF InShare
    <3>2. ASSUME NEW tid \in Tids, NEW i \in Share(tid, Length).first .. worker[tid].next - 1
          PROVE  FALSE
      BY <2>2, <3>1, <3>2
    <3> QED
      BY <1>1, <2>1, <2>2, <3>1, <3>2 DEF Loaded
  <2> QED
    BY <2>1, <2>3, <2>4 DEF DInv, Modifying, Enough
<1>8. CASE program \notin Replays
  <2>1. worker = <<>> /\ Crew = {}
    BY <1>1, <1>8 DEF Init, Crew
  <2>2. worker = [tid \in DOMAIN worker |-> worker[tid]] /\ DOMAIN worker = {}
    BY <2>1
  <2> QED
    BY <1>1, <1>6, <2>1, <2>2 DEF DInv, Typed, Loaded, Modifying
<1> QED
  BY <1>7, <1>8

LEMMA DriversStep == DInv /\ [Next]_vars => DInv'
<1> SUFFICES ASSUME DInv, [Next]_vars PROVE DInv'
  OBVIOUS
<1>1. CASE UNCHANGED vars
  BY <1>1, PhaseStep DEF vars, setting
<1>2. ASSUME Main PROVE DInv'
  <2>1. ASSUME StopMeasure PROVE DInv'
    BY <2>1, PhaseStep DEF StopMeasure
  <2>2. ASSUME JoinRun PROVE DInv'
    BY <2>2, PhaseStep DEF JoinRun
  <2> QED
    BY <1>2, <2>1, <2>2, LoadAloneStep, JoinLoadStep DEF Main
<1>3. ASSUME NEW tid \in DOMAIN worker, WorkerStep(tid) PROVE DInv'
  BY <1>3, ServeStep, EndRoundStep, LookAtTimerStep DEF WorkerStep
<1> QED
  BY <1>1, <1>2, <1>3 DEF Next

\* The inductive invariant: which keys are loaded, and which of its own keys each
\* worker has inserted.
THEOREM DriversInvariant == Spec => []DInv
<1> QED
  BY DriversInit, DriversStep, PTL DEF Spec

\* A program exits only if requests were left over in the division among its
\* threads.
THEOREM ExitOnlyByRest == Spec => []ExitsOnlyByRest
<1>1. DInv => ExitsOnlyByRest
  BY DEF DInv, Loaded, ExitsOnlyByRest
<1> QED
  BY <1>1, DriversInvariant, PTL

\* An exception ends a worker of CH_HybridTest only if a key was loaded that is
\* not below key_range: the others nobody erases.
THEOREM AbortOnlyBeyondRange == Spec => []AbortsOnlyBeyondRange
<1>1. DInv => AbortsOnlyBeyondRange
  BY DEF DInv, Typed, Loaded, AbortsOnlyBeyondRange
<1> QED
  BY <1>1, DriversInvariant, PTL

\* No modification of CH_HybridTest fails when there are keys enough for a round:
\* what a worker erases it has inserted, whatever rounds the others are in.
THEOREM ModificationSucceeds == Spec => []ModificationsSucceed
<1>1. DInv => ModificationsSucceed
  BY DEF DInv, Typed, Modifying, Enough, IsHybrid, ModificationsSucceed
<1> QED
  BY <1>1, DriversInvariant, PTL
=============================================================================
