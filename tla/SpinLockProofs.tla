--------------------------- MODULE SpinLockProofs ---------------------------
(***************************************************************************)
(* Proofs about SpinLock.tla for any finite set of threads.                *)
(*                                                                         *)
(* The assumption of every theorem is that write_unlock starts FALSE, as   *)
(* the default constructor of spinlock has it; the run spinlock_uninit     *)
(* shows what happens without it.                                          *)
(***************************************************************************)
EXTENDS SpinLock, FiniteSetTheorems, TLAPS

FlagStartsFalse == InitWriteUnlock \subseteq {FALSE}

-----------------------------------------------------------------------------
(* The inductive invariant.                                                *)

WritePlaces ==
  {"lock_flag", "up_flag", "writing", "deg_flag", "deg_add",
   "un_bit", "un_flag", "un_clear", "un_sub1"}

ReadPlaces ==
  {"reading", "refused", "up_load", "up_cas", "up_drop", "up_drain",
   "un_bit", "un_flag", "un_sub2"}

FreePlaces ==
  {"idle", "lock_load", "lock_cas", "lock_drain",
   "rlock_spin", "rlock_add", "rlock_back"}

\* What a thread has been given agrees with where it is.
HeldFitsPlace ==
  \A t \in Threads :
    /\ held[t] = "write" => pc[t] \in WritePlaces
    /\ held[t] = "read" => pc[t] \in ReadPlaces
    /\ held[t] = "none" => pc[t] \in FreePlaces

\* The flag is set exactly while a writer is between the stores that set and
\* reset it.
FlagExact ==
  write_unlock <=>
    \E t \in Threads :
      /\ held[t] = "write"
      /\ pc[t] \in {"writing", "deg_flag", "un_bit", "un_flag", "un_clear"}

\* A claimant that has seen a word without shares sees one that stays so: no
\* other thread reads.  An upgrader has not seen one before it gives up its
\* own share.
DrainSound ==
  \A t \in Threads :
    /\ pc[t] \in {"lock_drain", "up_drain"} /\ ReaderBits(v[t]) = 0 =>
         \A u \in Threads \ {t} : held[u] # "read"
    /\ pc[t] = "up_drop" => ReaderBits(v[t]) # 0

IInv ==
  /\ TypeOK
  /\ CountsExact
  /\ MutualExclusion
  /\ HeldFitsPlace
  /\ FlagExact
  /\ DrainSound

-----------------------------------------------------------------------------
LEMMA CountedFinite ==
  /\ IsFiniteSet(Counted)
  /\ Cardinality(Counted) \in Nat
  /\ Cardinality(Counted) = 0 <=> Counted = {}
<1>1. IsFiniteSet(Counted)
  BY ThreadsFinite, FS_Subset DEF Counted
<1> QED
  BY <1>1, FS_CardinalityType, FS_EmptySet

\* The two parts of the word.
LEMMA WordMeaning ==
  ASSUME IInv
  PROVE  /\ WriterBit(rwlock) = 0 <=> Owners = {}
         /\ WriterBit(rwlock) = 1 <=> Owners # {}
         /\ ReaderBits(rwlock) = 2 * Cardinality(Counted)
         /\ ReaderBits(rwlock) = 0 <=> Counted = {}
<1> DEFINE n == Cardinality(Counted)
<1>1. n \in Nat /\ (n = 0 <=> Counted = {})
  BY CountedFinite
<1> HIDE DEF n
<1>2. \A k \in Nat : (2 * k) % 2 = 0 /\ (2 * k + 1) % 2 = 1
  OBVIOUS
<1>3. rwlock = 2 * n + (IF Owners = {} THEN 0 ELSE 1)
  BY DEF IInv, CountsExact, n
<1>4. CASE Owners = {}
  BY <1>1, <1>2, <1>3, <1>4 DEF WriterBit, ReaderBits, n
<1>5. CASE Owners # {}
  BY <1>1, <1>2, <1>3, <1>5 DEF WriterBit, ReaderBits, n
<1> QED
  BY <1>4, <1>5

THEOREM InitIInv == FlagStartsFalse /\ Init => IInv
<1> SUFFICES ASSUME FlagStartsFalse, Init PROVE IInv
  OBVIOUS
<1>1. Counted = {} /\ Owners = {}
  BY DEF Init, Counted, Owners
<1>2. CountsExact
  BY <1>1, FS_EmptySet DEF CountsExact, Init
<1>3. TypeOK
  BY DEF Init, TypeOK, FlagStartsFalse, Locations
<1> QED
  BY <1>2, <1>3 DEF IInv, Init, MutualExclusion, HeldFitsPlace, FlagExact, DrainSound,
     FlagStartsFalse, FreePlaces

\* A step that leaves the word alone and moves no thread in or out of the two
\* sets keeps the count.
LEMMA CountKept ==
  ASSUME CountsExact, Counted' = Counted, Owners' = Owners, rwlock' = rwlock
  PROVE  CountsExact'
BY DEF CountsExact

\* The steps that leave the word alone and only move a thread along, one per
\* action.
LEMMA StepAside ==
  ASSUME IInv, NEW t \in Threads,
         \/ CallLock(t) \/ LockLoad(t) \/ LockFlag(t)
         \/ CallRLock(t) \/ RLockSpin(t)
         \/ CallUpgrade(t) \/ UpLoad(t) \/ UpFlag(t)
         \/ CallDegrade(t) \/ DegFlag(t)
         \/ CallUnlock(t) \/ UnBit(t) \/ UnFlag(t) \/ UnClear(t)
  PROVE  IInv'
<1> USE DEF IInv, Goto, TypeOK, HeldFitsPlace, WritePlaces, ReadPlaces, FreePlaces
<1>1. CASE CallLock(t)
  <2>1. Counted' = Counted /\ Owners' = Owners
    BY <1>1 DEF CallLock, Counted, Owners
  <2>2. CountsExact'
    BY <1>1, <2>1, CountKept DEF CallLock
  <2>3. TypeOK'
    BY <1>1 DEF CallLock, Locations
  <2> QED
    BY <1>1, <2>2, <2>3 DEF CallLock, MutualExclusion, FlagExact, DrainSound
<1>2. CASE LockLoad(t)
  <2>1. Counted' = Counted /\ Owners' = Owners
    BY <1>2 DEF LockLoad, Load, Counted, Owners
  <2>2. CountsExact'
    BY <1>2, <2>1, CountKept DEF LockLoad, Load
  <2>3. TypeOK'
    BY <1>2 DEF LockLoad, Load, Locations
  <2> QED
    BY <1>2, <2>2, <2>3 DEF LockLoad, Load, MutualExclusion, FlagExact, DrainSound
<1>3. CASE LockFlag(t)
  <2>1. Counted' = Counted /\ Owners' = Owners
    BY <1>3 DEF LockFlag, Counted, Owners
  <2>2. CountsExact'
    BY <1>3, <2>1, CountKept DEF LockFlag
  <2>3. TypeOK'
    BY <1>3 DEF LockFlag, Locations
  <2> QED
    BY <1>3, <2>2, <2>3 DEF LockFlag, MutualExclusion, FlagExact, DrainSound
<1>4. CASE CallRLock(t)
  <2>1. Counted' = Counted /\ Owners' = Owners
    BY <1>4 DEF CallRLock, Counted, Owners
  <2>2. CountsExact'
    BY <1>4, <2>1, CountKept DEF CallRLock
  <2>3. TypeOK'
    BY <1>4 DEF CallRLock, Locations
  <2> QED
    BY <1>4, <2>2, <2>3 DEF CallRLock, MutualExclusion, FlagExact, DrainSound
<1>5. CASE RLockSpin(t)
  <2>1. Counted' = Counted /\ Owners' = Owners
    BY <1>5 DEF RLockSpin, Counted, Owners
  <2>2. CountsExact'
    BY <1>5, <2>1, CountKept DEF RLockSpin
  <2>3. TypeOK'
    BY <1>5 DEF RLockSpin, Locations
  <2> QED
    BY <1>5, <2>2, <2>3 DEF RLockSpin, MutualExclusion, FlagExact, DrainSound
<1>6. CASE CallUpgrade(t)
  <2>1. Counted' = Counted /\ Owners' = Owners
    BY <1>6 DEF CallUpgrade, Counted, Owners
  <2>2. CountsExact'
    BY <1>6, <2>1, CountKept DEF CallUpgrade
  <2>3. TypeOK'
    BY <1>6 DEF CallUpgrade, Locations
  <2> QED
    BY <1>6, <2>2, <2>3 DEF CallUpgrade, MutualExclusion, FlagExact, DrainSound
<1>7. CASE UpLoad(t)
  <2>1. Counted' = Counted /\ Owners' = Owners
    BY <1>7 DEF UpLoad, Load, Counted, Owners
  <2>2. CountsExact'
    BY <1>7, <2>1, CountKept DEF UpLoad, Load
  <2>3. TypeOK'
    BY <1>7 DEF UpLoad, Load, Locations
  <2> QED
    BY <1>7, <2>2, <2>3 DEF UpLoad, Load, MutualExclusion, FlagExact, DrainSound
<1>8. CASE UpFlag(t)
  <2>1. Counted' = Counted /\ Owners' = Owners
    BY <1>8 DEF UpFlag, Counted, Owners
  <2>2. CountsExact'
    BY <1>8, <2>1, CountKept DEF UpFlag
  <2>3. TypeOK'
    BY <1>8 DEF UpFlag, Locations
  <2> QED
    BY <1>8, <2>2, <2>3 DEF UpFlag, MutualExclusion, FlagExact, DrainSound
<1>9. CASE CallDegrade(t)
  <2>1. Counted' = Counted /\ Owners' = Owners
    BY <1>9 DEF CallDegrade, Counted, Owners
  <2>2. CountsExact'
    BY <1>9, <2>1, CountKept DEF CallDegrade
  <2>3. TypeOK'
    BY <1>9 DEF CallDegrade, Locations
  <2> QED
    BY <1>9, <2>2, <2>3 DEF CallDegrade, MutualExclusion, FlagExact, DrainSound
<1>10. CASE DegFlag(t)
  <2>1. Counted' = Counted /\ Owners' = Owners
    BY <1>10 DEF DegFlag, Counted, Owners
  <2>2. CountsExact'
    BY <1>10, <2>1, CountKept DEF DegFlag
  <2>3. TypeOK'
    BY <1>10 DEF DegFlag, Locations
  <2> QED
    BY <1>10, <2>2, <2>3 DEF DegFlag, MutualExclusion, FlagExact, DrainSound
<1>11. CASE CallUnlock(t)
  <2>1. Counted' = Counted /\ Owners' = Owners
    BY <1>11 DEF CallUnlock, Counted, Owners
  <2>2. CountsExact'
    BY <1>11, <2>1, CountKept DEF CallUnlock
  <2>3. TypeOK'
    BY <1>11 DEF CallUnlock, Locations
  <2> QED
    BY <1>11, <2>2, <2>3 DEF CallUnlock, MutualExclusion, FlagExact, DrainSound
<1>12. CASE UnBit(t)
  <2>0. held[t] = "write" => WriterBit(rwlock) = 1
    BY WordMeaning DEF Owners
  <2>1. Counted' = Counted /\ Owners' = Owners
    BY <1>12 DEF UnBit, Counted, Owners
  <2>2. CountsExact'
    BY <1>12, <2>1, CountKept DEF UnBit
  <2>3. TypeOK'
    BY <1>12 DEF UnBit, Locations
  <2> QED
    BY <1>12, <2>0, <2>2, <2>3 DEF UnBit, MutualExclusion, FlagExact, DrainSound
<1>13. CASE UnFlag(t)
  <2>1. Counted' = Counted /\ Owners' = Owners
    BY <1>13 DEF UnFlag, Counted, Owners
  <2>2. CountsExact'
    BY <1>13, <2>1, CountKept DEF UnFlag
  <2>3. TypeOK'
    BY <1>13 DEF UnFlag, Locations
  <2> QED
    BY <1>13, <2>2, <2>3 DEF UnFlag, MutualExclusion, FlagExact, DrainSound
<1>14. CASE UnClear(t)
  <2>1. Counted' = Counted /\ Owners' = Owners
    BY <1>14 DEF UnClear, Counted, Owners
  <2>2. CountsExact'
    BY <1>14, <2>1, CountKept DEF UnClear
  <2>3. TypeOK'
    BY <1>14 DEF UnClear, Locations
  <2> QED
    BY <1>14, <2>2, <2>3 DEF UnClear, MutualExclusion, FlagExact, DrainSound
<1> QED
  BY <1>1, <1>2, <1>3, <1>4, <1>5, <1>6, <1>7, <1>8, <1>9, <1>10, <1>11, <1>12, <1>13, <1>14

\* The word of which a compare-and-swap of lock() or try_upgradeLock()
\* succeeds has no writer.
LEMMA EvenWord ==
  ASSUME NEW w \in Nat
  PROVE  /\ ReaderBits(w) \in Nat
         /\ WriterBit(ReaderBits(w)) = 0
         /\ WithWriter(w) = ReaderBits(w) + 1
<1>1. PICK k \in Nat : w = 2 * k \/ w = 2 * k + 1
  <2>1. w \div 2 \in Nat /\ (w = 2 * (w \div 2) \/ w = 2 * (w \div 2) + 1)
    OBVIOUS
  <2> QED
    BY <2>1
<1>2. ReaderBits(w) = 2 * k
  BY <1>1 DEF ReaderBits
<1> QED
  BY <1>1, <1>2 DEF WriterBit, WithWriter

(* The steps that change the word or what a thread holds.                  *)

LEMMA StepLockCas ==
  ASSUME IInv, NEW t \in Threads, LockCas(t)
  PROVE  IInv'
<1> USE DEF IInv, TypeOK, HeldFitsPlace, WritePlaces, ReadPlaces, FreePlaces, Goto
<1>0. pc[t] = "lock_cas" /\ held[t] = "none"
  BY DEF LockCas
<1>1. CASE rwlock = ReaderBits(v[t])
  <2>1. Owners = {} /\ rwlock' = rwlock + 1
    BY <1>1, EvenWord, WordMeaning DEF LockCas
  <2>2. Counted' = Counted /\ Owners' = Owners \cup {t}
    BY <1>0, <1>1 DEF LockCas, Counted, Owners
  <2>3. CountsExact'
    BY <2>1, <2>2, CountedFinite DEF CountsExact
  <2>4. ReaderBits(v[t]) = 0 => \A u \in Threads \ {t} : held[u] # "read"
    BY <1>1, <2>1, EvenWord, WordMeaning DEF Counted, Owners, ReaderBits, WriterBit
  <2>5. TypeOK'
    BY <1>1, <2>1 DEF LockCas, Locations
  <2> QED
    BY <1>0, <1>1, <2>3, <2>4, <2>5
    DEF LockCas, MutualExclusion, FlagExact, DrainSound
<1>2. CASE rwlock # ReaderBits(v[t])
  <2>1. Counted' = Counted /\ Owners' = Owners
    BY <1>0, <1>2 DEF LockCas, Counted, Owners
  <2>2. CountsExact'
    BY <1>2, <2>1, CountKept DEF LockCas
  <2> QED
    BY <1>0, <1>2, <2>2
    DEF LockCas, Forget, Locations, MutualExclusion, FlagExact, DrainSound
<1> QED
  BY <1>1, <1>2

LEMMA StepUpCas ==
  ASSUME IInv, NEW t \in Threads, UpCas(t)
  PROVE  IInv'
<1> USE DEF IInv, TypeOK, HeldFitsPlace, WritePlaces, ReadPlaces, FreePlaces, Goto
<1>0. pc[t] = "up_cas" /\ held[t] = "read" /\ t \in Counted
  BY DEF UpCas, Counted
<1>1. CASE rwlock = ReaderBits(v[t])
  <2>1. Owners = {} /\ rwlock' = rwlock + 1
    BY <1>1, EvenWord, WordMeaning DEF UpCas
  <2>2. Counted' = Counted /\ Owners' = Owners \cup {t}
    BY <1>0, <1>1 DEF UpCas, Counted, Owners
  <2>3. CountsExact'
    BY <2>1, <2>2, CountedFinite DEF CountsExact
  <2>4. ReaderBits(v[t]) # 0
    BY <1>0, <1>1, <2>1, EvenWord, WordMeaning DEF ReaderBits, WriterBit
  <2>5. TypeOK'
    BY <1>1, <2>1 DEF UpCas, Locations
  <2> QED
    BY <1>0, <1>1, <2>3, <2>4, <2>5
    DEF UpCas, MutualExclusion, FlagExact, DrainSound
<1>2. CASE rwlock # ReaderBits(v[t])
  <2>1. Counted' = Counted /\ Owners' = Owners
    BY <1>0, <1>2 DEF UpCas, Counted, Owners
  <2>2. CountsExact'
    BY <1>2, <2>1, CountKept DEF UpCas
  <2> QED
    BY <1>0, <1>2, <2>2
    DEF UpCas, Forget, Locations, MutualExclusion, FlagExact, DrainSound
<1> QED
  BY <1>1, <1>2

\* A claimant whose last look at the word showed no share is alone.
LEMMA AloneAfterDrain ==
  ASSUME IInv, NEW t \in Threads, pc[t] \in {"lock_drain", "up_drain"},
         ReaderBits(v[t]) = 0
  PROVE  \A u \in Threads \ {t} : held[u] = "none"
<1>1. t \in Owners
  BY DEF Owners
<1>2. \A u \in Threads \ {t} : held[u] # "write"
  BY <1>1 DEF IInv, CountsExact, Owners
<1> QED
  BY <1>2 DEF IInv, DrainSound, TypeOK

\* A word without shares is one in which nobody else reads.
LEMMA AloneInWord ==
  ASSUME IInv, NEW t \in Threads, pc[t] \in {"lock_drain", "up_drain"},
         ReaderBits(rwlock) = 0
  PROVE  \A u \in Threads \ {t} : held[u] # "read"
<1>1. t \in Owners /\ Counted = {}
  BY WordMeaning DEF Owners
<1>2. \A u \in Threads \ {t} : pc[u] # "up_drain"
  BY <1>1 DEF IInv, CountsExact, Owners
<1> QED
  BY <1>1, <1>2 DEF Counted

LEMMA StepDrain ==
  ASSUME IInv, NEW t \in Threads, LockDrain(t) \/ UpDrain(t)
  PROVE  IInv'
<1> USE DEF IInv, TypeOK, HeldFitsPlace, WritePlaces, ReadPlaces, FreePlaces, Goto
<1>0. pc[t] \in {"lock_drain", "up_drain"}
  BY DEF LockDrain, UpDrain
<1>1. Counted' = Counted /\ Owners' = Owners
  BY DEF LockDrain, UpDrain, Counted, Owners, Grant
<1>2. CountsExact'
  BY <1>1, CountKept DEF LockDrain, UpDrain
<1>3. CASE ReaderBits(v[t]) # 0
  BY <1>0, <1>2, <1>3, AloneInWord
  DEF LockDrain, UpDrain, Load, Locations, MutualExclusion, FlagExact, DrainSound
<1>4. CASE ReaderBits(v[t]) = 0
  BY <1>0, <1>2, <1>4, AloneAfterDrain
  DEF LockDrain, UpDrain, Forget, Grant, Locations, MutualExclusion, FlagExact, DrainSound
<1> QED
  BY <1>3, <1>4

LEMMA StepRLockAdd ==
  ASSUME IInv, NEW t \in Threads, RLockAdd(t)
  PROVE  IInv'
<1> USE DEF IInv, TypeOK, HeldFitsPlace, WritePlaces, ReadPlaces, FreePlaces, Goto
<1>0. pc[t] = "rlock_add" /\ held[t] = "none" /\ t \notin Counted /\ t \notin Owners
  BY DEF RLockAdd, Counted, Owners
<1>1. Counted' = Counted \cup {t} /\ Owners' = Owners
  BY <1>0 DEF RLockAdd, Counted, Owners, Grant
<1>2. Cardinality(Counted') = Cardinality(Counted) + 1
  BY <1>0, <1>1, CountedFinite, FS_AddElement
<1>3. CountsExact'
  BY <1>1, <1>2, CountedFinite DEF CountsExact, RLockAdd
<1>4. TypeOK'
  BY DEF RLockAdd, Locations, Grant
<1>5. WriterBit(rwlock') = WriterBit(rwlock)
  BY DEF RLockAdd, WriterBit
<1>6. held'[t] = "read" => Owners = {}
  BY <1>0, <1>5, WordMeaning DEF RLockAdd, Grant
<1> QED
  BY <1>0, <1>3, <1>4, <1>6
  DEF RLockAdd, MutualExclusion, FlagExact, DrainSound, Grant, Owners

\* The steps that take a share out of the word.
LEMMA StepShareOut ==
  ASSUME IInv, NEW t \in Threads, RLockBack(t) \/ UpDrop(t) \/ UnSub2(t)
  PROVE  IInv'
<1> USE DEF IInv, TypeOK, HeldFitsPlace, WritePlaces, ReadPlaces, FreePlaces, Goto
<1>1. t \in Counted /\ rwlock' = rwlock - 2
  BY DEF RLockBack, UpDrop, UnSub2, Counted
<1>2. Counted' = Counted \ {t} /\ Owners' = Owners
  BY DEF RLockBack, UpDrop, UnSub2, Counted, Owners, Grant
<1>3. Cardinality(Counted') = Cardinality(Counted) - 1
  BY <1>1, <1>2, CountedFinite, FS_RemoveElement
<1>4. Cardinality(Counted) >= 1
  BY <1>1, CountedFinite
<1>5. CountsExact' /\ rwlock' \in Nat
  BY <1>1, <1>2, <1>3, <1>4, CountedFinite DEF CountsExact
<1>6. TypeOK'
  BY <1>5 DEF RLockBack, UpDrop, UnSub2, Locations, Grant
<1> QED
  BY <1>5, <1>6
  DEF RLockBack, UpDrop, UnSub2, MutualExclusion, FlagExact, DrainSound, Grant

\* The steps that take the writer's bit out of the word.
LEMMA StepBitOut ==
  ASSUME IInv, NEW t \in Threads, DegAdd(t) \/ UnSub1(t)
  PROVE  IInv'
<1> USE DEF IInv, TypeOK, HeldFitsPlace, WritePlaces, ReadPlaces, FreePlaces, Goto
<1>1. held[t] = "write" /\ t \notin Counted /\ Owners = {t}
  BY DEF DegAdd, UnSub1, Counted, Owners, CountsExact
<1>2. Owners' = {}
  BY <1>1 DEF DegAdd, UnSub1, Owners, Grant
<1>3. rwlock = 2 * Cardinality(Counted) + 1
  BY <1>1 DEF CountsExact
<1>4. CASE DegAdd(t)
  <2>1. Counted' = Counted \cup {t}
    BY <1>1, <1>4 DEF DegAdd, Counted, Grant
  <2>2. Cardinality(Counted') = Cardinality(Counted) + 1
    BY <1>1, <2>1, CountedFinite, FS_AddElement
  <2>3. rwlock' = 2 * Cardinality(Counted')
    BY <1>3, <1>4, <2>2, CountedFinite DEF DegAdd
  <2>4. CountsExact'
    BY <1>2, <2>3 DEF CountsExact
  <2>5. TypeOK'
    BY <1>4 DEF DegAdd, Locations, Grant
  <2> QED
    BY <1>1, <1>4, <2>4, <2>5
    DEF DegAdd, MutualExclusion, FlagExact, DrainSound, Grant, Owners
<1>5. CASE UnSub1(t)
  <2>1. Counted' = Counted
    BY <1>1, <1>5 DEF UnSub1, Counted, Grant
  <2>2. rwlock' = 2 * Cardinality(Counted') /\ rwlock' \in Nat
    BY <1>3, <1>5, <2>1, CountedFinite DEF UnSub1
  <2>3. CountsExact'
    BY <1>2, <2>2 DEF CountsExact
  <2>4. TypeOK'
    BY <1>5, <2>2 DEF UnSub1, Locations, Grant
  <2> QED
    BY <1>1, <1>5, <2>3, <2>4
    DEF UnSub1, MutualExclusion, FlagExact, DrainSound, Grant, Owners
<1> QED
  BY <1>4, <1>5

THEOREM StepIInv == IInv /\ [Next]_vars => IInv'
<1> SUFFICES ASSUME IInv, [Next]_vars PROVE IInv'
  OBVIOUS
<1>1. CASE UNCHANGED vars
  BY <1>1 DEF vars, IInv, TypeOK, CountsExact, MutualExclusion, HeldFitsPlace, FlagExact,
     DrainSound, Counted, Owners
<1>2. ASSUME NEW t \in Threads, Call(t) \/ Run(t) PROVE IInv'
  BY <1>2, StepAside, StepLockCas, StepUpCas, StepDrain, StepRLockAdd, StepShareOut,
     StepBitOut
  DEF Call, Run
<1> QED
  BY <1>1, <1>2 DEF Next

THEOREM Invariance == FlagStartsFalse /\ Spec => []IInv
<1>1. FlagStartsFalse /\ Init => IInv
  BY InitIInv
<1>2. IInv /\ [Next]_vars => IInv'
  BY StepIInv
<1> QED
  BY <1>1, <1>2, PTL DEF Spec

-----------------------------------------------------------------------------
\* Every variable keeps its type, the word never goes below zero.
THEOREM TypeCorrect == FlagStartsFalse /\ Spec => []TypeOK
<1>1. IInv => TypeOK
  BY DEF IInv
<1> QED
  BY <1>1, Invariance, PTL

\* Whoever has the lock for writing has it alone, for any number of threads,
\* upgrades and degradations included.
THEOREM Exclusion == FlagStartsFalse /\ Spec => []MutualExclusion
<1>1. IInv => MutualExclusion
  BY DEF IInv
<1> QED
  BY <1>1, Invariance, PTL

\* unlock() releases what its caller has: the bit for a writer, a share for a
\* reader, also while another thread's claim is pending.
THEOREM UnlockIsRight == FlagStartsFalse /\ Spec => []UnlockInfersMode
<1>1. IInv => UnlockInfersMode
  BY DEF IInv, TypeOK, HeldFitsPlace, WritePlaces, ReadPlaces, FreePlaces, UnlockInfersMode
<1> QED
  BY <1>1, Invariance, PTL

\* No share and no bit is lost or left behind in the word.
THEOREM WordIsExact == FlagStartsFalse /\ Spec => []CountsExact
<1>1. IInv => CountsExact
  BY DEF IInv
<1> QED
  BY <1>1, Invariance, PTL

-----------------------------------------------------------------------------
(* Refinement of the reader/writer lock.                                   *)

LEMMA InitRefines == Init => RW!Init
BY DEF Init, RW!Init, AbstractMode

\* The abstract mode of a thread tells what it has and whether it claims.
LEMMA ModeMeaning ==
  ASSUME IInv
  PROVE  /\ RW!Unclaimed <=> Owners = {}
         /\ \A t \in Threads : AbstractMode[t] = "read" =>
              held[t] = "read" /\ t \notin Owners
BY DEF IInv, TypeOK, HeldFitsPlace, WritePlaces, ReadPlaces, FreePlaces,
   RW!Unclaimed, RW!Claims, AbstractMode, Owners

\* A step that changes no mode is a stutter.
LEMMA StutterAside ==
  ASSUME IInv, NEW t \in Threads,
         \/ CallLock(t) \/ LockLoad(t) \/ LockFlag(t)
         \/ CallRLock(t) \/ RLockSpin(t) \/ RLockBack(t)
         \/ CallUpgrade(t) \/ UpLoad(t) \/ UpDrop(t) \/ UpFlag(t)
         \/ CallDegrade(t) \/ DegFlag(t)
         \/ CallUnlock(t) \/ UnBit(t) \/ UnFlag(t) \/ UnClear(t)
  PROVE  UNCHANGED AbstractMode
<1> USE DEF IInv, TypeOK, HeldFitsPlace, WritePlaces, ReadPlaces, FreePlaces, Goto,
        AbstractMode
<1>1. CASE CallLock(t) \/ LockLoad(t) \/ LockFlag(t)
  BY <1>1 DEF CallLock, LockLoad, LockFlag
<1>2. CASE CallRLock(t) \/ RLockSpin(t) \/ RLockBack(t)
  BY <1>2 DEF CallRLock, RLockSpin, RLockBack
<1>3. CASE CallUpgrade(t) \/ UpLoad(t) \/ UpDrop(t) \/ UpFlag(t)
  BY <1>3 DEF CallUpgrade, UpLoad, UpDrop, UpFlag
<1>4. CASE CallDegrade(t) \/ DegFlag(t)
  BY <1>4 DEF CallDegrade, DegFlag
<1>5. CASE CallUnlock(t) \/ UnBit(t) \/ UnFlag(t) \/ UnClear(t)
  BY <1>5 DEF CallUnlock, UnBit, UnFlag, UnClear
<1> QED
  BY <1>1, <1>2, <1>3, <1>4, <1>5

LEMMA StepRefines ==
  ASSUME IInv, [Next]_vars
  PROVE  [RW!Next]_AbstractMode
<1> USE DEF IInv, TypeOK, HeldFitsPlace, WritePlaces, ReadPlaces, FreePlaces, Goto
<1>1. CASE UNCHANGED vars
  BY <1>1 DEF vars, AbstractMode
<1>2. ASSUME NEW t \in Threads, Call(t) \/ Run(t) PROVE [RW!Next]_AbstractMode
  \* The swap that takes the bit is the abstract claim.
  <2>1. CASE LockCas(t)
    <3>1. CASE rwlock = ReaderBits(v[t])
      <4>1. RW!Unclaimed
        BY <3>1, EvenWord, WordMeaning, ModeMeaning
      <4>2. AbstractMode[t] = "none" /\ AbstractMode' = [AbstractMode EXCEPT ![t] = "claim"]
        BY <2>1, <3>1 DEF LockCas, AbstractMode
      <4> QED
        BY <4>1, <4>2 DEF RW!Next, RW!Claim
    <3>2. CASE rwlock # ReaderBits(v[t])
      BY <2>1, <3>2 DEF LockCas, AbstractMode
    <3> QED
      BY <3>1, <3>2
  <2>2. CASE UpCas(t)
    <3>1. CASE rwlock = ReaderBits(v[t])
      <4>1. RW!Unclaimed
        BY <3>1, EvenWord, WordMeaning, ModeMeaning
      <4>2. AbstractMode[t] = "read" /\ AbstractMode' = [AbstractMode EXCEPT ![t] = "upgrade"]
        BY <2>2, <3>1 DEF UpCas, AbstractMode
      <4> QED
        BY <4>1, <4>2 DEF RW!Next, RW!ClaimByUpgrade
    <3>2. CASE rwlock # ReaderBits(v[t])
      BY <2>2, <3>2 DEF UpCas, AbstractMode
    <3> QED
      BY <3>1, <3>2
  \* Leaving the loop that waits for the readers is the abstract entry.
  <2>3. CASE LockDrain(t) \/ UpDrain(t)
    <3>1. CASE ReaderBits(v[t]) # 0
      BY <2>3, <3>1 DEF LockDrain, UpDrain, AbstractMode
    <3>2. CASE ReaderBits(v[t]) = 0
      <4>1. \A u \in Threads \ {t} : held[u] = "none"
        BY <2>3, <3>2, AloneAfterDrain DEF LockDrain, UpDrain
      <4>2. AbstractMode[t] \in {"claim", "upgrade"}
        BY <2>3, <3>2 DEF LockDrain, UpDrain, AbstractMode
      <4>3. RW!NoReader
        BY <4>1, <4>2 DEF RW!NoReader, AbstractMode
      <4>4. AbstractMode' = [AbstractMode EXCEPT ![t] = "write"]
        BY <2>3, <3>2 DEF LockDrain, UpDrain, AbstractMode, Grant
      <4> QED
        BY <4>2, <4>3, <4>4 DEF RW!Next, RW!Enter
    <3> QED
      BY <3>1, <3>2
  \* The addition that finds the bit clear is the abstract share.
  <2>4. CASE RLockAdd(t)
    <3>1. WriterBit(rwlock') = WriterBit(rwlock)
      BY <2>4 DEF RLockAdd, WriterBit
    <3>2. CASE WriterBit(rwlock') = 0
      <4>1. RW!Unclaimed
        BY <3>1, <3>2, WordMeaning, ModeMeaning
      <4>2. AbstractMode[t] = "none" /\ AbstractMode' = [AbstractMode EXCEPT ![t] = "read"]
        BY ZenonT(60), <2>4, <3>2 DEF RLockAdd, AbstractMode, Grant
      <4> QED
        BY <4>1, <4>2 DEF RW!Next, RW!AcquireRead
    <3>3. CASE WriterBit(rwlock') # 0
      BY <2>4, <3>3 DEF RLockAdd, AbstractMode
    <3> QED
      BY <3>2, <3>3
  <2>5. CASE DegAdd(t)
    <3>1. AbstractMode[t] = "write" /\ AbstractMode' = [AbstractMode EXCEPT ![t] = "read"]
      BY <2>5 DEF DegAdd, AbstractMode, Grant
    <3> QED
      BY <3>1 DEF RW!Next, RW!Degrade
  <2>6. CASE UnSub1(t) \/ UnSub2(t)
    <3>1. /\ AbstractMode[t] \in {"read", "write"}
          /\ AbstractMode' = [AbstractMode EXCEPT ![t] = "none"]
      BY ZenonT(60), <2>6 DEF UnSub1, UnSub2, AbstractMode, Grant
    <3> QED
      BY <3>1 DEF RW!Next, RW!Release
  <2> QED
    BY <1>2, <2>1, <2>2, <2>3, <2>4, <2>5, <2>6, StutterAside DEF Call, Run
<1> QED
  BY <1>1, <1>2 DEF Next

\* The atomic instructions of class spinlock implement the reader/writer lock
\* that the other modules take a lock of the table to be.
THEOREM Refinement == FlagStartsFalse /\ Spec => ImplementsRWLock
<1>1. Init => RW!Init
  BY InitRefines
<1>2. IInv /\ [Next]_vars => [RW!Next]_AbstractMode
  BY StepRefines
<1> QED
  BY <1>1, <1>2, Invariance, PTL DEF Spec, ImplementsRWLock, RW!Spec
=============================================================================
