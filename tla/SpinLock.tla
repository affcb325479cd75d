------------------------------ MODULE SpinLock ------------------------------
(***************************************************************************)
(* class spinlock of cuckoohash_map.hh, one lock, at the grain of its      *)
(* memory accesses: every load, store and atomic read-modify-write of the  *)
(* two shared fields rwlock and write_unlock is one action.                *)
(*                                                                         *)
(* Bit 0 of rwlock is the writer; every reader adds 2.  write_unlock tells *)
(* unlock(), which takes no argument, whether the set bit belongs to a     *)
(* writer that has entered (release the bit) or to one that still waits    *)
(* (the caller must be a reader).                                          *)
(*                                                                         *)
(* Memory is sequentially consistent: write_unlock is a plain volatile     *)
(* store, but each of its stores by a writer is followed by a __sync       *)
(* operation of the same thread (a full barrier) before any other thread   *)
(* can become the writer.                                                  *)
(***************************************************************************)
EXTENDS Integers, FiniteSets

CONSTANTS
  Threads,
  InitWriteUnlock   \* the values write_unlock may have in a new lock

ASSUME ThreadsFinite == IsFiniteSet(Threads)
ASSUME InitFlagType  == InitWriteUnlock \subseteq BOOLEAN

VARIABLES
  rwlock,         \* volatile long long rwlock
  write_unlock,   \* volatile bool write_unlock
  pc,             \* the next access of each thread
  v,              \* the local variable v of lock() and try_upgradeLock()
  held            \* what the calls that returned have given to each thread

vars == <<rwlock, write_unlock, pc, v, held>>

\* v & ~1, v | 1 and v & 1 on a word that is never negative.
ReaderBits(w) == w - (w % 2)
WithWriter(w) == ReaderBits(w) + 1
WriterBit(w)  == w % 2

\* One access of thread t, at the place "from" of its code.
Goto(t, from, to) ==
  /\ pc[t] = from
  /\ pc' = [pc EXCEPT ![t] = to]

Load(t) == v' = [v EXCEPT ![t] = rwlock]
Forget(t) == v' = [v EXCEPT ![t] = 0]
Grant(t, m) == held' = [held EXCEPT ![t] = m]

-----------------------------------------------------------------------------
\* The vector of locks is filled with copies of one spinlock, and the copy
\* constructor sets rwlock but not write_unlock.
Init ==
  /\ rwlock = 0
  /\ write_unlock \in InitWriteUnlock
  /\ pc = [t \in Threads |-> "idle"]
  /\ v = [t \in Threads |-> 0]
  /\ held = [t \in Threads |-> "none"]

(* lock(): take the writer bit over the present readers, then wait for them. *)

CallLock(t) ==
  /\ Goto(t, "idle", "lock_load")
  /\ UNCHANGED <<rwlock, write_unlock, v, held>>

LockLoad(t) ==
  /\ Goto(t, "lock_load", "lock_cas")
  /\ Load(t)
  /\ UNCHANGED <<rwlock, write_unlock, held>>

LockCas(t) ==
  /\ \/ /\ rwlock = ReaderBits(v[t])
        /\ rwlock' = WithWriter(v[t])
        /\ Goto(t, "lock_cas", "lock_drain")
        /\ UNCHANGED v
     \/ /\ rwlock # ReaderBits(v[t])
        /\ Goto(t, "lock_cas", "lock_load")
        /\ Forget(t)
        /\ UNCHANGED rwlock
  /\ UNCHANGED <<write_unlock, held>>

\* Mutant: enters over the readers it should wait for.
LockDrainNotWaiting(t) ==
  /\ Goto(t, "lock_drain", "lock_flag")
  /\ Forget(t)
  /\ Grant(t, "write")
  /\ UNCHANGED <<rwlock, write_unlock>>

\* while (v & ~1) v = rwlock;
LockDrain(t) ==
  /\ \/ /\ ReaderBits(v[t]) # 0
        /\ Goto(t, "lock_drain", "lock_drain")
        /\ Load(t)
        /\ UNCHANGED held
     \/ /\ ReaderBits(v[t]) = 0
        /\ Goto(t, "lock_drain", "lock_flag")
        /\ Forget(t)
        /\ Grant(t, "write")
  /\ UNCHANGED <<rwlock, write_unlock>>

LockFlag(t) ==
  /\ Goto(t, "lock_flag", "writing")
  /\ write_unlock' = TRUE
  /\ UNCHANGED <<rwlock, v, held>>

(* lock(bool): wait for the bit to clear, add 2, back out if it was set.   *)

CallRLock(t) ==
  /\ Goto(t, "idle", "rlock_spin")
  /\ UNCHANGED <<rwlock, write_unlock, v, held>>

RLockSpin(t) ==
  /\ WriterBit(rwlock) = 0
  /\ Goto(t, "rlock_spin", "rlock_add")
  /\ UNCHANGED <<rwlock, write_unlock, v, held>>

\* Mutant: does not look at the bit again after the addition.
RLockAddBarging(t) ==
  /\ rwlock' = rwlock + 2
  /\ Goto(t, "rlock_add", "reading")
  /\ Grant(t, "read")
  /\ UNCHANGED <<write_unlock, v>>

RLockAdd(t) ==
  /\ rwlock' = rwlock + 2
  /\ \/ /\ WriterBit(rwlock') = 0
        /\ Goto(t, "rlock_add", "reading")
        /\ Grant(t, "read")
     \/ /\ WriterBit(rwlock') # 0
        /\ Goto(t, "rlock_add", "rlock_back")
        /\ UNCHANGED held
  /\ UNCHANGED <<write_unlock, v>>

\* Mutant: leaves the tentative share in the word.
RLockBackForgotten(t) ==
  /\ Goto(t, "rlock_back", "rlock_spin")
  /\ UNCHANGED <<rwlock, write_unlock, v, held>>

RLockBack(t) ==
  /\ Goto(t, "rlock_back", "rlock_spin")
  /\ rwlock' = rwlock - 2
  /\ UNCHANGED <<write_unlock, v, held>>

(* try_upgradeLock(): one attempt to take the bit; on success give up the  *)
(* own share and wait for the other readers.  Every caller of the table    *)
(* answers a refusal by unlocking.                                         *)

CallUpgrade(t) ==
  /\ Goto(t, "reading", "up_load")
  /\ UNCHANGED <<rwlock, write_unlock, v, held>>

UpLoad(t) ==
  /\ Goto(t, "up_load", "up_cas")
  /\ Load(t)
  /\ UNCHANGED <<rwlock, write_unlock, held>>

UpCas(t) ==
  /\ \/ /\ rwlock = ReaderBits(v[t])
        /\ rwlock' = WithWriter(v[t])
        /\ Goto(t, "up_cas", "up_drop")
        /\ UNCHANGED v
     \/ /\ rwlock # ReaderBits(v[t])
        /\ Goto(t, "up_cas", "refused")
        /\ Forget(t)
        /\ UNCHANGED rwlock
  /\ UNCHANGED <<write_unlock, held>>

\* Mutant: waits for its own share to go away.
UpDropKeepingShare(t) ==
  /\ Goto(t, "up_drop", "up_drain")
  /\ UNCHANGED <<rwlock, write_unlock, v, held>>

UpDrop(t) ==
  /\ Goto(t, "up_drop", "up_drain")
  /\ rwlock' = rwlock - 2
  /\ UNCHANGED <<write_unlock, v, held>>

UpDrain(t) ==
  /\ \/ /\ ReaderBits(v[t]) # 0
        /\ Goto(t, "up_drain", "up_drain")
        /\ Load(t)
        /\ UNCHANGED held
     \/ /\ ReaderBits(v[t]) = 0
        /\ Goto(t, "up_drain", "up_flag")
        /\ Forget(t)
        /\ Grant(t, "write")
  /\ UNCHANGED <<rwlock, write_unlock>>

\* Mutant: an upgraded writer that does not tell unlock() about itself.
UpFlagForgotten(t) ==
  /\ Goto(t, "up_flag", "writing")
  /\ UNCHANGED <<rwlock, write_unlock, v, held>>

UpFlag(t) ==
  /\ Goto(t, "up_flag", "writing")
  /\ write_unlock' = TRUE
  /\ UNCHANGED <<rwlock, v, held>>

(* degradeLock(): the writer becomes a reader; adding 1 clears the bit and *)
(* carries into the reader count in one step.                              *)

CallDegrade(t) ==
  /\ Goto(t, "writing", "deg_flag")
  /\ UNCHANGED <<rwlock, write_unlock, v, held>>

DegFlag(t) ==
  /\ Goto(t, "deg_flag", "deg_add")
  /\ write_unlock' = FALSE
  /\ UNCHANGED <<rwlock, v, held>>

\* Mutant: clears the bit without becoming a reader.
DegAddAsRelease(t) ==
  /\ Goto(t, "deg_add", "reading")
  /\ rwlock' = rwlock - 1
  /\ Grant(t, "read")
  /\ UNCHANGED <<write_unlock, v>>

DegAdd(t) ==
  /\ Goto(t, "deg_add", "reading")
  /\ rwlock' = rwlock + 1
  /\ Grant(t, "read")
  /\ UNCHANGED <<write_unlock, v>>

(* unlock(): if (isWriteLocked() && write_unlock) release the bit, else    *)
(* release a share.  The two fields are read one after the other.          *)

CallUnlock(t) ==
  /\ \E from \in {"reading", "refused", "writing"} : Goto(t, from, "un_bit")
  /\ UNCHANGED <<rwlock, write_unlock, v, held>>

UnBit(t) ==
  /\ Goto(t, "un_bit", IF WriterBit(rwlock) = 1 THEN "un_flag" ELSE "un_sub2")
  /\ UNCHANGED <<rwlock, write_unlock, v, held>>

UnFlag(t) ==
  /\ Goto(t, "un_flag", IF write_unlock THEN "un_clear" ELSE "un_sub2")
  /\ UNCHANGED <<rwlock, write_unlock, v, held>>

UnClear(t) ==
  /\ Goto(t, "un_clear", "un_sub1")
  /\ write_unlock' = FALSE
  /\ UNCHANGED <<rwlock, v, held>>

UnSub1(t) ==
  /\ Goto(t, "un_sub1", "idle")
  /\ rwlock' = rwlock - 1
  /\ Grant(t, "none")
  /\ UNCHANGED <<write_unlock, v>>

UnSub2(t) ==
  /\ Goto(t, "un_sub2", "idle")
  /\ rwlock' = rwlock - 2
  /\ Grant(t, "none")
  /\ UNCHANGED <<write_unlock, v>>

-----------------------------------------------------------------------------
\* What a thread does of its own accord ...
Call(t) ==
  \/ CallLock(t) \/ CallRLock(t) \/ CallUpgrade(t) \/ CallDegrade(t)

\* ... and what it must do once it has begun: run the code of the call, and
\* release, since no caller keeps a lock beyond one operation of the table.
Run(t) ==
  \/ LockLoad(t) \/ LockCas(t) \/ LockDrain(t) \/ LockFlag(t)
  \/ RLockSpin(t) \/ RLockAdd(t) \/ RLockBack(t)
  \/ UpLoad(t) \/ UpCas(t) \/ UpDrop(t) \/ UpDrain(t) \/ UpFlag(t)
  \/ DegFlag(t) \/ DegAdd(t)
  \/ CallUnlock(t) \/ UnBit(t) \/ UnFlag(t) \/ UnClear(t) \/ UnSub1(t)
  \/ UnSub2(t)

Next == \E t \in Threads : Call(t) \/ Run(t)

Spec == Init /\ [][Next]_vars

FairSpec == Spec /\ \A t \in Threads : WF_vars(Run(t))

-----------------------------------------------------------------------------
Locations ==
  {"idle", "reading", "refused", "writing",
   "lock_load", "lock_cas", "lock_drain", "lock_flag",
   "rlock_spin", "rlock_add", "rlock_back",
   "up_load", "up_cas", "up_drop", "up_drain", "up_flag",
   "deg_flag", "deg_add",
   "un_bit", "un_flag", "un_clear", "un_sub1", "un_sub2"}

\* Every variable keeps its type; the word is never negative.
TypeOK ==
  /\ rwlock \in Nat
  /\ write_unlock \in BOOLEAN
  /\ pc \in [Threads -> Locations]
  /\ v \in [Threads -> Nat]
  /\ held \in [Threads -> {"none", "read", "write"}]

\* A thread that was granted the lock for writing is alone with it; a reader
\* is never overtaken by a writer, not even while it upgrades and has already
\* given back its share of the word.
MutualExclusion ==
  \A t, u \in Threads : held[t] = "write" /\ u # t => held[u] = "none"

\* unlock() takes no argument and guesses from the two shared fields whether
\* its caller is the writer: it releases the bit for a writer and a share for
\* a reader, never the other way round.
UnlockInfersMode ==
  \A t \in Threads :
    /\ pc[t] \in {"un_clear", "un_sub1"} => held[t] = "write"
    /\ pc[t] = "un_sub2" => held[t] = "read"

\* The threads whose 2 and whose 1 are in the word.
Counted ==
  {t \in Threads : \/ held[t] = "read" /\ pc[t] # "up_drain"
                   \/ pc[t] = "rlock_back"}

Owners ==
  {t \in Threads : held[t] = "write" \/ pc[t] \in {"lock_drain", "up_drop", "up_drain"}}

\* The word is the sum of what the threads put into it: no release is lost,
\* doubled or given to the wrong thread, in particular when a tentative
\* reader adds and takes back its 2 while a writer degrades or leaves.
CountsExact ==
  /\ \A t, u \in Owners : t = u
  /\ rwlock = 2 * Cardinality(Counted) + (IF Owners = {} THEN 0 ELSE 1)

\* A writer or an upgrader that has the bit is admitted: readers cannot keep
\* it waiting by arriving one after the other.
PendingWriterAdmitted ==
  \A t \in Threads :
    (pc[t] \in {"lock_drain", "up_drop", "up_drain"}) ~> (held[t] = "write")

-----------------------------------------------------------------------------
(***************************************************************************)
(* The instructions implement the reader/writer lock of RWLock.tla.        *)
(***************************************************************************)
AbstractMode ==
  [t \in Threads |->
     IF pc[t] = "lock_drain" THEN "claim"
     ELSE IF pc[t] \in {"up_drop", "up_drain"} THEN "upgrade"
     ELSE held[t]]

RW == INSTANCE RWLock WITH mode <- AbstractMode

\* Every step of the instructions is one step of the abstract lock or none.
ImplementsRWLock == RW!Spec
=============================================================================
