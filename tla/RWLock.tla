------------------------------- MODULE RWLock -------------------------------
(***************************************************************************)
(* What one striped lock of cuckoohash_map promises to its callers: a      *)
(* reader/writer lock in which a writer first CLAIMS the lock and then     *)
(* waits for the readers to leave, and in which a reader may turn its      *)
(* share into a claim without a moment at which it holds nothing.          *)
(*                                                                         *)
(* This is the specification that SpinLock.tla, the model of the atomic    *)
(* instructions of class spinlock, is shown to implement.  The modules     *)
(* about several locks (BucketLocks, CuckooTable) rely on nothing else.    *)
(***************************************************************************)
CONSTANT Threads

VARIABLE mode      \* what each thread has of the lock

Modes == {"none", "read", "claim", "upgrade", "write"}

\* The modes that keep every newcomer out.
Claims == {"claim", "upgrade", "write"}

Unclaimed == \A u \in Threads : mode[u] \notin Claims
NoReader  == \A u \in Threads : mode[u] # "read"

-----------------------------------------------------------------------------
Init == mode = [t \in Threads |-> "none"]

\* A share is given only while nobody claims the lock.
AcquireRead(t) ==
  /\ mode[t] = "none"
  /\ Unclaimed
  /\ mode' = [mode EXCEPT ![t] = "read"]

\* A claim may be made over the heads of the present readers ...
Claim(t) ==
  /\ mode[t] = "none"
  /\ Unclaimed
  /\ mode' = [mode EXCEPT ![t] = "claim"]

\* ... and one of those readers may be the claimant.
ClaimByUpgrade(t) ==
  /\ mode[t] = "read"
  /\ Unclaimed
  /\ mode' = [mode EXCEPT ![t] = "upgrade"]

\* The claimant becomes the writer once the last reader has left.
Enter(t) ==
  /\ mode[t] \in {"claim", "upgrade"}
  /\ NoReader
  /\ mode' = [mode EXCEPT ![t] = "write"]

Degrade(t) ==
  /\ mode[t] = "write"
  /\ mode' = [mode EXCEPT ![t] = "read"]

Release(t) ==
  /\ mode[t] \in {"read", "write"}
  /\ mode' = [mode EXCEPT ![t] = "none"]

Next ==
  \E t \in Threads :
    \/ AcquireRead(t) \/ Claim(t) \/ ClaimByUpgrade(t)
    \/ Enter(t) \/ Degrade(t) \/ Release(t)

Spec == Init /\ [][Next]_mode
=============================================================================
