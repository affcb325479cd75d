----------------------------- MODULE MCSpinLock -----------------------------
(* Instances of SpinLock for TLC.                                          *)
EXTENDS SpinLock, TLC

CONSTANTS t1, t2, t3

TwoThreads   == {t1, t2}
ThreeThreads == {t1, t2, t3}

\* The flag of a lock in fresh (zeroed) pages, and in recycled memory.
FlagCleared == {FALSE}
FlagUnknown == BOOLEAN
=============================================================================
