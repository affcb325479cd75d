SPECIFICATION FairSpec
CONSTANTS
  t1 = t1
  t2 = t2
  t3 = t3
  Threads <- ThreeThreads
  InitWriteUnlock <- FlagCleared
INVARIANTS
  TypeOK
  MutualExclusion
  UnlockInfersMode
  CountsExact
PROPERTIES
  ImplementsRWLock
  PendingWriterAdmitted
