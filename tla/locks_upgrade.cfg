SPECIFICATION Spec
CONSTANTS
  t1 = t1
  t2 = t2
  t3 = t3
  k1 = k1
  k2 = k2
  Threads <- ThreeThreads
  Keys <- TwoKeys
  Hash1 <- HashOne
  Hash2 <- HashTwo
  MaxNumLocks = 2
  Tables <- OnlyLarge
  MaxHp = 2
  MaxHops = 1
  Workloads <- CycleWork
INVARIANTS
  NoWaitCycle
