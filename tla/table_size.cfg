SPECIFICATION Spec
CONSTANTS
  t1 = t1
  t2 = t2
  k1 = k1
  k2 = k2
  k3 = k3
  k4 = k4
  k5 = k5
  v1 = v1
  v2 = v2
  None = None
  Threads <- TwoThreads
  Keys <- FourKeys
  Vals <- TwoValues
  Hash <- SizeHash
  SlotPerBucket = 1
  MaxPathLen = 3
  MaxNumLocks = 2
  FirstHp = 2
  MaxHp = 2
  Workload <- SizeWork
  MaxCalls = 6
INVARIANTS
  SizeNotNegative
