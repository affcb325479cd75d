SPECIFICATION Spec
CONSTANTS
  t1 = t1
  t2 = t2
  k1 = k1
  k2 = k2
  k3 = k3
  k4 = k4
  k5 = k5
  v1 = v1
  v2 = v2
  None = None
  Threads <- TwoThreads
  Keys <- FourKeys
  Vals <- TwoValues
  Hash <- PairHash
  SlotPerBucket = 2
  MaxPathLen = 2
  MaxNumLocks = 2
  FirstHp = 0
  MaxHp = 1
  Workload <- PairWork
  MaxCalls = 4
PROPERTIES
  ImplementsMap
