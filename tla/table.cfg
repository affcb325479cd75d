SPECIFICATION FairSpec
CONSTANTS
  t1 = t1
  t2 = t2
  k1 = k1
  k2 = k2
  k3 = k3
  k4 = k4
  k5 = k5
  v1 = v1
  v2 = v2
  None = None
  Threads <- TwoThreads
  Keys <- FiveKeys
  Vals <- TwoValues
  Hash <- ChainHash
  SlotPerBucket = 1
  MaxPathLen = 3
  MaxNumLocks = 2
  FirstHp = 1
  MaxHp = 2
  Workload <- ChainWork
  MaxCalls = 5
INVARIANTS
  TypeOK
  KeysUnique
  ElementsInPlace
  UnmovedBucketsEmpty
  SizeIsExact
  PathFollowsHashes
PROPERTIES
  ImplementsMap
  CallsReturn
