SPECIFICATION LockedSpec
CONSTANTS
  t1 = t1
  t2 = t2
  k1 = k1
  k2 = k2
  k3 = k3
  v1 = v1
  None = None
  Vals <- OneValue
  MovedFrom <- Emptied
  FirstElements <- FirstThree
  MaxPathLen = 3
  MaxNumLocks = 2
  Threads <- OneThread
  Keys <- ThreeKeys
  Hash <- PairHash
  SlotPerBucket = 2
  FirstHp = 1
  MaxHp = 1
  Workload <- AloneWork
  MaxCalls = 1
  SessionWork <- AloneSession
  ExtraWorkers = {1}
  NewMapLoad = 20
  MoveEmpties = FALSE
INVARIANTS
  LockedTypeOK
  SizeIsExact
PROPERTIES
  ImplementsLockedMap
