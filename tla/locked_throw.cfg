SPECIFICATION LockedSpec
CONSTANTS
  t1 = t1
  t2 = t2
  k1 = k1
  k2 = k2
  k3 = k3
  v1 = v1
  None = None
  Vals <- OneValue
  MovedFrom <- Emptied
  FirstElements <- FirstTwo
  MaxPathLen = 3
  MaxNumLocks = 2
  Threads <- OneThread
  Keys <- ThreeKeys
  Hash <- FarHash
  SlotPerBucket = 1
  FirstHp = 6
  MaxHp = 6
  Workload <- ShrinkWork
  MaxCalls = 1
  SessionWork <- ShrinkWork
  ExtraWorkers = {0, 1}
  NewMapLoad = 20
  MoveEmpties = TRUE
PROPERTIES
  StrongGuarantee
