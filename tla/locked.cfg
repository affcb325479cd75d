SPECIFICATION FairLockedSpec
CONSTANTS
  t1 = t1
  t2 = t2
  k1 = k1
  k2 = k2
  k3 = k3
  v1 = v1
  None = None
  Vals <- OneValue
  MovedFrom <- Emptied
  FirstElements <- FirstTwo
  MaxPathLen = 3
  MaxNumLocks = 2
  Threads <- TwoThreads
  Keys <- ThreeKeys
  Hash <- SplitHash
  SlotPerBucket = 1
  FirstHp = 1
  MaxHp = 2
  Workload <- SharedWork
  MaxCalls = 3
  SessionWork <- SharedSession
  ExtraWorkers = {1, 2}
  NewMapLoad = 1
  MoveEmpties = FALSE
INVARIANTS
  ElementsInPlace
  WorkersApart
PROPERTIES
  ImplementsLockedMap
  LockedCallsReturn
