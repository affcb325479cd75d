SPECIFICATION Spec
CONSTANTS
  SlotPerBucket = 8
  MaxPathLen = 5
  CodeBits = 16
INVARIANTS
  TypeOK
  QueueSuffices
  FailedSearchIsComplete
  PathIsUnpacked
