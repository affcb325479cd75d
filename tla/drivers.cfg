SPECIFICATION Spec
CONSTANTS
  Programs = {"ycsb", "ycsb_char", "CH_YCSBTest", "CH_HybridTest", "main", "hellohash"}
  MaxThreads = 2
  KeyRanges = {1, 4}
  FileKeys = {5}
  Counts = {3, 4}
  UpdateEvery = 4
  EraseEvery = 2
  MaxRounds = 4
INVARIANTS
  ExitsOnlyByRest
  AbortsOnlyBeyondRange
  ModificationsSucceed
PROPERTIES
  ProgramsEnd
