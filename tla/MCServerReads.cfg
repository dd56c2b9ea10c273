CONSTANTS
  Parts = {"ycsb"}
  Key = {1, 4, 5, 8, 9, 11, 12, 17}
  Val = {va, vb}
  LoadVal = va
  Empty = none
  M = 4
  Loads <- MCLoads
  MaxInserts = 4
  MaxCached = 1
  Threads = {t1, t2}
  Keys = {k1, k2}
  Fields = {1, 2}
  MaxOperations = 3
  ScanLength = 2
  CommandLines <- MCLines
  Files <- MCFiles
  BatchLimit = 1
  nb_threads = 2
  OpsPerThread = 2
  Inserted <- MCInserted
  Queried <- MCQueried
  Answered <- MCAnswered
  MaxLength = 600
SPECIFICATION ServerSpec
SYMMETRY ServerSymmetry
INVARIANTS
  ReadsOneField
CHECK_DEADLOCK FALSE
