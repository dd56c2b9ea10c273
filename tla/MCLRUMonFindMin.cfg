CONSTANTS
  Parts = {"filter"}
  FilterFlow <- MCFilterFlow
  Cell = {"c1", "c2"}
  filter_hash_1 <- MCHash1
  filter_hash_2 <- MCHash2
  FilterLen = {1, 2}
  FilterMod = 8
  StampMod = 2
  threshold = 2
  MaxWindow = 2
  MaxBytes = 6
  f0 = f0
  f1 = f1
  f2 = f2
  f3 = f3
  f4 = f4
  Flow <- MCFlow
  fp_hash <- MCFpHash
  ZeroFp = f0
  Bucket = {"b1"}
  lru_bucket_hash <- MCBucketHash
  PktLen = {1, 2}
  CounterMod = 4
  MaxPackets = 6
  MaxLost = 1
SPECIFICATION MonSpec
SYMMETRY NonzeroFlows
INVARIANTS
  ChecksMinimum
CHECK_DEADLOCK FALSE
