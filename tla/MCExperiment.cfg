SPECIFICATION ExperimentSpec
CONSTANTS
  Fp = {0, 1, 2}
  hash <- MCHash
  replace_threshold = 2
  replace_interval = 2
  NSLOT = 1
  App6K = 2
  NBUCK = 1
  threshold <- MCThreshold
  len <- MCLen
  Word = 16
  filter_ts_interval = 2
  Test = {1, 2, 3, 4, 5, 6}
  Delay = {0, 1}
  DefaultDelay = 1
  Geometry <- MCGeometry
  Step = {0, 1, 2}
  Size = {1, 3}
  Limit = {3, 4}
  WINDOW_LEN = 3
  THRESHOLD = 2
  MaxPackets <- MCMaxPackets
INVARIANTS
  BookkeepingSound
  AnswersTimely
  IdealAgrees
  BytesReported
  CountersBounded
