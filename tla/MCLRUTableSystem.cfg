CONSTANTS
  Key <- MCKey
  Bucket <- MCBucket
  key_hash <- MCHash
  Preloaded <- MCPreloaded
  MaxQueries = 4
  MaxRestarts = 2
  MaxLost = 1
SPECIFICATION SystemSpec
INVARIANTS
  LinksSound
  AnswerIsForQuery
  PlaceholderIsPending
  StuckOnlyByLoss
PROPERTY QueryAnswered
CHECK_DEADLOCK FALSE
