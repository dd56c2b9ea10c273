CONSTANTS
  Key <- MCKey
  Bucket <- MCBucket
  key_hash <- MCHash
SPECIFICATION PolicySpec
INVARIANTS
  TypeOK
  CachedValuesCorrect
  KeysDistinct
  AnswerCorrect
  ExactLRU
PROPERTY ImplementsLRUCache
