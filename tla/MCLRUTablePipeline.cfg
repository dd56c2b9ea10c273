CONSTANTS
  Key <- MCKey
  Bucket <- MCBucket
  key_hash <- MCHash
  MaxPackets = 3
SPECIFICATION MCSpec
PROPERTY ImplementsAtomicSwitch
CHECK_DEADLOCK FALSE
