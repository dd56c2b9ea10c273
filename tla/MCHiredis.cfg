CONSTANTS
  Parts = {"sds", "reader", "format", "dict", "async", "connection", "client"}
  SDS_MAX_PREALLOC = 4
  PrintfBuffer = 2
  Words <- MCWords
  Numbers <- MCNumbers
  MaxText = 3
  Streams <- MCStreams
  MaxChunk = 4
  MaxDepth = 3
  DiscardAt = 5
  MaxBuf = 3
  Pieces <- MCPieces
  MaxPieces = 4
  DictKeys = {"k1", "k2", "k3", "k4", "k5"}
  DictValues = {1, 2}
  dictHashKey <- MCHashKey
  DICT_HT_INITIAL_SIZE = 2
  Adapters <- AdapterNames
  CommandKinds <- MCCommandKinds
  MaxCommands <- MCMaxCommands
  MaxMessages <- MCMaxMessages
  MaxPending = 3
  MaxFd = 3
  MaxAddresses = 2
  REDIS_CONNECT_RETRIES = 3
  Values = {1, 2}
  MaxOperations = 4
SPECIFICATION HiredisSpec
INVARIANTS
  StringsRight
  ChunkingInvisible
  CommandsRight
  DictRight
  CallbacksOrderly
  InterestKept
  SocketsAccounted
  RepliesMatched
PROPERTY
  ErrorIsFinal
CHECK_DEADLOCK FALSE
