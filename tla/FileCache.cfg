SPECIFICATION FairSpec
CHECK_DEADLOCK FALSE
CONSTANTS
  m_size = 3
  m_size_back = 1
  SeekWindow = 2
  m_fileSize = 4
  m_chunkSize = 2
  ReadSize = 2
  MaxTarget = 5
  SeekAfterFailure = FALSE
  Blank = Blank
  NULL = NULL
INVARIANTS
  CacheIntact
PROPERTIES
  ReadsSource
  NoFalseEof
  BackBufferKept
  CallsReturn
