\* Two files and two descriptors, so that each file reuses the other's; four
\* frames.  Three threads of the pool on a file of two pages; two files and
\* two descriptors with a pool of two frames; two threads that insert twice
\* each into a file with no page on its list, and room for a page each time.
\* A page of 36 bytes, and the record sizes that divide it into one to
\* thirteen slots.  Three log records of five lengths in a buffer for one to
\* three.
SPECIFICATION Spec
CONSTANTS
  Path = {pa, pb}
  MaxFd = 2
  MaxPage = 2
  Data = {z, a}
  Zero = z
  PoolSize = 4
  PoolThreads = {t1, t2, t3}
  HeaderThreads = {}
  NumPages = 2
  Files = {fa, fb}
  MaxDescriptor = 2
  PagesPerFile = 2
  Frames = 2
  MaxVersion = 1
  Inserters = {t1, t2}
  NumRecords = 2
  MaxPages = 6
  MaxInserts = 2
  Listed = FALSE
  PAGE_SIZE = 36
  RM_MAX_RECORD_SIZE = 15
  FileHdrSize = 20
  PageHdrSize = 8
  OFFSET_PAGE_HDR = 4
  Values = {x}
  LOG_BUFFER_SIZE = 90
  Sizes = {0, 2}
  NameSizes = {1, 3}
  MaxLog = 3
  MaxWriteFaults = 1
  Keys = {1, 2, 3, 4, 5, 6}
  Tree <- ThreeLevels
  LeafSizes <- SmallIndexes
  PoolFrames = 4
  Lookups = TRUE
CHECK_DEADLOCK FALSE
INVARIANTS
  FdTablesInverse
  
  ReopenedIntact
  
  PageHoldsRecords
  LogReadsBack
  TreeConnected
  ScanReturnsEntries
PROPERTY RefinesRecency
