\* The page and record sizes of the program, an int of eleven bits, and a
\* buffer of 400 bytes, which results of 110 records in 25 columns overflow
\* at every piece of a line.
SPECIFICATION Spec
CONSTANTS
  PAGE_SIZE = 4096
  RM_MAX_RECORD_SIZE = 512
  FileHdrSize = 20
  PageHdrSize = 8
  OFFSET_PAGE_HDR = 4
  INT_MAX = 1023
  Lens <- ManyLens
  MaxCols = 4
  BUFFER_LENGTH = 400
  RECORD_COUNT_LENGTH = 40
  COL_WIDTH = 16
  MaxPrinted = 25
  MaxRows = 110
  Connections = {t1, t2}
  Tables = {"a", "b"}
  Defs <- SmallDefs
  MaxRecordSize = 3
  Faults = {"mkdir", "open", "write"}
  MaxRestarts = 2
CHECK_DEADLOCK FALSE
INVARIANTS
  
  
  
  
  SlotsApart
  FitsBuffer
PROPERTY NothingAfterGap
