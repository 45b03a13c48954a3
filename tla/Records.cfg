\* Two slots to a page, so that pages fill and empty; two data pages, so
\* that the list of pages with free space holds one page, another, or both,
\* and a scan goes from one page to the next.
SPECIFICATION Spec
CONSTANTS
  NumRecords = 2
  MaxPages = 3
  Record = {r1, r2}
  NoRecord = none
  Arg <- MCArg
  Path = {"a"}
  MaxFd = 2
  MaxPage = 6
  Data = {"zero"}
  Zero = "zero"
  PAGE_SIZE = 4096
  Columns <- MCColumns
  MaxNodes = 2
  MaxCrashes = 1
SYMMETRY Symmetry
VIEW View
CHECK_DEADLOCK FALSE
INVARIANTS
  CountsMatchBitmaps
  ScanMissesNothing
  
  NodeFits
PROPERTIES
  ImplementsTable
  
