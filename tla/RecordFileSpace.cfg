SPECIFICATION Spec
CONSTANTS
  NumRecords = 2
  MaxPages = 3
  Record = {r1, r2}
  NoRecord = none
  Arg <- MCArg
  Path = {"a"}
  MaxFd = 2
  MaxPage = 6
  Data = {"zero"}
  Zero = "zero"
  PAGE_SIZE = 4096
  Columns <- MCColumns
  MaxNodes = 2
  MaxCrashes = 1
SYMMETRY Symmetry
VIEW View
CHECK_DEADLOCK FALSE
INVARIANT FirstFreeIsKnown
