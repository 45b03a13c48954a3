SPECIFICATION Spec
CONSTANTS
  PoolSize = 2
  Path = {pa, pb}
  MaxFd = 2
  MaxPage = 2
  Data = {z, a}
  Zero = z
  Handle = {h1, h2}
  ReadFaults = FALSE
  WriteFaults = FALSE
  CleanNewPages = FALSE
SYMMETRY Symmetry
INVARIANTS
  PinsMatchHandles
  AllocatedReadable
  NoFrameStranded
