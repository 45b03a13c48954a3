SPECIFICATION Spec
CONSTANTS
  PoolSize = 2
  Path = {pa}
  MaxFd = 1
  MaxPage = 3
  Data = {z, a}
  Zero = z
  Handle = {h1, h2}
  ReadFaults = TRUE
  WriteFaults = FALSE
  CleanNewPages = FALSE
SYMMETRY Symmetry
INVARIANT NoLostUpdate
