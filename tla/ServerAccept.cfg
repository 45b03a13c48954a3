SPECIFICATION FairSpec
CONSTANTS
  Conns = {c1}
  MaxLines = 1
  BeginReturns = {"transaction"}
  AcceptFails = TRUE
CHECK_DEADLOCK FALSE
PROPERTY AcceptErrorIgnored
