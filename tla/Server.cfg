\* Two clients that send two lines between them: both wait at once, or one is
\* answered twice.
SPECIFICATION FairSpec
CONSTANTS
  Conns = {c1, c2}
  MaxLines = 2
  BeginReturns = {"transaction", "nullptr"}
  AcceptFails = TRUE
CHECK_DEADLOCK FALSE
INVARIANTS
  SockfdHandedOver
  BufferMutexHeld
  AnswersOwnStatement
PROPERTY RequestAnswered
