SPECIFICATION FairSpec
CONSTANTS
  k1 = k1
  Conn <- MCConn
  MaxRequests = 2
  FirstDelay = 5
  MaxDelay = 12
  MaxFailures = 3
INVARIANTS
  TypeOK
  RunReturnsACause
  OneLateRequest
  DelayFollowsFailures
PROPERTIES
  ShutdownCompletes
  ClosedConnectionsEnd
CHECK_DEADLOCK FALSE
