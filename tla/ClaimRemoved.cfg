\* A connection that is deleted after a synchronization.
CONSTANTS
  Conns = {c1}
  Own = {}
  Sockets = {s1}
  MaxVersion = 1
  MaxUnderWay = 2
  MaxFailures = 0
  None = None
SPECIFICATION FairSpec
CHECK_DEADLOCK FALSE
PROPERTIES DeletedIsRemoved
