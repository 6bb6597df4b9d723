\* A connection of a user and one that publishing makes, a socket that may be
\* lost, two messages under way, a failure.
CONSTANTS
  Conns = {c1, c2}
  Own = {c2}
  Sockets = {s1}
  MaxVersion = 2
  MaxUnderWay = 2
  MaxFailures = 1
  None = None
SPECIFICATION FairSpec
CHECK_DEADLOCK FALSE
INVARIANTS TypeOK RegisteredHasRow
PROPERTIES NoRevival Arrives
