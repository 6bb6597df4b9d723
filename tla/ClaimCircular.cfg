\* Publishing, and what the executor learns between the POST and the save.
CONSTANTS
  Conns = {c1}
  Own = {c1}
  Sockets = {s1}
  MaxVersion = 1
  MaxUnderWay = 2
  MaxFailures = 0
  None = None
SPECIFICATION Spec
CHECK_DEADLOCK FALSE
INVARIANTS NoCircular
