\* Two connections that have a name one after the other, two loads at a time,
\* one of which may fail, a request, a refresh that is asked for or a restart, and
\* updates, which begin while no other task waits.
CONSTANTS
  Requests = {r1}
  Executor = executor
  Loads = {l1, l2}
  MaxId = 2
  MaxVersion = 0
  MaxEvents = 1
  MaxQueue = 1
  MayFail = {"load"}
  None = None
  Failed = Failed
  Empty = Empty
SPECIFICATION Spec
CHECK_DEADLOCK FALSE
INVARIANTS TypeOK OwnSchema NoLeftover LoadKept
PROPERTIES ReplacedByExecutor
