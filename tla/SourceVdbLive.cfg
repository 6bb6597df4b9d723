\* One load at a time, a source whose schema changes, the periodic synchronization,
\* a first synchronization that fails, and a data source that cannot be made.
CONSTANTS
  Requests = {r1}
  Executor = executor
  Loads = {l1}
  MaxId = 2
  MaxVersion = 1
  MaxEvents = 1
  MaxQueue = 1
  MayFail = {"greeting", "source"}
  None = None
  Failed = Failed
  Empty = Empty
SPECIFICATION FairSpec
CHECK_DEADLOCK FALSE
INVARIANTS ShowsRow
PROPERTIES Loaded ReachesVdb
