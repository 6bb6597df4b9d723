\* Two virtualizations, one of which may be deleted and created again, two
\* requests, and a connection.
CONSTANTS
  DVs = {d1, d2}
  Threads = {t1, t2}
  Listers = {}
  Conns = {c1}
  MaxVersion = 0
  MaxStamp = 1
  MaxGen = 1
  MayRecreate = TRUE
  None = None
SPECIFICATION FairSpec
CHECK_DEADLOCK FALSE
INVARIANTS TypeOK PreviewThere NoCircularWait
PROPERTIES RequestEnds
