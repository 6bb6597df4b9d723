\* A name that is used again.
CONSTANTS
  DVs = {d1}
  Threads = {t1, t2}
  Listers = {}
  Conns = {c1}
  MaxVersion = 2
  MaxStamp = 2
  MaxGen = 0
  MayRecreate = TRUE
  None = None
SPECIFICATION Spec
CHECK_DEADLOCK FALSE
INVARIANTS OnDemandIsGood
