\* A delete task that is over before its status is written.
CONSTANTS
  DVs = {d1}
  Works = {w1, w2}
  Publishers = {p1}
  Unpublishers = {u1}
  PoolThreads = {t1, t2}
  Mortal = {}
  MaxFailures = 0
  UsersIntegrate = FALSE
  MayRestart = FALSE
  None = None
SPECIFICATION FairSpec
CHECK_DEADLOCK FALSE
PROPERTIES DeleteEnds
