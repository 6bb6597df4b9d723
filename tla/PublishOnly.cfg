\* Publishing alone: two publishes of two virtualizations, or twice of one;
\* restarts of the pod, a failing call.
CONSTANTS
  DVs = {d1, d2}
  Works = {w1, w2}
  Publishers = {p1, p2}
  Unpublishers = {}
  PoolThreads = {t1, t2}
  Mortal = {d2}
  MaxFailures = 1
  UsersIntegrate = FALSE
  MayRestart = TRUE
  None = None
SPECIFICATION FairSpec
CHECK_DEADLOCK FALSE
INVARIANTS OneRunner BuildMonitored RunningIsServed
PROPERTIES StatusForward Lifecycle PublishEnds
