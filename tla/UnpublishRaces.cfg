\* A publish and an unpublish of one virtualization, two pool threads, a
\* failing call, integrations.
CONSTANTS
  DVs = {d1}
  Works = {w1, w2}
  Publishers = {p1}
  Unpublishers = {u1}
  PoolThreads = {t1, t2}
  Mortal = {}
  MaxFailures = 1
  UsersIntegrate = TRUE
  MayRestart = FALSE
  None = None
SPECIFICATION FairSpec
CHECK_DEADLOCK FALSE
INVARIANTS TypeOK ActiveIsCurrent NotForgotten ConfiguredOnce
PROPERTIES QueueDrains
