\* Two requests, either of which may list views, edits of a virtualization, and
\* two generations of a connection vdb.
CONSTANTS
  DVs = {d1}
  Threads = {t1, t2}
  Listers = {t1, t2}
  Conns = {c1}
  MaxVersion = 2
  MaxStamp = 2
  MaxGen = 2
  MayRecreate = FALSE
  None = None
SPECIFICATION Spec
CHECK_DEADLOCK FALSE
SYMMETRY Symmetry
INVARIANTS LabelIsCurrent FreshEnough PreviewSettled
