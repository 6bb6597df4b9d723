\* A view and two requests; the view and its virtualization are made again, and
\* each row changes once.
CONSTANTS
  Names = {v1}
  Paths = {a}
  Sent <- MostSent
  Threads = {t1, t2}
  MaxId = 3
  MaxVersion = 1
  MaxTouches = 1
  None = None
SPECIFICATION Spec
CHECK_DEADLOCK FALSE
SYMMETRY Symmetry
INVARIANTS TypeOK
PROPERTIES NoLostUpdate ParsableIsVersioned Serializable
