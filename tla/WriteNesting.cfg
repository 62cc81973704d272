CONSTANTS
  k1 = k1
  c1 = c1
  c2 = c2
  c3 = c3
  a1 = a1
  t1 = t1
  t2 = t2
  Commits = {k1}
  Creations = {c1, c2, c3}
  Aparts = {a1}
  Foreign = {c3}
  Tasks = {t1, t2}
  First = t1
  None = None
  Shared = Shared
  MayOutlive = FALSE
  MaxFaults = 2
  MaxUpdates = 1
SPECIFICATION WriteSpec
SYMMETRY Symmetry
CHECK_DEADLOCK FALSE
INVARIANTS SendsLastOfEach ExitWholeOrSkipped JoinedTogether AloneOrJoined
