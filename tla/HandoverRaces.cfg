SPECIFICATION Spec
CONSTANTS
  r1 = r1
  r2 = r2
  r3 = r3
  w1 = w1
  w2 = w2
  c1 = c1
  c2 = c2
  c3 = c3
  None = None
  Resources = {r1, r2, r3}
  Able = {r1, r2}
  Workpieces = {w1, w2}
  Calls = {c1, c2, c3}
  MaxFaults = 1
INVARIANTS OnePossessor ChangedOnce FirstGoesOnce
SYMMETRY Symmetry
CHECK_DEADLOCK FALSE
