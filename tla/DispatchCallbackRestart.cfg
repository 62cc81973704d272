CONSTANTS
  Ops = {o1}
  Own = {}
  Instances = {i1}
  Exposers = {i1}
  Claimers = {i1}
  Tasks = {t1}
  None = None
  Callback = TRUE
  MaxEnds = 1
  MaxFaults = 0
  Faulty = {}
  o1 = o1
  i1 = i1
  i2 = i2
  t1 = t1
SPECIFICATION FairSpec
CHECK_DEADLOCK FALSE
PROPERTY QueuedIsTaken
